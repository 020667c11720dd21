---------------------------- MODULE Services_proofs ----------------------------
(***************************************************************************)
(* Proofs about the Panel's services that share no state: the Agent's      *)
(* self-upgrade, the files of the management PKI, the administrator's      *)
(* sessions and settings, the cache of external sources, and the rows of   *)
(* inbounds; for any number of calls, crashes, requests, sources and       *)
(* ticks. And about their functions: formats, versions, merging and port   *)
(* mappings, for inputs of any size.                                       *)
(***************************************************************************)
EXTENDS MCServices, FiniteSetTheorems, SequenceTheorems, NaturalsInduction, TLAPS

(***************************************************************************)
(* The self-upgrade. As long as no two stagings overlap, each one writes   *)
(* the inode of its own number, and no other.                              *)
(***************************************************************************)

UpgradeSpec == UpgradeInit /\ [][UpgradeNext]_upgradeVars

StagingSteps == {"new", "remove", "open", "write", "verify", "rename", "sums", "ready", "done"}
StagingCalls == [pc : StagingSteps, kind : Kinds, fd : Stagings \cup {0}, sum : Contents]

\* What staging k has left behind when it is about to do its next step.
AtStep(k) ==
    /\ staging[k].pc \in {"open", "write", "verify", "rename", "sums", "ready"} => ~ready
    /\ staging[k].pc = "open" => partial = 0
    /\ staging[k].pc \in {"write", "verify", "rename"} => partial = k
    /\ staging[k].pc = "write" => staging[k].fd = k /\ disk[k] = <<"half", k>>
    /\ staging[k].pc = "verify" => disk[k] \in {<<"right", k>>, <<"wrong", k>>}
    /\ staging[k].pc \in {"rename", "sums"} => staging[k].sum = disk[k] /\ Good(disk[k])
    /\ staging[k].pc \in {"sums", "ready"} => final = k
    /\ staging[k].pc = "ready" => sums = disk[k]

\* One staging at a time.
OneUnder == \A j, k \in Stagings : Under(j) /\ Under(k) => j = k

\* The two files are different inodes, of stagings that wrote to them.
FilesApart ==
    /\ partial # 0 => staging[partial].pc \in {"write", "verify", "rename", "done"} /\ partial # final
    /\ final # 0 => staging[final].pc \in {"sums", "ready", "done"} /\ Good(disk[final])

MarkedGood ==
    /\ ready => final # 0 /\ sums = disk[final]
    /\ helper = "install" => final # 0
    /\ installed = None \/ Good(installed)

SingleInv == OneUnder /\ (\A k \in Stagings : AtStep(k)) /\ FilesApart /\ MarkedGood

UpgradeInv ==
    /\ UpgradeTypeOK
    /\ staging \in [Stagings -> StagingCalls]
    /\ overlapped \in BOOLEAN
    /\ overlapped \/ SingleInv

LEMMA CallGoesOn ==
    ASSUME staging \in [Stagings -> StagingCalls], NEW k \in Stagings, NEW step \in StagingSteps, Goes(k, step)
    PROVE  /\ staging' \in [Stagings -> StagingCalls]
           /\ staging'[k].pc = step /\ staging'[k].kind = staging[k].kind
           /\ staging'[k].fd = staging[k].fd /\ staging'[k].sum = staging[k].sum
           /\ \A j \in Stagings \ {k} : staging'[j] = staging[j]
<1>1. staging' = [staging EXCEPT ![k] = [staging[k] EXCEPT !.pc = step]]
  BY DEF Goes
<1>2. [staging[k] EXCEPT !.pc = step] \in StagingCalls
  BY DEF StagingCalls
<1> QED BY <1>1, <1>2 DEF StagingCalls

LEMMA ContentKnown ==
    ASSUME UpgradeInv
    PROVE  /\ \A i \in Stagings \cup {0} : Content(i) \in Contents
           /\ Content(partial) \in Contents /\ Content(final) \in Contents
BY DEF UpgradeInv, UpgradeTypeOK, Content, Contents

\* Everything under way is over.
LEMMA AllStopped ==
    ASSUME UpgradeInv, staging' = AllStop
    PROVE  /\ staging' \in [Stagings -> StagingCalls]
           /\ \A k \in Stagings : /\ staging'[k].pc = IF staging[k].pc = "new" THEN "new" ELSE "done"
                                  /\ staging'[k].kind = staging[k].kind
<1>1. ASSUME NEW k \in Stagings
      PROVE  /\ [staging[k] EXCEPT !.pc = "done"] \in StagingCalls /\ staging[k] \in StagingCalls
             /\ [staging[k] EXCEPT !.pc = "done"].pc = "done"
             /\ [staging[k] EXCEPT !.pc = "done"].kind = staging[k].kind
  BY DEF UpgradeInv, StagingCalls, StagingSteps
<1> QED BY <1>1 DEF AllStop, Under

\* The types after a step of staging k; what was asked for does not change.
TypesKept(k) ==
    /\ UpgradeTypeOK' /\ staging' \in [Stagings -> StagingCalls] /\ overlapped' \in BOOLEAN
    /\ overlapped => overlapped'
    /\ \A j \in Stagings : staging'[j].kind = staging[j].kind
    /\ \A j \in Stagings \ {k} : staging'[j] = staging[j]

LEMMA StagingTypes ==
    ASSUME UpgradeInv, NEW k \in Stagings,
           \/ StagingBegins(k) \/ RemovesOld(k) \/ Opens(k) \/ Writes(k) \/ DownloadFails(k)
           \/ Verifies(k) \/ Renames(k) \/ WritesSums(k) \/ MarksReady(k)
    PROVE  TypesKept(k)
<1>0. /\ UpgradeTypeOK /\ staging \in [Stagings -> StagingCalls] /\ overlapped \in BOOLEAN
      /\ staging[k] \in StagingCalls /\ Stagings \subseteq Nat \ {0}
  BY UpgradeAssumption DEF UpgradeInv
<1>2. ASSUME NEW step \in StagingSteps, step # "write", Goes(k, step), disk' \in [Stagings -> Contents],
             partial' \in Stagings \cup {0}, final' \in Stagings \cup {0},
             sums' \in Contents, ready' \in BOOLEAN, UNCHANGED <<helper, installed, crashes>>,
             overlapped' \in BOOLEAN, overlapped => overlapped'
      PROVE  TypesKept(k)
  <2>1. /\ staging' \in [Stagings -> StagingCalls] /\ staging'[k].pc = step
        /\ staging'[k].kind = staging[k].kind /\ \A j \in Stagings \ {k} : staging'[j] = staging[j]
    BY <1>0, <1>2, CallGoesOn
  <2>2. \A j \in Stagings :
           /\ staging'[j].pc \in StagingSteps
           /\ staging'[j].kind \in Kinds /\ staging'[j].fd \in Stagings \cup {0}
           /\ staging'[j].sum \in Contents
           /\ staging'[j].pc = "write" => staging'[j].fd # 0
    BY <1>0, <2>1, <1>2 DEF UpgradeTypeOK, StagingCalls
  <2>3. UpgradeTypeOK'
    BY <1>0, <1>2, <2>2 DEF UpgradeTypeOK, StagingSteps
  <2> QED BY <1>0, <1>2, <2>1, <2>3 DEF TypesKept
<1>3. disk \in [Stagings -> Contents] /\ partial \in Stagings \cup {0} /\ final \in Stagings \cup {0}
      /\ sums \in Contents /\ ready \in BOOLEAN /\ None \in Contents
  BY <1>0 DEF UpgradeTypeOK, Contents
<1>4. /\ "new" \in StagingSteps /\ "remove" \in StagingSteps /\ "open" \in StagingSteps
      /\ "verify" \in StagingSteps /\ "rename" \in StagingSteps /\ "sums" \in StagingSteps
      /\ "ready" \in StagingSteps /\ "done" \in StagingSteps
  BY DEF StagingSteps
<1>5. CASE StagingBegins(k)
  BY <1>0, <1>2, <1>3, <1>4, <1>5 DEF StagingBegins, Under
<1>6. CASE RemovesOld(k)
  BY <1>0, <1>2, <1>3, <1>4, <1>6 DEF RemovesOld
<1>7. CASE Opens(k)
  <2> DEFINE inode == IF partial = 0 THEN k ELSE partial
             call == [[staging[k] EXCEPT !.pc = "write"] EXCEPT !.fd = inode]
  <2>1. inode \in Stagings
    BY <1>3
  <2>2. call \in StagingCalls /\ call.pc = "write" /\ call.fd = inode /\ call.kind = staging[k].kind
    BY <1>0, <2>1 DEF StagingCalls, StagingSteps
  <2>3. staging' = [staging EXCEPT ![k] = call]
    BY <1>0, <1>7 DEF Opens
  <2>4. staging' \in [Stagings -> StagingCalls] /\ staging'[k] = call
          /\ \A j \in Stagings \ {k} : staging'[j] = staging[j]
    BY <1>0, <2>2, <2>3
  <2>5. disk' \in [Stagings -> Contents] /\ partial' = inode
    <3>1. <<"half", k>> \in Contents
      BY DEF Contents
    <3> QED BY <1>3, <1>7, <2>1, <3>1 DEF Opens
  <2> HIDE DEF inode, call
  <2>6. UpgradeTypeOK'
    <3>1. \A j \in Stagings : staging'[j] \in StagingCalls
      BY <2>4
    <3>2. \A j \in Stagings : staging'[j].pc = "write" => staging'[j].fd # 0
      BY <1>0, <2>1, <2>2, <2>4 DEF UpgradeTypeOK
    <3> QED BY <1>0, <1>7, <2>1, <2>5, <3>1, <3>2 DEF Opens, UpgradeTypeOK, StagingCalls, StagingSteps
  <2> QED BY <1>0, <1>7, <2>2, <2>4, <2>6 DEF TypesKept, Opens
<1>8. CASE Writes(k)
  <2>1. PICK build \in {"right", "wrong"} :
            disk' = [disk EXCEPT ![staging[k].fd] =
                        IF disk[staging[k].fd] = <<"half", k>> THEN <<build, k>> ELSE Mixed]
    BY <1>8 DEF Writes
  <2>2. <<build, k>> \in Contents /\ Mixed \in Contents
    BY DEF Contents
  <2>3. disk' \in [Stagings -> Contents]
    BY <1>3, <2>1, <2>2
  <2> QED BY <1>0, <1>2, <1>3, <1>4, <1>8, <2>3 DEF Writes
<1>9. CASE DownloadFails(k)
  BY <1>0, <1>2, <1>3, <1>4, <1>9 DEF DownloadFails, Fails
<1>10. CASE Verifies(k)
  <2>1. CASE Fails(k) /\ partial' = 0
    BY <1>0, <1>2, <1>3, <1>4, <1>10, <2>1 DEF Verifies, Fails
  <2>2. CASE /\ staging' = [staging EXCEPT ![k].pc = "rename", ![k].sum = Content(partial)]
             /\ UNCHANGED partial
    <3> DEFINE call == [[staging[k] EXCEPT !.pc = "rename"] EXCEPT !.sum = Content(partial)]
    <3>1. Content(partial) \in Contents
      BY ContentKnown
    <3>2. call \in StagingCalls /\ call.pc = "rename" /\ call.kind = staging[k].kind
      BY <1>0, <3>1 DEF StagingCalls, StagingSteps
    <3>3. staging' = [staging EXCEPT ![k] = call]
      BY <1>0, <2>2
    <3>4. staging' \in [Stagings -> StagingCalls] /\ staging'[k] = call
            /\ \A j \in Stagings \ {k} : staging'[j] = staging[j]
      BY <1>0, <3>2, <3>3
    <3> HIDE DEF call
    <3>5. UpgradeTypeOK'
      <4>1. \A j \in Stagings : staging'[j] \in StagingCalls
        BY <3>4
      <4>2. \A j \in Stagings : staging'[j].pc = "write" => staging'[j].fd # 0
        BY <1>0, <3>2, <3>4 DEF UpgradeTypeOK
      <4> QED BY <1>0, <1>10, <2>2, <4>1, <4>2 DEF Verifies, UpgradeTypeOK, StagingCalls, StagingSteps
    <3> QED BY <1>0, <1>10, <3>2, <3>4, <3>5 DEF TypesKept, Verifies
  <2> QED BY <1>10, <2>1, <2>2 DEF Verifies
<1>11. CASE Renames(k)
  BY <1>0, <1>2, <1>3, <1>4, <1>11 DEF Renames, Fails
<1>12. CASE WritesSums(k)
  BY <1>0, <1>2, <1>3, <1>4, <1>12 DEF WritesSums, StagingCalls
<1>13. CASE MarksReady(k)
  BY <1>0, <1>2, <1>3, <1>4, <1>13 DEF MarksReady
<1> QED BY <1>5, <1>6, <1>7, <1>8, <1>9, <1>10, <1>11, <1>12, <1>13

\* What one staging does leaves the others, which are not under way, as they are.
LEMMA OneStaging ==
    ASSUME UpgradeInv, NEW k \in Stagings, ~overlapped', TypesKept(k),
           \/ StagingBegins(k) \/ RemovesOld(k) \/ Opens(k) \/ Writes(k) \/ DownloadFails(k)
           \/ Verifies(k) \/ Renames(k) \/ WritesSums(k) \/ MarksReady(k)
    PROVE  /\ SingleInv /\ ~overlapped
           /\ \A j \in Stagings \ {k} : staging[j].pc \in {"new", "done"} /\ staging'[j] = staging[j]
           /\ OneUnder' /\ \A j \in Stagings \ {k} : AtStep(j)'
<1>1. ~overlapped /\ SingleInv
  BY DEF UpgradeInv, TypesKept
<1>2. \A j \in Stagings \ {k} : ~Under(j)
  <2>1. CASE Under(k)
    BY <1>1, <2>1 DEF SingleInv, OneUnder
  <2>2. CASE ~Under(k)
    <3>1. StagingBegins(k)
      BY <2>2 DEF Under, RemovesOld, Opens, Writes, DownloadFails, Verifies, Renames, WritesSums, MarksReady
    <3> QED BY <3>1 DEF StagingBegins
  <2> QED BY <2>1, <2>2
<1>3. \A j \in Stagings \ {k} : staging[j].pc \in {"new", "done"} /\ staging'[j] = staging[j]
  BY <1>2 DEF TypesKept, Under
<1>4. OneUnder'
  BY <1>3 DEF OneUnder, Under
<1>5. \A j \in Stagings \ {k} : AtStep(j)'
  BY <1>3 DEF AtStep
<1> QED BY <1>1, <1>3, <1>4, <1>5

LEMMA BeginsSingle ==
    ASSUME UpgradeInv, NEW k \in Stagings, ~overlapped', TypesKept(k),
           \/ StagingBegins(k) \/ RemovesOld(k) \/ DownloadFails(k) \/ WritesSums(k) \/ MarksReady(k)
    PROVE  SingleInv'
<1>0. /\ SingleInv /\ AtStep(k) /\ staging[k] \in StagingCalls
      /\ \A j \in Stagings \ {k} : staging[j].pc \in {"new", "done"} /\ staging'[j] = staging[j]
      /\ OneUnder' /\ \A j \in Stagings \ {k} : AtStep(j)'
      /\ partial \in Stagings \cup {0} /\ final \in Stagings \cup {0}
  BY OneStaging DEF SingleInv, UpgradeInv, UpgradeTypeOK
<1>1. \A j \in Stagings : staging'[j].kind = staging[j].kind
  BY DEF TypesKept
<1>2. UNCHANGED <<disk, final, helper, installed>>
  BY DEF StagingBegins, RemovesOld, DownloadFails, WritesSums, MarksReady
<1>3. /\ \A i \in Stagings : Good(disk[i]) => Good(disk[i])'
      /\ Good(installed) => Good(installed)'
      /\ final # 0 => (Good(disk[final]) => Good(disk[final])')
  BY <1>0, <1>1, <1>2 DEF Good
<1>4. staging'[k].sum = staging[k].sum /\ staging'[k].fd = staging[k].fd
  BY CallGoesOn DEF UpgradeInv, StagingBegins, RemovesOld, DownloadFails, WritesSums, MarksReady, Fails, StagingSteps
<1>5. CASE StagingBegins(k)
  <2>1. staging[k].pc = "new" /\ staging'[k].pc = "remove" /\ UNCHANGED <<partial, sums, ready>>
    BY <1>5, CallGoesOn DEF StagingBegins, UpgradeInv, StagingSteps
  <2>2. AtStep(k)'
    BY <2>1 DEF AtStep
  <2>3. FilesApart' /\ MarkedGood'
    BY <1>0, <1>2, <1>3, <2>1 DEF SingleInv, FilesApart, MarkedGood
  <2> QED BY <1>0, <2>2, <2>3 DEF SingleInv
<1>6. CASE RemovesOld(k)
  <2>1. /\ staging[k].pc = "remove" /\ staging'[k].pc = "open" /\ partial' = 0 /\ ready' = FALSE
    BY <1>6, CallGoesOn DEF RemovesOld, UpgradeInv, StagingSteps
  <2>2. AtStep(k)'
    BY <2>1 DEF AtStep
  <2>3. FilesApart' /\ MarkedGood'
    BY <1>0, <1>2, <1>3, <2>1 DEF SingleInv, FilesApart, MarkedGood
  <2> QED BY <1>0, <2>2, <2>3 DEF SingleInv
<1>7. CASE DownloadFails(k)
  <2>1. /\ staging[k].pc \in {"open", "write"} /\ staging'[k].pc = "done" /\ partial' = 0
        /\ UNCHANGED <<sums, ready>>
    BY <1>7, CallGoesOn DEF DownloadFails, Fails, UpgradeInv, StagingSteps
  <2>2. AtStep(k)'
    BY <2>1 DEF AtStep
  <2>3. FilesApart' /\ MarkedGood'
    BY <1>0, <1>2, <1>3, <2>1 DEF SingleInv, FilesApart, MarkedGood
  <2> QED BY <1>0, <2>2, <2>3 DEF SingleInv
<1>8. CASE WritesSums(k)
  <2>1. /\ staging[k].pc = "sums" /\ staging'[k].pc = "ready" /\ sums' = staging[k].sum
        /\ UNCHANGED <<partial, ready>>
    BY <1>8, CallGoesOn DEF WritesSums, UpgradeInv, StagingSteps
  <2>2. AtStep(k)'
    BY <1>0, <1>2, <2>1 DEF AtStep
  <2>3. FilesApart' /\ MarkedGood'
    BY <1>0, <1>2, <1>3, <2>1 DEF SingleInv, FilesApart, MarkedGood, AtStep
  <2> QED BY <1>0, <2>2, <2>3 DEF SingleInv
<1>9. CASE MarksReady(k)
  <2>1. /\ staging[k].pc = "ready" /\ staging'[k].pc = "done" /\ ready' = TRUE
        /\ UNCHANGED <<partial, sums>>
    BY <1>9, CallGoesOn DEF MarksReady, UpgradeInv, StagingSteps
  <2>2. AtStep(k)'
    BY <2>1 DEF AtStep
  <2>3. k # 0
    BY UpgradeAssumption
  <2>4. FilesApart' /\ MarkedGood'
    BY <1>0, <1>2, <1>3, <2>1, <2>3 DEF SingleInv, FilesApart, MarkedGood, AtStep
  <2> QED BY <1>0, <2>2, <2>4 DEF SingleInv
<1> QED BY <1>5, <1>6, <1>7, <1>8, <1>9

LEMMA FilesSingle ==
    ASSUME UpgradeInv, NEW k \in Stagings, ~overlapped', TypesKept(k),
           Opens(k) \/ Writes(k) \/ Verifies(k) \/ Renames(k)
    PROVE  SingleInv'
<1>0. /\ SingleInv /\ AtStep(k) /\ staging[k] \in StagingCalls /\ staging \in [Stagings -> StagingCalls]
      /\ \A j \in Stagings \ {k} : staging[j].pc \in {"new", "done"} /\ staging'[j] = staging[j]
      /\ OneUnder' /\ \A j \in Stagings \ {k} : AtStep(j)'
      /\ partial \in Stagings \cup {0} /\ final \in Stagings \cup {0} /\ disk \in [Stagings -> Contents]
      /\ k # 0
  BY OneStaging, UpgradeAssumption DEF SingleInv, UpgradeInv, UpgradeTypeOK
<1>1. \A j \in Stagings : staging'[j].kind = staging[j].kind
  BY DEF TypesKept
<1>2. UNCHANGED <<sums, ready, helper, installed>>
  BY DEF Opens, Writes, Verifies, Renames
<1>3. Good(installed) => Good(installed)'
  BY <1>1, <1>2 DEF Good
<1>4. \A i \in Stagings : disk'[i] = disk[i] /\ Good(disk[i]) => Good(disk[i])'
  BY <1>1 DEF Good
<1>5. CASE Opens(k)
  <2>1. staging[k].pc = "open" /\ partial = 0 /\ ~ready
    BY <1>0, <1>5 DEF Opens, AtStep
  <2>2. partial' = k /\ disk' = [disk EXCEPT ![k] = <<"half", k>>] /\ UNCHANGED final
    BY <1>5, <2>1 DEF Opens
  <2>3. staging' = [staging EXCEPT ![k] = [[staging[k] EXCEPT !.pc = "write"] EXCEPT !.fd = k]]
    BY <1>0, <1>5, <2>1 DEF Opens
  <2>4. staging'[k].pc = "write" /\ staging'[k].fd = k
    BY <1>0, <2>3 DEF StagingCalls
  <2>5. final # k
    BY <1>0, <2>1 DEF SingleInv, FilesApart
  <2>6. AtStep(k)'
    BY <1>0, <1>2, <2>1, <2>2, <2>4 DEF AtStep
  <2>7. FilesApart'
    BY <1>0, <1>4, <2>2, <2>4, <2>5 DEF SingleInv, FilesApart
  <2>8. MarkedGood'
    BY <1>0, <1>2, <1>3, <2>1, <2>2 DEF SingleInv, MarkedGood
  <2> QED BY <1>0, <2>6, <2>7, <2>8 DEF SingleInv
<1>6. CASE Writes(k)
  <2>1. staging[k].pc = "write" /\ staging[k].fd = k /\ disk[k] = <<"half", k>> /\ partial = k /\ ~ready
    BY <1>0, <1>6 DEF Writes, AtStep
  <2>2. PICK build \in {"right", "wrong"} : disk' = [disk EXCEPT ![k] = <<build, k>>]
    BY <1>6, <2>1 DEF Writes
  <2>3. staging'[k].pc = "verify" /\ UNCHANGED <<partial, final>>
    BY <1>0, <1>6, CallGoesOn DEF Writes, StagingSteps
  <2>4. final # k
    BY <1>0, <2>1 DEF SingleInv, FilesApart
  <2>5. AtStep(k)'
    BY <1>0, <1>2, <2>1, <2>2, <2>3 DEF AtStep
  <2>6. FilesApart'
    BY <1>0, <1>4, <2>1, <2>2, <2>3, <2>4 DEF SingleInv, FilesApart
  <2>7. MarkedGood'
    BY <1>0, <1>2, <1>3, <2>1, <2>3 DEF SingleInv, MarkedGood
  <2> QED BY <1>0, <2>5, <2>6, <2>7 DEF SingleInv
<1>7. CASE Verifies(k)
  <2>1. staging[k].pc = "verify" /\ partial = k /\ disk[k] \in {<<"right", k>>, <<"wrong", k>>} /\ ~ready
    BY <1>0, <1>7 DEF Verifies, AtStep
  <2>2. UNCHANGED <<disk, final>> /\ Content(partial) = disk[k]
    BY <1>0, <1>7, <2>1 DEF Verifies, Content
  <2>3. CASE Fails(k) /\ partial' = 0
    <3>1. staging'[k].pc = "done"
      BY <1>0, <2>3, CallGoesOn DEF Fails, StagingSteps
    <3>2. AtStep(k)'
      BY <3>1 DEF AtStep
    <3>3. FilesApart' /\ MarkedGood'
      BY <1>0, <1>2, <1>3, <1>4, <2>1, <2>2, <2>3, <3>1 DEF SingleInv, FilesApart, MarkedGood
    <3> QED BY <1>0, <3>2, <3>3 DEF SingleInv
  <2>4. CASE /\ Verified(k, disk[k]) /\ UNCHANGED partial
             /\ staging' = [staging EXCEPT ![k].pc = "rename", ![k].sum = disk[k]]
    <3>1. staging' = [staging EXCEPT ![k] = [[staging[k] EXCEPT !.pc = "rename"] EXCEPT !.sum = disk[k]]]
      BY <1>0, <2>4
    <3>2. staging'[k].pc = "rename" /\ staging'[k].sum = disk[k] /\ staging'[k].kind = staging[k].kind
      BY <1>0, <3>1 DEF StagingCalls
    <3>3. Good(disk[k])
      BY <2>1, <2>4 DEF Verified, Good
    <3>4. AtStep(k)'
      BY <1>0, <1>2, <1>4, <2>1, <2>2, <2>4, <3>2, <3>3 DEF AtStep
    <3>5. FilesApart' /\ MarkedGood'
      BY <1>0, <1>2, <1>3, <1>4, <2>1, <2>2, <2>4, <3>2 DEF SingleInv, FilesApart, MarkedGood
    <3> QED BY <1>0, <3>4, <3>5 DEF SingleInv
  <2> QED BY <1>7, <2>2, <2>3, <2>4 DEF Verifies
<1>8. CASE Renames(k)
  <2>1. staging[k].pc = "rename" /\ partial = k /\ staging[k].sum = disk[k] /\ Good(disk[k]) /\ ~ready
    BY <1>0, <1>8 DEF Renames, AtStep
  <2>2. final' = k /\ partial' = 0 /\ UNCHANGED disk
    BY <1>0, <1>8, <2>1 DEF Renames
  <2>3. staging'[k].pc = "sums" /\ staging'[k].sum = disk[k]
    BY <1>0, <1>8, <2>1, CallGoesOn DEF Renames, StagingSteps
  <2>4. AtStep(k)'
    BY <1>2, <1>4, <2>1, <2>2, <2>3 DEF AtStep
  <2>5. FilesApart' /\ MarkedGood'
    BY <1>0, <1>2, <1>3, <1>4, <2>1, <2>2, <2>3 DEF SingleInv, FilesApart, MarkedGood
  <2> QED BY <1>0, <2>4, <2>5 DEF SingleInv
<1> QED BY <1>5, <1>6, <1>7, <1>8

\* The helper and the crashes.
LEMMA HelperStep ==
    ASSUME UpgradeInv, HelperChecks \/ HelperInstalls \/ HelperEnds \/ AgentCrashes
    PROVE  UpgradeInv'
<1>0. /\ UpgradeTypeOK /\ staging \in [Stagings -> StagingCalls] /\ overlapped \in BOOLEAN
      /\ overlapped \/ SingleInv
      /\ final \in Stagings \cup {0} /\ partial \in Stagings \cup {0} /\ disk \in [Stagings -> Contents]
      /\ UNCHANGED <<disk, final, sums, overlapped>>
  BY DEF UpgradeInv, UpgradeTypeOK, HelperChecks, HelperInstalls, HelperEnds, AgentCrashes
<1>1. staging' = staging \/ staging' = AllStop
  BY DEF HelperChecks, HelperInstalls, HelperEnds, AgentCrashes
<1>2. /\ staging' \in [Stagings -> StagingCalls]
      /\ \A k \in Stagings : /\ staging'[k].kind = staging[k].kind
                             /\ \/ staging' = staging /\ UNCHANGED <<ready, partial>>
                                \/ staging'[k].pc = IF staging[k].pc = "new" THEN "new" ELSE "done"
  BY <1>0, <1>1, AllStopped DEF HelperChecks, HelperInstalls, HelperEnds, AgentCrashes
<1>3. UpgradeTypeOK'
  <2>1. \A k \in Stagings : staging'[k] \in StagingCalls /\ (staging'[k].pc = "write" => staging'[k].fd # 0)
    BY <1>0, <1>2 DEF UpgradeTypeOK
  <2>2. installed' \in Contents
    BY <1>0, ContentKnown DEF UpgradeTypeOK, HelperChecks, HelperInstalls, HelperEnds, AgentCrashes
  <2>3. partial' \in Stagings \cup {0} /\ ready' \in BOOLEAN /\ helper' \in {"idle", "install", "clean"}
    BY <1>0 DEF UpgradeTypeOK, HelperChecks, HelperInstalls, HelperEnds, AgentCrashes
  <2>4. crashes' \in 0 .. MaxCrashes
    BY <1>0, UpgradeAssumption DEF UpgradeTypeOK, HelperChecks, HelperInstalls, HelperEnds, AgentCrashes
  <2> QED BY <1>0, <2>1, <2>2, <2>3, <2>4 DEF UpgradeTypeOK, StagingCalls, StagingSteps
<1>4. ASSUME ~overlapped PROVE SingleInv'
  <2>0. SingleInv
    BY <1>0, <1>4
  <2>1. \A c \in {installed} \cup {disk[i] : i \in Stagings} : Good(c) =>
            \E k \in Stagings : c = <<"right", k>> \/ (c = <<"wrong", k>> /\ staging'[k].kind = "unverified")
    BY <1>2 DEF Good
  <2>2. OneUnder'
    BY <1>2, <2>0 DEF SingleInv, OneUnder, Under
  <2>3. \A k \in Stagings : AtStep(k)'
    <3>1. CASE staging' = staging /\ UNCHANGED <<ready, partial>>
      BY <1>0, <2>0, <2>1, <3>1 DEF SingleInv, AtStep, Good
    <3>2. CASE ~(staging' = staging /\ UNCHANGED <<ready, partial>>)
      BY <1>2, <3>2 DEF AtStep
    <3> QED BY <3>1, <3>2
  <2>4. FilesApart'
    <3>1. partial' # 0 => partial' = partial
      BY DEF HelperChecks, HelperInstalls, HelperEnds, AgentCrashes
    <3>2. final # 0 => Good(disk[final])'
      BY <1>0, <2>0, <2>1 DEF SingleInv, FilesApart, Good
    <3> QED BY <1>0, <1>2, <2>0, <3>1, <3>2 DEF SingleInv, FilesApart
  <2>5. MarkedGood'
    <3>1. CASE HelperInstalls
      <4>1. installed' = disk[final] /\ final # 0 /\ helper' = "clean" /\ UNCHANGED ready
        BY <1>0, <2>0, <3>1 DEF HelperInstalls, SingleInv, MarkedGood, Content
      <4>2. Good(installed)'
        BY <1>0, <2>0, <2>1, <4>1 DEF SingleInv, FilesApart, Good
      <4> QED BY <1>0, <2>0, <4>1, <4>2 DEF SingleInv, MarkedGood
    <3>2. CASE HelperChecks \/ HelperEnds \/ AgentCrashes
      <4>1. installed' = installed /\ (ready' => ready) /\ (helper' = "install" => helper = "install" \/ ready)
        BY <3>2 DEF HelperChecks, HelperEnds, AgentCrashes
      <4>2. installed = None \/ Good(installed)'
        BY <2>0, <2>1, <4>1 DEF SingleInv, MarkedGood, Good
      <4> QED BY <1>0, <2>0, <4>1, <4>2 DEF SingleInv, MarkedGood
    <3> QED BY <3>1, <3>2
  <2> QED BY <2>2, <2>3, <2>4, <2>5 DEF SingleInv
<1> QED BY <1>0, <1>2, <1>3, <1>4 DEF UpgradeInv

LEMMA UpgradeStep ==
    ASSUME UpgradeInv, [UpgradeNext]_upgradeVars
    PROVE  UpgradeInv'
<1>1. ASSUME NEW k \in Stagings,
             \/ StagingBegins(k) \/ RemovesOld(k) \/ Opens(k) \/ Writes(k) \/ DownloadFails(k)
             \/ Verifies(k) \/ Renames(k) \/ WritesSums(k) \/ MarksReady(k)
      PROVE  UpgradeInv'
  <2>1. TypesKept(k)
    BY <1>1, StagingTypes
  <2>2. ~overlapped' => SingleInv'
    BY <1>1, <2>1, BeginsSingle, FilesSingle
  <2> QED BY <2>1, <2>2 DEF UpgradeInv, TypesKept
<1>2. CASE UNCHANGED upgradeVars
  BY <1>2 DEF upgradeVars, UpgradeInv, UpgradeTypeOK, SingleInv, OneUnder, Under, AtStep, FilesApart,
              MarkedGood, Good
<1> QED BY <1>1, <1>2, HelperStep DEF UpgradeNext

LEMMA UpgradeStarts == UpgradeInit => UpgradeInv
<1> SUFFICES ASSUME UpgradeInit PROVE UpgradeInv
  OBVIOUS
<1>1. \A k \in Stagings : staging[k].pc = "new" /\ staging[k] \in StagingCalls
  <2>1. None \in Contents
    BY DEF Contents
  <2>2. \A kind \in Kinds : [pc |-> "new", kind |-> kind, fd |-> 0, sum |-> None] \in StagingCalls
    BY <2>1 DEF StagingCalls, StagingSteps
  <2> QED BY <2>2 DEF UpgradeInit
<1>2. staging \in [Stagings -> StagingCalls]
  BY <1>1 DEF UpgradeInit
<1>3. UpgradeTypeOK
  <2>1. disk \in [Stagings -> Contents] /\ sums \in Contents /\ installed \in Contents
    BY DEF UpgradeInit, Contents
  <2>2. crashes \in 0 .. MaxCrashes
    BY UpgradeAssumption DEF UpgradeInit
  <2> QED BY <1>1, <2>1, <2>2 DEF UpgradeInit, UpgradeTypeOK, StagingCalls, StagingSteps
<1>4. SingleInv
  BY <1>1 DEF UpgradeInit, SingleInv, OneUnder, Under, AtStep, FilesApart, MarkedGood
<1> QED BY <1>2, <1>3, <1>4 DEF UpgradeInit, UpgradeInv

LEMMA UpgradeSafe == UpgradeInv => OnlyVerifiedInstalled
BY DEF UpgradeInv, SingleInv, MarkedGood, FilesApart, OnlyVerifiedInstalled, Content, UpgradeTypeOK

\* For any number of calls of UpgradeAgent and of crashes: unless two stagings overlapped, the
\* installed binary and the one marked as ready came whole and passed the verification that was
\* asked for.
THEOREM VerifiedAlwaysInstalled == UpgradeSpec => []OnlyVerifiedInstalled
<1>1. UpgradeInv /\ [UpgradeNext]_upgradeVars => UpgradeInv'
  BY UpgradeStep
<1> QED BY UpgradeStarts, UpgradeSafe, <1>1, PTL DEF UpgradeSpec

(***************************************************************************)
(* The files of the management PKI. What the process is about to write is  *)
(* known at every step, and with it what a stop leaves.                    *)
(***************************************************************************)

PkiFilesSpec == PkiFilesInit /\ [][PkiFilesNext]_pkiVars

NoCa == \A f \in CaFiles : ~Has(f)
AllCa == \A f \in CaFiles : Has(f)

\* The first start; k keys had been generated before.
RootCrt(k) == Cert(k + 1, k + 1, MaxTicks + 1)
IntCrt(k) == Cert(k + 2, k + 1, clock + IntermediateLife)
Booting(k) ==
    /\ keys = k + 2
    /\ \/ /\ todo = <<Write("root.key", Key(k + 1)), Write("root.crt", RootCrt(k)),
                      Write("int.key", Key(k + 2)), Write("int.crt", IntCrt(k))>>
          /\ NoCa
       \/ /\ todo = <<Write("root.crt", RootCrt(k)), Write("int.key", Key(k + 2)), Write("int.crt", IntCrt(k))>>
          /\ NoCa
       \/ /\ todo = <<Write("int.key", Key(k + 2)), Write("int.crt", IntCrt(k))>>
          /\ file["root.crt"] = RootCrt(k) /\ ~Has("int.key") /\ ~Has("int.crt")
       \/ /\ todo = <<Write("int.crt", IntCrt(k))>>
          /\ file["root.crt"] = RootCrt(k) /\ file["int.key"] = Key(k + 2) /\ ~Has("int.crt")

\* A client identity of the intermediate in use.
ClientCrt(k) == Cert(k + 1, mem.int.key, Until(mem.int))
Renewing(k) ==
    /\ keys = k + 1 /\ AllCa /\ CaMatches /\ mem.int = file["int.crt"] /\ CanIssue(mem.int)
    /\ \/ todo = <<Write("client.key", Key(k + 1)), Write("client.crt", ClientCrt(k))>>
       \/ todo = <<Write("client.crt", ClientCrt(k))>> /\ file["client.key"] = Key(k + 1)
       \/ todo = <<>> /\ file["client.key"] = Key(k + 1) /\ file["client.crt"] = ClientCrt(k)

\* A new intermediate and a client identity of it, before the intermediate is in place.
Rotating(k) ==
    /\ cli = "rotated" /\ keys = k + 2 /\ AllCa /\ file["int.crt"].issuer = file["root.crt"].key
    /\ mem.int = Cert(k + 1, file["root.crt"].key, clock + IntermediateLife)
    /\ \/ /\ todo = <<Write("int.key", Key(k + 1)), Write("int.crt", mem.int),
                      Write("client.key", Key(k + 2)), Write("client.crt", ClientCrt(k + 1))>>
          /\ CaMatches
       \/ /\ todo = <<Write("int.crt", mem.int), Write("client.key", Key(k + 2)),
                      Write("client.crt", ClientCrt(k + 1))>>
          /\ file["int.key"] = Key(k + 1)

\* What is under way, by the step of the process.
FilesPhase ==
    /\ pc \in {"down", "running"} => todo = <<>>
    /\ pc = "down" => torn \/ NoCa \/ (AllCa /\ CaMatches)
    /\ pc = "load" => \/ todo = <<>> /\ AllCa /\ (torn \/ CaMatches)
                      \/ \E k \in Nat : Booting(k)
    /\ pc = "client" => \E k \in Nat : Renewing(k) \/ Rotating(k)
    /\ pc = "running" => AllCa /\ IdentityUsable
    /\ mem.key.key = mem.client.key

PkiFilesInv == PkiFilesTypeOK /\ FilesPhase

\* The first of what is to be written, and the rest.
LEMMA WrittenInOrder ==
    ASSUME NEW a, NEW b, NEW c, NEW d
    PROVE  /\ Head(<<a>>) = a /\ Tail(<<a>>) = <<>>
           /\ Head(<<a, b>>) = a /\ Tail(<<a, b>>) = <<b>>
           /\ Head(<<a, b, c>>) = a /\ Tail(<<a, b, c>>) = <<b, c>>
           /\ Head(<<a, b, c, d>>) = a /\ Tail(<<a, b, c, d>>) = <<b, c, d>>
           /\ <<>> # <<a>> /\ <<>> # <<a, b>> /\ <<>> # <<a, b, c>> /\ <<>> # <<a, b, c, d>>
OBVIOUS

\* The writes of the model are of files, with keys and certificates.
LEMMA WritesTyped ==
    ASSUME NEW a, NEW b, NEW c, NEW d
    PROVE  /\ \A i \in 1 .. Len(<<a>>) : <<a>>[i] = a
           /\ \A i \in 1 .. Len(<<a, b>>) : <<a, b>>[i] \in {a, b}
           /\ \A i \in 1 .. Len(<<a, b, c>>) : <<a, b, c>>[i] \in {a, b, c}
           /\ \A i \in 1 .. Len(<<a, b, c, d>>) : <<a, b, c, d>>[i] \in {a, b, c, d}
           /\ \A i \in 1 .. Len(<<>>) : FALSE
OBVIOUS

LEMMA FilesStart == PkiFilesInit => PkiFilesInv
<1> SUFFICES ASSUME PkiFilesInit PROVE PkiFilesInv
  OBVIOUS
<1>1. NoCert \in Certs
  BY DEF NoCert, Cert, Certs
<1>2. todo = <<>> /\ \A i \in 1 .. Len(todo) : FALSE
  BY DEF PkiFilesInit
<1>3. PkiFilesTypeOK
  <2>1. file \in [Files -> Certs] /\ mem \in [int : Certs, client : Certs, key : Certs]
    BY <1>1 DEF PkiFilesInit, NoMem
  <2>2. clock \in 0 .. MaxTicks /\ starts \in 0 .. MaxStarts
    BY PkiFilesAssumption DEF PkiFilesInit
  <2> QED BY <1>2, <2>1, <2>2 DEF PkiFilesInit, PkiFilesTypeOK
<1>4. NoCa
  BY DEF PkiFilesInit, NoCa, Has, CaFiles, Files
<1> QED BY <1>2, <1>3, <1>4 DEF PkiFilesInit, PkiFilesInv, FilesPhase, NoMem

AllTyped(s) == \A i \in 1 .. Len(s) : s[i].name \in Files /\ s[i].data \in Certs

LEMMA WriteTyped ==
    ASSUME NEW f \in Files, NEW data \in Certs
    PROVE  /\ Write(f, data) \in [name : Files, data : Certs]
           /\ Write(f, data).name = f /\ Write(f, data).data = data
BY DEF Write

LEMMA AllWritesTyped ==
    ASSUME NEW a \in [name : Files, data : Certs], NEW b \in [name : Files, data : Certs],
           NEW c \in [name : Files, data : Certs], NEW d \in [name : Files, data : Certs]
    PROVE  AllTyped(<<>>) /\ AllTyped(<<a>>) /\ AllTyped(<<a, b>>) /\ AllTyped(<<a, b, c>>)
           /\ AllTyped(<<a, b, c, d>>)
<1>1. \A x \in {a, b, c, d} : x.name \in Files /\ x.data \in Certs
  OBVIOUS
<1>2. AllTyped(<<>>)
  BY DEF AllTyped
<1>3. AllTyped(<<a>>)
  BY <1>1 DEF AllTyped
<1>4. AllTyped(<<a, b>>)
  BY <1>1, WritesTyped DEF AllTyped
<1>5. AllTyped(<<a, b, c>>)
  BY <1>1, WritesTyped DEF AllTyped
<1>6. AllTyped(<<a, b, c, d>>)
  BY <1>1, WritesTyped DEF AllTyped
<1> QED BY <1>2, <1>3, <1>4, <1>5, <1>6

LEMMA CertTyped ==
    ASSUME NEW key \in Nat \ {0}, NEW issuer \in Nat, NEW until \in Nat
    PROVE  /\ Cert(key, issuer, until) \in Certs /\ Cert(key, issuer, until) # NoCert
           /\ Cert(key, issuer, until).key = key /\ Cert(key, issuer, until).issuer = issuer
           /\ Cert(key, issuer, until).until = until
<1>1. Cert(key, issuer, until).key = key /\ NoCert.key = 0
  BY DEF Cert, NoCert
<1> QED BY <1>1 DEF Cert, Certs

LEMMA DataTyped ==
    ASSUME PkiFilesTypeOK, NEW k \in Nat
    PROVE  /\ Key(k + 1) \in Certs /\ Key(k + 1) # NoCert /\ Key(k + 1).key = k + 1
           /\ Key(k + 2) \in Certs /\ Key(k + 2) # NoCert /\ Key(k + 2).key = k + 2
           /\ RootCrt(k) \in Certs /\ RootCrt(k) # NoCert /\ RootCrt(k).key = k + 1
           /\ IntCrt(k) \in Certs /\ IntCrt(k) # NoCert /\ IntCrt(k).key = k + 2 /\ IntCrt(k).issuer = k + 1
           /\ ClientCrt(k) \in Certs /\ ClientCrt(k) # NoCert /\ ClientCrt(k).key = k + 1
           /\ ClientCrt(k).until = Until(mem.int)
<1>1. clock \in Nat /\ MaxTicks \in Nat /\ IntermediateLife \in Nat /\ ClientLife \in Nat
  BY PkiFilesAssumption DEF PkiFilesTypeOK
<1>2. mem.int \in Certs
  BY DEF PkiFilesTypeOK
<1>3. mem.int.key \in Nat /\ Until(mem.int) \in Nat
  BY <1>1, <1>2 DEF Certs, Until, Earlier
<1>5. k + 1 \in Nat \ {0} /\ k + 2 \in Nat \ {0} /\ MaxTicks + 1 \in Nat /\ clock + IntermediateLife \in Nat
  BY <1>1
<1>6. Key(k + 1) \in Certs /\ Key(k + 1) # NoCert /\ Key(k + 1).key = k + 1
  BY CertTyped, <1>5 DEF Key
<1>7. Key(k + 2) \in Certs /\ Key(k + 2) # NoCert /\ Key(k + 2).key = k + 2
  BY CertTyped, <1>5 DEF Key
<1>8. RootCrt(k) \in Certs /\ RootCrt(k) # NoCert /\ RootCrt(k).key = k + 1
  BY CertTyped, <1>5 DEF RootCrt
<1>9. IntCrt(k) \in Certs /\ IntCrt(k) # NoCert /\ IntCrt(k).key = k + 2 /\ IntCrt(k).issuer = k + 1
  BY CertTyped, <1>5 DEF IntCrt
<1>10. /\ ClientCrt(k) \in Certs /\ ClientCrt(k) # NoCert /\ ClientCrt(k).key = k + 1
       /\ ClientCrt(k).until = Until(mem.int)
  BY <1>3, CertTyped, <1>5 DEF ClientCrt
<1> QED BY <1>6, <1>7, <1>8, <1>9, <1>10

\* One file after the other; the root certificate only where there was none.
LEMMA WriteStep ==
    ASSUME PkiFilesInv, WritesNext
    PROVE  PkiFilesInv' /\ (Has("root.crt") => file'["root.crt"] = file["root.crt"])
<1>0. /\ PkiFilesTypeOK /\ FilesPhase /\ todo # <<>> /\ file \in [Files -> Certs]
      /\ UNCHANGED <<keys, pc, cli, mem, clock, starts, renewalFailed, torn>>
      /\ file' = [file EXCEPT ![Head(todo).name] = Head(todo).data] /\ todo' = Tail(todo)
  BY DEF PkiFilesInv, PkiFilesTypeOK, WritesNext
<1>1. "root.key" \in Files /\ "root.crt" \in Files /\ "int.key" \in Files /\ "int.crt" \in Files
      /\ "client.key" \in Files /\ "client.crt" \in Files
  BY DEF Files
<1>2. pc # "running" /\ pc # "down" /\ pc \in {"load", "client"}
  BY <1>0 DEF FilesPhase, PkiFilesTypeOK
<1>3. ASSUME AllTyped(todo'), file' \in [Files -> Certs] PROVE PkiFilesTypeOK'
  BY <1>0, <1>2, <1>3 DEF PkiFilesTypeOK, AllTyped
<1>4. ASSUME NEW f \in Files, NEW data \in Certs, Head(todo) = Write(f, data)
      PROVE  file' = [file EXCEPT ![f] = data] /\ file' \in [Files -> Certs]
  <2>1. Head(todo).name = f /\ Head(todo).data = data
    BY <1>4, WriteTyped
  <2> QED BY <1>0, <2>1
<1>5. ASSUME NEW k \in Nat, Booting(k), pc = "load"
      PROVE  PkiFilesInv' /\ (Has("root.crt") => file'["root.crt"] = file["root.crt"])
  <2> DEFINE w1 == Write("root.key", Key(k + 1))
             w2 == Write("root.crt", RootCrt(k))
             w3 == Write("int.key", Key(k + 2))
             w4 == Write("int.crt", IntCrt(k))
  <2>1. /\ w1 \in [name : Files, data : Certs] /\ w2 \in [name : Files, data : Certs]
        /\ w3 \in [name : Files, data : Certs] /\ w4 \in [name : Files, data : Certs]
    BY <1>0, <1>1, DataTyped, WriteTyped
  <2>2. RootCrt(k)' = RootCrt(k) /\ IntCrt(k)' = IntCrt(k)
    BY <1>0 DEF RootCrt, IntCrt
  <2>3. CASE todo = <<w1, w2, w3, w4>> /\ NoCa
    <3>1. Head(todo) = w1 /\ todo' = <<w2, w3, w4>>
      BY <1>0, <2>3, WrittenInOrder
    <3>2. file' = [file EXCEPT !["root.key"] = Key(k + 1)] /\ file' \in [Files -> Certs]
      BY <1>0, <1>1, <1>4, <3>1, DataTyped
    <3>3. NoCa' /\ ~Has("root.crt")
      BY <1>0, <2>3, <3>2 DEF NoCa, Has, CaFiles, Files
    <3>4. AllTyped(todo')
      BY <2>1, <3>1, AllWritesTyped
    <3>5. Booting(k)'
      BY <1>0, <1>5, <2>2, <3>1, <3>3 DEF Booting
    <3> QED BY <1>0, <1>3, <1>5, <3>2, <3>3, <3>4, <3>5 DEF PkiFilesInv, FilesPhase
  <2>4. CASE todo = <<w2, w3, w4>> /\ NoCa
    <3>1. Head(todo) = w2 /\ todo' = <<w3, w4>>
      BY <1>0, <2>4, WrittenInOrder
    <3>2. file' = [file EXCEPT !["root.crt"] = RootCrt(k)] /\ file' \in [Files -> Certs]
      BY <1>0, <1>1, <1>4, <3>1, DataTyped
    <3>3. file'["root.crt"] = RootCrt(k) /\ ~Has("int.key")' /\ ~Has("int.crt")' /\ ~Has("root.crt")
      BY <1>0, <2>4, <3>2 DEF NoCa, Has, CaFiles, Files
    <3>4. AllTyped(todo')
      BY <2>1, <3>1, AllWritesTyped
    <3>5. Booting(k)'
      BY <1>0, <1>5, <2>2, <3>1, <3>3 DEF Booting
    <3> QED BY <1>0, <1>3, <1>5, <3>2, <3>3, <3>4, <3>5 DEF PkiFilesInv, FilesPhase
  <2>5. CASE todo = <<w3, w4>> /\ file["root.crt"] = RootCrt(k) /\ ~Has("int.key") /\ ~Has("int.crt")
    <3>1. Head(todo) = w3 /\ todo' = <<w4>>
      BY <1>0, <2>5, WrittenInOrder
    <3>2. file' = [file EXCEPT !["int.key"] = Key(k + 2)] /\ file' \in [Files -> Certs]
      BY <1>0, <1>1, <1>4, <3>1, DataTyped
    <3>3. file'["root.crt"] = RootCrt(k) /\ file'["int.key"] = Key(k + 2) /\ ~Has("int.crt")'
      BY <1>0, <2>5, <3>2 DEF Has, Files
    <3>4. AllTyped(todo')
      BY <2>1, <3>1, AllWritesTyped
    <3>5. Booting(k)'
      BY <1>0, <1>5, <2>2, <3>1, <3>3 DEF Booting
    <3> QED BY <1>0, <1>3, <1>5, <2>5, <3>2, <3>3, <3>4, <3>5 DEF PkiFilesInv, FilesPhase
  <2>6. CASE todo = <<w4>> /\ file["root.crt"] = RootCrt(k) /\ file["int.key"] = Key(k + 2) /\ ~Has("int.crt")
    <3>1. Head(todo) = w4 /\ todo' = <<>>
      BY <1>0, <2>6, WrittenInOrder
    <3>2. file' = [file EXCEPT !["int.crt"] = IntCrt(k)] /\ file' \in [Files -> Certs]
      BY <1>0, <1>1, <1>4, <3>1, DataTyped
    <3>3. file'["root.crt"] = RootCrt(k) /\ file'["int.key"] = Key(k + 2) /\ file'["int.crt"] = IntCrt(k)
      BY <1>0, <2>6, <3>2 DEF Files
    <3>4. AllTyped(todo')
      BY <2>1, <3>1, AllWritesTyped
    <3>5. AllCa' /\ CaMatches'
      <4>1. /\ RootCrt(k).key = k + 1 /\ IntCrt(k).issuer = k + 1
            /\ IntCrt(k).key = k + 2 /\ Key(k + 2).key = k + 2
            /\ RootCrt(k) # NoCert /\ IntCrt(k) # NoCert /\ Key(k + 2) # NoCert
        BY <1>0, DataTyped
      <4>2. AllCa'
        BY <3>3, <4>1 DEF AllCa, Has, CaFiles
      <4>3. CaMatches'
        BY <3>3, <4>1 DEF CaMatches
      <4> QED BY <4>2, <4>3
    <3>6. FilesPhase'
      BY <1>0, <1>5, <3>1, <3>5 DEF FilesPhase
    <3>7. PkiFilesTypeOK'
      BY <1>3, <3>2, <3>4
    <3> QED BY <2>6, <3>3, <3>6, <3>7 DEF PkiFilesInv
  <2> QED BY <1>5, <2>3, <2>4, <2>5, <2>6 DEF Booting
<1>6. ASSUME NEW k \in Nat, Renewing(k), pc = "client"
      PROVE  PkiFilesInv' /\ (Has("root.crt") => file'["root.crt"] = file["root.crt"])
  <2> DEFINE w1 == Write("client.key", Key(k + 1))
             w2 == Write("client.crt", ClientCrt(k))
  <2>1. /\ w1 \in [name : Files, data : Certs] /\ w2 \in [name : Files, data : Certs]
    BY <1>0, <1>1, DataTyped, WriteTyped
  <2>2. ClientCrt(k)' = ClientCrt(k) /\ (CanIssue(mem.int))' = CanIssue(mem.int)
    BY <1>0 DEF ClientCrt, Until, CanIssue
  <2>3. CASE todo = <<w1, w2>>
    <3>1. Head(todo) = w1 /\ todo' = <<w2>>
      BY <1>0, <2>3, WrittenInOrder
    <3>2. file' = [file EXCEPT !["client.key"] = Key(k + 1)] /\ file' \in [Files -> Certs]
      BY <1>0, <1>1, <1>4, <3>1, DataTyped
    <3>3. /\ file'["client.key"] = Key(k + 1)
          /\ \A f \in {"root.crt", "int.crt", "int.key"} : file'[f] = file[f]
      BY <1>0, <3>2 DEF Files
    <3>4. PkiFilesTypeOK'
      BY <1>3, <2>1, <3>1, <3>2, AllWritesTyped
    <3>5. Renewing(k)'
      BY <1>0, <1>6, <2>2, <3>1, <3>3 DEF Renewing, AllCa, CaMatches, Has, CaFiles
    <3> QED BY <1>0, <1>6, <3>3, <3>4, <3>5 DEF PkiFilesInv, FilesPhase
  <2>4. CASE todo = <<w2>> /\ file["client.key"] = Key(k + 1)
    <3>1. Head(todo) = w2 /\ todo' = <<>>
      BY <1>0, <2>4, WrittenInOrder
    <3>2. file' = [file EXCEPT !["client.crt"] = ClientCrt(k)] /\ file' \in [Files -> Certs]
      BY <1>0, <1>1, <1>4, <3>1, DataTyped
    <3>3. /\ file'["client.key"] = Key(k + 1) /\ file'["client.crt"] = ClientCrt(k)
          /\ \A f \in {"root.crt", "int.crt", "int.key"} : file'[f] = file[f]
      BY <1>0, <2>4, <3>2 DEF Files
    <3>4. PkiFilesTypeOK'
      BY <1>3, <2>1, <3>1, <3>2, AllWritesTyped
    <3>5. Renewing(k)'
      BY <1>0, <1>6, <2>2, <3>1, <3>3 DEF Renewing, AllCa, CaMatches, Has, CaFiles
    <3> QED BY <1>0, <1>6, <3>3, <3>4, <3>5 DEF PkiFilesInv, FilesPhase
  <2> QED BY <1>0, <1>6, <2>3, <2>4 DEF Renewing
<1>7. ASSUME NEW k \in Nat, Rotating(k), pc = "client"
      PROVE  PkiFilesInv' /\ (Has("root.crt") => file'["root.crt"] = file["root.crt"])
  <2> DEFINE w1 == Write("int.key", Key(k + 1))
             w2 == Write("int.crt", mem.int)
             w3 == Write("client.key", Key(k + 2))
             w4 == Write("client.crt", ClientCrt(k + 1))
  <2>0. /\ file["root.crt"].key \in Nat /\ clock + IntermediateLife \in Nat /\ clock + ClientLife > clock
        /\ clock \in Nat /\ ClientLife \in Nat /\ IntermediateLife \in Nat /\ ClientLife <= IntermediateLife
    <3>1. /\ ClientLife \in Nat /\ IntermediateLife \in Nat /\ MaxTicks \in Nat /\ RenewBefore \in Nat
          /\ ClientLife <= IntermediateLife /\ 0 < ClientLife
      BY PkiFilesAssumption
    <3>2. clock \in Nat
      BY <1>0, <3>1 DEF PkiFilesTypeOK
    <3>3. file["root.crt"] \in Certs
      BY <1>0, <1>1
    <3> QED BY <3>1, <3>2, <3>3 DEF Certs
  <2>1. /\ mem.int = Cert(k + 1, file["root.crt"].key, clock + IntermediateLife)
        /\ mem.int \in Certs /\ mem.int # NoCert /\ mem.int.key = k + 1
        /\ mem.int.issuer = file["root.crt"].key /\ mem.int.until = clock + IntermediateLife
    <3>1. mem.int = Cert(k + 1, file["root.crt"].key, clock + IntermediateLife)
      BY <1>7 DEF Rotating
    <3> HIDE DEF w1, w2, w3, w4
    <3>2. /\ Cert(k + 1, file["root.crt"].key, clock + IntermediateLife) \in Certs
          /\ Cert(k + 1, file["root.crt"].key, clock + IntermediateLife) # NoCert
          /\ Cert(k + 1, file["root.crt"].key, clock + IntermediateLife).key = k + 1
          /\ Cert(k + 1, file["root.crt"].key, clock + IntermediateLife).issuer = file["root.crt"].key
          /\ Cert(k + 1, file["root.crt"].key, clock + IntermediateLife).until = clock + IntermediateLife
      <4>1. k + 1 \in Nat \ {0}
        OBVIOUS
      <4> QED BY <2>0, <4>1, CertTyped
    <3> QED BY <3>1, <3>2
  <2>2. /\ w1 \in [name : Files, data : Certs] /\ w2 \in [name : Files, data : Certs]
        /\ w3 \in [name : Files, data : Certs] /\ w4 \in [name : Files, data : Certs]
    <3>1. k + 1 \in Nat /\ Key(k + 1) \in Certs /\ Key(k + 2) \in Certs
      <4> HIDE DEF w1, w2, w3, w4
      <4>1. Key(k + 1) \in Certs /\ Key(k + 2) \in Certs
        BY <1>0, DataTyped
      <4> QED BY <4>1
    <3>2. ClientCrt(k + 1) \in Certs
      BY <1>0, <3>1, DataTyped
    <3> QED BY <1>1, <2>1, <3>1, <3>2, WriteTyped
  <2>3. ClientCrt(k + 1)' = ClientCrt(k + 1) /\ CanIssue(mem.int)'
    BY <1>0, <2>0, <2>1 DEF ClientCrt, Until, CanIssue, Earlier
  <2>4. CASE todo = <<w1, w2, w3, w4>>
    <3>1. Head(todo) = w1 /\ todo' = <<w2, w3, w4>>
      BY <1>0, <2>4, WrittenInOrder
    <3>2. file' = [file EXCEPT !["int.key"] = Key(k + 1)] /\ file' \in [Files -> Certs]
      BY <1>0, <1>1, <1>4, <3>1, DataTyped
    <3>3. /\ file'["int.key"] = Key(k + 1) /\ Key(k + 1) # NoCert
          /\ \A f \in {"root.crt", "int.crt"} : file'[f] = file[f]
      BY <1>0, <3>2, DataTyped DEF Files
    <3>4. PkiFilesTypeOK'
      BY <1>3, <2>2, <3>1, <3>2, AllWritesTyped
    <3>5. Rotating(k)'
      BY <1>0, <1>7, <2>3, <3>1, <3>3 DEF Rotating, AllCa, Has, CaFiles
    <3> QED BY <1>0, <1>7, <3>3, <3>4, <3>5 DEF PkiFilesInv, FilesPhase
  <2>5. CASE todo = <<w2, w3, w4>> /\ file["int.key"] = Key(k + 1)
    <3>1. Head(todo) = w2 /\ todo' = <<w3, w4>>
      BY <1>0, <2>5, WrittenInOrder
    <3>2. file' = [file EXCEPT !["int.crt"] = mem.int] /\ file' \in [Files -> Certs]
      BY <1>0, <1>1, <1>4, <2>1, <3>1
    <3>3. /\ file'["int.key"] = Key(k + 1) /\ file'["int.crt"] = mem.int
          /\ file'["root.crt"] = file["root.crt"]
          /\ Key(k + 1) # NoCert /\ Key(k + 1).key = k + 1
      BY <1>0, <2>5, <3>2, DataTyped DEF Files
    <3>4. PkiFilesTypeOK'
      BY <1>3, <2>2, <3>1, <3>2, AllWritesTyped
    <3>5. AllCa' /\ CaMatches'
      <4>1. AllCa'
        BY <1>7, <2>1, <3>3 DEF Rotating, AllCa, Has, CaFiles
      <4> QED BY <2>1, <3>3, <4>1 DEF CaMatches
    <3>6. k + 1 \in Nat /\ (k + 1) + 1 = k + 2
      OBVIOUS
    <3>7. Renewing(k + 1)'
      BY <1>0, <1>7, <2>3, <3>1, <3>3, <3>5, <3>6 DEF Renewing, Rotating
    <3> QED BY <1>0, <1>7, <3>3, <3>4, <3>6, <3>7 DEF PkiFilesInv, FilesPhase
  <2> QED BY <1>7, <2>4, <2>5 DEF Rotating
<1> QED BY <1>0, <1>2, <1>5, <1>6, <1>7 DEF FilesPhase

\* Starting, looking at what is there, and failing.
LEMMA OpenSteps ==
    ASSUME PkiFilesInv, (\E command \in {"no", "rotate"} : OpenBegins(command)) \/ Loads \/ ClientLoaded \/ OpenFails
    PROVE  PkiFilesInv' /\ UNCHANGED file
<1>0. /\ PkiFilesTypeOK /\ FilesPhase /\ keys \in Nat /\ file \in [Files -> Certs]
      /\ mem \in [int : Certs, client : Certs, key : Certs] /\ file["int.crt"] \in Certs /\ file["client.crt"] \in Certs
      /\ UNCHANGED <<file, clock, torn>> /\ renewalFailed' \in BOOLEAN
  BY DEF PkiFilesInv, PkiFilesTypeOK, OpenBegins, Loads, ClientLoaded, OpenFails, Files
<1>1. /\ "root.key" \in Files /\ "root.crt" \in Files /\ "int.key" \in Files /\ "int.crt" \in Files
      /\ "client.key" \in Files /\ "client.crt" \in Files
      /\ clock \in Nat /\ ClientLife \in Nat /\ IntermediateLife \in Nat /\ RenewBefore \in Nat
      /\ 0 < RenewBefore /\ RenewBefore < ClientLife /\ MaxStarts \in Nat
  BY <1>0, PkiFilesAssumption DEF Files, PkiFilesTypeOK
<1>2. ASSUME NEW command \in {"no", "rotate"}, OpenBegins(command) PROVE PkiFilesInv'
  <2>1. pc = "down" /\ pc' = "load" /\ cli' = command /\ UNCHANGED mem /\ starts' \in 0 .. MaxStarts /\ todo = <<>>
    BY <1>0, <1>1, <1>2 DEF OpenBegins, FilesPhase, PkiFilesTypeOK
  <2>2. CASE AllCa /\ UNCHANGED <<todo, keys>>
    <3>1. ~NoCa
      BY <2>2 DEF AllCa, NoCa, CaFiles
    <3>2. FilesPhase'
      BY <1>0, <2>1, <2>2, <3>1 DEF FilesPhase, AllCa, CaMatches, Has
    <3>3. PkiFilesTypeOK'
      BY <1>0, <1>2, <2>1, <2>2 DEF PkiFilesTypeOK
    <3> QED BY <3>2, <3>3 DEF PkiFilesInv
  <2>3. CASE /\ NoCa
             /\ keys' = keys + 2
             /\ todo' = <<Write("root.key", Key(keys + 1)), Write("root.crt", RootCrt(keys)),
                          Write("int.key", Key(keys + 2)), Write("int.crt", IntCrt(keys))>>
    <3>1. /\ Write("root.key", Key(keys + 1)) \in [name : Files, data : Certs]
          /\ Write("root.crt", RootCrt(keys)) \in [name : Files, data : Certs]
          /\ Write("int.key", Key(keys + 2)) \in [name : Files, data : Certs]
          /\ Write("int.crt", IntCrt(keys)) \in [name : Files, data : Certs]
      BY <1>0, <1>1, DataTyped, WriteTyped
    <3>2. AllTyped(todo')
      BY <2>3, <3>1, AllWritesTyped
    <3>3. PkiFilesTypeOK'
      BY <1>0, <1>2, <2>1, <2>3, <3>2 DEF PkiFilesTypeOK, AllTyped
    <3>4. RootCrt(keys) = Cert(keys + 1, keys + 1, MaxTicks + 1)
          /\ IntCrt(keys) = Cert(keys + 2, keys + 1, clock + IntermediateLife)
      BY DEF RootCrt, IntCrt
    <3>5. ASSUME NEW k \in Nat, k = keys PROVE Booting(k)'
      BY <1>0, <2>3, <3>4, <3>5 DEF Booting, RootCrt, IntCrt, NoCa, Has
    <3>6. FilesPhase'
      BY <1>0, <2>1, <3>5 DEF FilesPhase
    <3> QED BY <3>3, <3>6 DEF PkiFilesInv
  <2> QED BY <1>2, <2>2, <2>3 DEF OpenBegins, AllCa, NoCa, RootCrt, IntCrt
<1>3. CASE Loads
  <2>1. pc = "load" /\ todo = <<>> /\ CaMatches /\ UNCHANGED <<cli, starts>>
    BY <1>3 DEF Loads
  <2>2. AllCa
    <3>1. ASSUME NEW k \in Nat, Booting(k) PROVE FALSE
      BY <2>1, <3>1, WrittenInOrder DEF Booting
    <3> QED BY <1>0, <2>1, <3>1 DEF FilesPhase
  <2>3. CASE ClientCurrent /\ mem' = [int |-> file["int.crt"], client |-> file["client.crt"], key |-> file["client.key"]]
             /\ pc' = "running" /\ UNCHANGED <<keys, todo>>
    <3>1. PkiFilesTypeOK'
      <4>1. mem' \in [int : Certs, client : Certs, key : Certs]
        BY <1>0, <1>1, <2>3
      <4> QED BY <1>0, <2>1, <2>3, <4>1 DEF PkiFilesTypeOK
    <3>2. file["client.crt"].until \in Nat /\ file["client.crt"].until > clock + RenewBefore
      BY <1>0, <2>3 DEF ClientCurrent, Certs
    <3>3. IdentityUsable'
      BY <1>0, <1>1, <2>1, <2>3, <3>2 DEF IdentityUsable, CaMatches, ClientCurrent, ClientPair, Has
    <3>4. FilesPhase'
      BY <1>0, <2>1, <2>2, <2>3, <3>3 DEF FilesPhase, AllCa, ClientCurrent, ClientPair, Has
    <3> QED BY <1>0, <3>1, <3>4 DEF PkiFilesInv
  <2>4. CASE CanIssue(file["int.crt"]) /\ mem' = [mem EXCEPT !.int = file["int.crt"]]
             /\ todo' = ClientFiles(file["int.crt"]) /\ keys' = keys + 1 /\ pc' = "client"
    <3>1. /\ mem' \in [int : Certs, client : Certs, key : Certs] /\ mem'.int = file["int.crt"]
          /\ mem'.client = mem.client /\ mem'.key = mem.key
      BY <1>0, <2>4
    <3>2. /\ Key(keys + 1) \in Certs /\ Until(file["int.crt"]) \in Nat
          /\ Cert(keys + 1, file["int.crt"].key, Until(file["int.crt"])) \in Certs
      <4>1. file["int.crt"].until \in Nat /\ file["int.crt"].key \in Nat /\ keys + 1 \in Nat \ {0}
        BY <1>0 DEF Certs
      <4>2. Until(file["int.crt"]) \in Nat
        BY <1>1, <4>1 DEF Until, Earlier
      <4> QED BY <1>0, <4>1, <4>2, CertTyped, DataTyped
    <3>3. AllTyped(todo')
      BY <1>1, <2>4, <3>2, WriteTyped, AllWritesTyped DEF ClientFiles
    <3>4. PkiFilesTypeOK'
      BY <1>0, <2>1, <2>4, <3>1, <3>3 DEF PkiFilesTypeOK, AllTyped
    <3>5. ASSUME NEW k \in Nat, k = keys PROVE Renewing(k)'
      BY <1>0, <2>1, <2>2, <2>4, <3>1, <3>5
         DEF Renewing, ClientFiles, ClientCrt, Until, CanIssue, AllCa, CaMatches, Has
    <3>6. FilesPhase'
      BY <1>0, <2>4, <3>1, <3>5 DEF FilesPhase
    <3> QED BY <1>0, <3>4, <3>6 DEF PkiFilesInv
  <2> QED BY <1>3, <2>3, <2>4 DEF Loads
<1>4. CASE ClientLoaded
  <2>1. /\ pc = "client" /\ todo = <<>> /\ mem' = [mem EXCEPT !.client = file["client.crt"], !.key = file["client.key"]]
        /\ UNCHANGED <<keys, cli, todo, starts>> /\ pc' \in {"down", "running"}
        /\ renewalFailed' = FALSE /\ ClientPair
    BY <1>4 DEF ClientLoaded
  <2>2. PICK k \in Nat : Renewing(k)
    BY <1>0, <2>1, WrittenInOrder DEF FilesPhase, Rotating
  <2>3. /\ AllCa /\ CaMatches /\ mem.int = file["int.crt"] /\ CanIssue(mem.int)
        /\ file["client.key"] = Key(k + 1) /\ file["client.crt"] = ClientCrt(k)
    BY <2>1, <2>2, WrittenInOrder DEF Renewing
  <2>4. /\ mem' \in [int : Certs, client : Certs, key : Certs] /\ mem'.int = mem.int
        /\ mem'.client = file["client.crt"] /\ mem'.key = file["client.key"]
    BY <1>0, <1>1, <2>1
  <2>5. /\ Key(k + 1).key = k + 1 /\ ClientCrt(k).key = k + 1 /\ ClientCrt(k).until = Until(mem.int)
        /\ Until(mem.int) > clock /\ Until(mem.int) \in Nat
    <3>1. ClientCrt(k) \in Certs /\ ClientCrt(k).until = Until(mem.int) /\ ClientCrt(k).key = k + 1
          /\ Key(k + 1).key = k + 1
      BY <1>0, DataTyped
    <3> QED BY <2>3, <3>1 DEF CanIssue, Certs
  <2>6. PkiFilesTypeOK'
    BY <1>0, <2>1, <2>4 DEF PkiFilesTypeOK
  <2>7. IdentityUsable'
    BY <1>0, <1>1, <2>1, <2>3, <2>4, <2>5 DEF IdentityUsable, CaMatches, ClientPair, Has
  <2>8. FilesPhase'
    BY <1>0, <2>1, <2>3, <2>4, <2>7 DEF FilesPhase, AllCa, CaMatches, ClientPair, Has
  <2> QED BY <1>0, <2>6, <2>8 DEF PkiFilesInv
<1>5. CASE OpenFails
  <2>1. pc = "load" /\ pc' = "down" /\ todo = <<>> /\ UNCHANGED <<keys, cli, todo, mem, starts>>
    BY <1>5 DEF OpenFails
  <2>2. AllCa /\ (torn \/ CaMatches)
    <3>1. ASSUME NEW k \in Nat, Booting(k) PROVE FALSE
      BY <2>1, <3>1, WrittenInOrder DEF Booting
    <3> QED BY <1>0, <2>1, <3>1 DEF FilesPhase
  <2>3. PkiFilesTypeOK'
    BY <1>0, <2>1 DEF PkiFilesTypeOK
  <2>4. FilesPhase'
    BY <1>0, <2>1, <2>2 DEF FilesPhase, AllCa, CaMatches, Has
  <2> QED BY <1>0, <2>3, <2>4 DEF PkiFilesInv
<1> QED BY <1>0, <1>2, <1>3, <1>4, <1>5

\* A Panel that runs: its identity is renewed, its intermediate replaced.
LEMMA RunningSteps ==
    ASSUME PkiFilesInv, Renews \/ Rotates
    PROVE  PkiFilesInv' /\ UNCHANGED file
<1>0. /\ PkiFilesTypeOK /\ FilesPhase /\ keys \in Nat /\ file \in [Files -> Certs]
      /\ mem \in [int : Certs, client : Certs, key : Certs]
      /\ UNCHANGED <<file, clock, renewalFailed, torn, starts>>
      /\ pc = "running" /\ pc' = "client" /\ AllCa /\ IdentityUsable
  BY DEF PkiFilesInv, PkiFilesTypeOK, Renews, Rotates, FilesPhase
<1>1. /\ "root.crt" \in Files /\ "int.key" \in Files /\ "int.crt" \in Files
      /\ "client.key" \in Files /\ "client.crt" \in Files
      /\ clock \in Nat /\ ClientLife \in Nat /\ IntermediateLife \in Nat
  BY <1>0, PkiFilesAssumption DEF Files, PkiFilesTypeOK
<1>2. /\ CaMatches /\ mem.int = file["int.crt"] /\ mem.int.issuer = file["root.crt"].key
      /\ mem.int \in Certs /\ file["root.crt"] \in Certs
      /\ mem.int.key \in Nat /\ mem.int.until \in Nat /\ file["root.crt"].key \in Nat
  BY <1>0, <1>1 DEF IdentityUsable, CaMatches, Certs
<1>3. Key(keys + 1) \in Certs /\ Key(keys + 2) \in Certs /\ keys + 1 \in Nat \ {0} /\ keys + 2 \in Nat \ {0}
  <2>1. Key(keys + 1) \in Certs /\ Key(keys + 2) \in Certs
    BY <1>0, DataTyped
  <2> QED BY <1>0, <2>1
<1>4. CASE Renews
  <2>1. /\ CanIssue(mem.int) /\ todo' = ClientFiles(mem.int) /\ keys' = keys + 1 /\ UNCHANGED <<cli, mem>>
    BY <1>4 DEF Renews, RenewDue
  <2>2. Cert(keys + 1, mem.int.key, Until(mem.int)) \in Certs
    <3>1. Until(mem.int) \in Nat
      BY <1>1, <1>2 DEF Until, Earlier
    <3> QED BY <1>2, <1>3, <3>1, CertTyped
  <2>3. AllTyped(todo')
    BY <1>1, <1>3, <2>1, <2>2, WriteTyped, AllWritesTyped DEF ClientFiles
  <2>4. PkiFilesTypeOK'
    BY <1>0, <2>1, <2>3 DEF PkiFilesTypeOK, AllTyped
  <2>5. ASSUME NEW k \in Nat, k = keys PROVE Renewing(k)'
    BY <1>0, <1>2, <2>1, <2>5 DEF Renewing, ClientFiles, ClientCrt, Until, CanIssue, AllCa, CaMatches, Has
  <2>6. FilesPhase'
    BY <1>0, <2>1, <2>5 DEF FilesPhase
  <2> QED BY <1>0, <2>4, <2>6 DEF PkiFilesInv
<1>5. CASE Rotates
  <2> DEFINE int == Cert(keys + 1, file["root.crt"].key, clock + IntermediateLife)
             until == Earlier(clock + ClientLife, int.until)
             crt == Cert(keys + 2, keys + 1, until)
  <2>1. /\ todo' = <<Write("int.key", Key(keys + 1)), Write("int.crt", int),
                     Write("client.key", Key(keys + 2)), Write("client.crt", crt)>>
        /\ mem' = [mem EXCEPT !.int = int] /\ keys' = keys + 2 /\ cli' = "rotated"
    BY <1>5 DEF Rotates
  <2>2. int \in Certs /\ int.key = keys + 1 /\ int.until = clock + IntermediateLife
    <3>1. clock + IntermediateLife \in Nat
      BY <1>1
    <3>2. keys + 1 \in Nat \ {0} /\ file["root.crt"].key \in Nat
      BY <1>2, <1>3
    <3> QED BY <3>1, <3>2 DEF Cert, Certs
  <2>3. until \in Nat
    BY <1>1, <2>2 DEF Earlier
  <2>4. crt \in Certs
    BY <1>3, <2>3, CertTyped
  <2> HIDE DEF int, until, crt
  <2>5. /\ mem' \in [int : Certs, client : Certs, key : Certs] /\ mem'.int = int
        /\ mem'.client = mem.client /\ mem'.key = mem.key
    BY <1>0, <2>1, <2>2
  <2>6. AllTyped(todo')
    <3>1. /\ Write("int.key", Key(keys + 1)) \in [name : Files, data : Certs]
          /\ Write("int.crt", int) \in [name : Files, data : Certs]
          /\ Write("client.key", Key(keys + 2)) \in [name : Files, data : Certs]
          /\ Write("client.crt", crt) \in [name : Files, data : Certs]
      BY <1>1, <1>3, <2>2, <2>4, WriteTyped
    <3> QED BY <2>1, <3>1, AllWritesTyped
  <2>7. PkiFilesTypeOK'
    BY <1>0, <2>1, <2>5, <2>6 DEF PkiFilesTypeOK, AllTyped
  <2>8. ASSUME NEW k \in Nat, k = keys PROVE Rotating(k)'
    <3>1. Until(mem.int)' = until
      BY <1>0, <2>5 DEF until, Until
    <3>2. /\ (k + 1) + 1 = keys + 2 /\ k + 1 = keys + 1 /\ mem'.int.key = keys + 1
      BY <1>0, <2>2, <2>5, <2>8
    <3>3. ClientCrt(k + 1)' = crt
      BY <3>1, <3>2 DEF ClientCrt, crt
    <3>4. mem'.int = Cert(k + 1, file'["root.crt"].key, clock' + IntermediateLife)
      BY <1>0, <2>5, <2>8 DEF int
    <3>5. AllCa' /\ CaMatches' /\ file'["int.crt"].issuer = file'["root.crt"].key
      BY <1>0, <1>2 DEF AllCa, CaMatches, Has
    <3> QED BY <2>1, <2>5, <2>8, <3>3, <3>4, <3>5 DEF Rotating
  <2>9. FilesPhase'
    BY <1>0, <2>5, <2>8 DEF FilesPhase
  <2> QED BY <1>0, <2>7, <2>9 DEF PkiFilesInv
<1> QED BY <1>4, <1>5

\* A renewal that fails: the intermediate is in place and the pair in memory is the old one.
LEMMA RenewalStep ==
    ASSUME PkiFilesInv, RenewalFails
    PROVE  PkiFilesInv' /\ UNCHANGED file
<1>0. /\ PkiFilesTypeOK /\ FilesPhase /\ UNCHANGED <<file, keys, cli, mem, clock, starts, torn>>
      /\ pc = "client" /\ cli = "no" /\ mem.client # NoCert
      /\ todo' = <<>> /\ pc' = "running" /\ renewalFailed' = TRUE
  BY DEF PkiFilesInv, RenewalFails
<1>1. PICK k \in Nat : Renewing(k)
  BY <1>0 DEF FilesPhase, Rotating
<1>2. AllCa /\ CaMatches /\ mem.int = file["int.crt"]
  BY <1>1 DEF Renewing
<1>3. \A i \in 1 .. Len(todo') : FALSE
  BY <1>0
<1>4. PkiFilesTypeOK'
  BY <1>0, <1>3 DEF PkiFilesTypeOK
<1>5. IdentityUsable'
  BY <1>0, <1>2 DEF FilesPhase, IdentityUsable, CaMatches
<1>6. FilesPhase'
  BY <1>0, <1>2, <1>5 DEF FilesPhase, AllCa, CaMatches, Has
<1> QED BY <1>0, <1>4, <1>6 DEF PkiFilesInv

\* Whatever had been written when the process stops, and the months that pass.
LEMMA StopSteps ==
    ASSUME PkiFilesInv, Stop \/ Month
    PROVE  PkiFilesInv' /\ UNCHANGED file
<1>0. /\ PkiFilesTypeOK /\ FilesPhase /\ UNCHANGED <<file, keys, starts>> /\ torn \in BOOLEAN
  BY DEF PkiFilesInv, PkiFilesTypeOK, Stop, Month
<1>1. CASE Stop
  <2>1. /\ pc' = "down" /\ todo' = <<>> /\ cli' = "no" /\ UNCHANGED clock
        /\ mem' = NoMem /\ renewalFailed' = FALSE /\ pc \in {"load", "client", "running"}
        /\ torn' = (torn \/ (todo # <<>> /\
             \/ Head(todo).name = "int.crt"
             \/ Head(todo).name = "int.key" /\ Has("root.crt") /\ ~Has("int.crt")))
    BY <1>0, <1>1 DEF Stop, PkiFilesTypeOK
  <2>2. NoCert \in Certs
    BY DEF NoCert, Cert, Certs
  <2>3. torn' \in BOOLEAN /\ \A i \in 1 .. Len(todo') : FALSE
    BY <1>0, <2>1
  <2>4. PkiFilesTypeOK'
    BY <1>0, <2>1, <2>2, <2>3 DEF PkiFilesTypeOK, NoMem
  <2>5. \A f, data : Write(f, data).name = f
    BY DEF Write
  <2>6. torn' \/ NoCa \/ (AllCa /\ CaMatches)
    <3>1. ASSUME NEW k \in Nat, Booting(k) PROVE torn' \/ NoCa
      <4>1. CASE /\ todo = <<Write("int.key", Key(k + 2)), Write("int.crt", IntCrt(k))>>
                 /\ file["root.crt"] = RootCrt(k) /\ ~Has("int.key") /\ ~Has("int.crt")
        <5>1. Has("root.crt")
          BY <1>0, <4>1, DataTyped DEF Has
        <5>2. todo # <<>> /\ Head(todo) = Write("int.key", Key(k + 2))
          BY <4>1, WrittenInOrder
        <5>3. Head(todo).name = "int.key"
          BY <2>5, <5>2
        <5> QED BY <2>1, <4>1, <5>1, <5>2, <5>3
      <4>2. CASE todo = <<Write("int.crt", IntCrt(k))>>
        <5>1. todo # <<>> /\ Head(todo) = Write("int.crt", IntCrt(k))
          BY <4>2, WrittenInOrder
        <5> QED BY <2>1, <2>5, <5>1
      <4> QED BY <3>1, <4>1, <4>2 DEF Booting
    <3>2. ASSUME NEW k \in Nat, Rotating(k) PROVE torn' \/ (AllCa /\ CaMatches)
      <4>1. CASE todo = <<Write("int.crt", mem.int), Write("client.key", Key(k + 2)),
                          Write("client.crt", ClientCrt(k + 1))>>
        <5>1. todo # <<>> /\ Head(todo) = Write("int.crt", mem.int)
          BY <4>1, WrittenInOrder
        <5> QED BY <2>1, <2>5, <5>1
      <4> QED BY <3>2, <4>1 DEF Rotating
    <3>3. ASSUME NEW k \in Nat, Renewing(k) PROVE AllCa /\ CaMatches
      BY <3>3 DEF Renewing
    <3>4. pc = "running" => AllCa /\ CaMatches
      BY <1>0 DEF FilesPhase, IdentityUsable, CaMatches
    <3> QED BY <1>0, <2>1, <3>1, <3>2, <3>3, <3>4 DEF FilesPhase
  <2>7. FilesPhase'
    BY <1>0, <2>1, <2>6 DEF FilesPhase, NoCa, AllCa, CaMatches, Has, NoMem
  <2> QED BY <1>0, <2>4, <2>7 DEF PkiFilesInv
<1>2. CASE Month
  <2>1. /\ clock < MaxTicks /\ clock' = clock + 1 /\ UNCHANGED <<pc, cli, todo, mem, renewalFailed, torn>>
        /\ pc = "down" \/ (pc = "running" /\ cli = "no" /\ (~RenewDue \/ renewalFailed))
    BY <1>2 DEF Month
  <2>2. /\ clock \in Nat /\ ClientLife \in Nat /\ RenewBefore \in Nat /\ 0 < RenewBefore /\ RenewBefore < ClientLife
        /\ MaxTicks \in Nat /\ mem.int \in Certs /\ mem.client \in Certs
    BY <1>0, PkiFilesAssumption DEF PkiFilesTypeOK
  <2>3. clock' \in 0 .. MaxTicks
    BY <1>0, <2>1, <2>2 DEF PkiFilesTypeOK
  <2>4. PkiFilesTypeOK'
    BY <1>0, <2>1, <2>3 DEF PkiFilesTypeOK
  <2>5. ASSUME pc = "running" PROVE IdentityUsable'
    <3>1. mem.int.until \in Nat /\ mem.client.until \in Nat
      BY <2>2 DEF Certs
    <3>2. \/ mem.client.until > clock + RenewBefore \/ ~CanIssue(mem.int)
          \/ Until(mem.int) <= mem.client.until \/ renewalFailed
      BY <2>1, <2>2, <2>5, <3>1 DEF RenewDue, Until, Earlier
    <3>3. mem.client.until <= clock' => mem.int.until <= clock' \/ renewalFailed
      BY <2>1, <2>2, <3>1, <3>2 DEF CanIssue, Until, Earlier
    <3>4. IdentityUsable
      BY <1>0, <2>5 DEF FilesPhase
    <3> QED BY <1>0, <2>1, <2>5, <3>3, <3>4 DEF IdentityUsable
  <2>6. FilesPhase'
    BY <1>0, <2>1, <2>5 DEF FilesPhase, NoCa, AllCa, CaMatches, Has
  <2> QED BY <1>0, <2>4, <2>6 DEF PkiFilesInv
<1> QED BY <1>1, <1>2

LEMMA PkiFilesStep ==
    ASSUME PkiFilesInv, [PkiFilesNext]_pkiVars
    PROVE  PkiFilesInv' /\ (Has("root.crt") => file'["root.crt"] = file["root.crt"])
<1>1. CASE UNCHANGED pkiVars
  BY <1>1 DEF pkiVars, PkiFilesInv, PkiFilesTypeOK, FilesPhase, NoCa, AllCa, CaMatches, Has, Booting,
              RootCrt, IntCrt, ClientCrt, Renewing, Rotating, Until, CanIssue, IdentityUsable
<1> QED BY <1>1, WriteStep, OpenSteps, RunningSteps, RenewalStep, StopSteps DEF PkiFilesNext

LEMMA FilesSafe == PkiFilesInv => PkiFilesTypeOK /\ IdentityUsable /\ OpensAgain
BY DEF PkiFilesInv, FilesPhase, IdentityUsable, OpensAgain, NoCa, AllCa

THEOREM PkiFilesInvariant == PkiFilesSpec => []PkiFilesInv
<1>1. PkiFilesInv /\ [PkiFilesNext]_pkiVars => PkiFilesInv'
  BY PkiFilesStep
<1> QED BY FilesStart, <1>1, PTL DEF PkiFilesSpec

\* Wherever earlier processes were stopped and renewals failed, for any lifetimes and any number
\* of starts: a Panel that runs shows a client certificate it has the key of, in time while its
\* intermediate is unless the renewal failed, and signs with the key of the intermediate it
\* hands out.
THEOREM IdentityAlwaysUsable == PkiFilesSpec => []IdentityUsable
BY PkiFilesInvariant, FilesSafe, PTL

\* A stop between two files leaves what the next start opens, but for the places named.
THEOREM AlwaysOpensAgain == PkiFilesSpec => []OpensAgain
BY PkiFilesInvariant, FilesSafe, PTL

\* The trust anchor of all Agents is written once.
THEOREM RootAlwaysKept == PkiFilesSpec => RootKept
<1>1. PkiFilesInv /\ [PkiFilesNext]_pkiVars =>
          [Has("root.crt") => file'["root.crt"] = file["root.crt"]]_pkiVars
  BY PkiFilesStep
<1> QED BY PkiFilesInvariant, <1>1, PTL DEF PkiFilesSpec, RootKept

(***************************************************************************)
(* The administrator's sessions and settings, and the row of a             *)
(* subscription. Requests that overlap are recorded as raced; the          *)
(* invariant says what a request that is alone finds.                      *)
(***************************************************************************)

AdminSpec == AdminInit /\ [][AdminNext]_adminVars

AdminSteps == {"none", "token"} \cup SubSteps \cup SettingsSteps
AdminRequests == [pc : AdminSteps, op : 0 .. MaxAdminOps, settings : SettingsRow, sub : SubRow,
                  before : SubRow, pw : Passwords \cup {0}, overlap : BOOLEAN]
Cookies == [version : Nat, at : Nat, pw : Passwords, overlap : BOOLEAN]

AdminRows ==
    /\ settings \in SettingsRow /\ sub \in SubRow /\ cookies \subseteq Cookies
    /\ attempt \in [failures : Nat, locked : BOOLEAN]
    /\ req \in [Requests -> AdminRequests]
    /\ adminOps \in 0 .. MaxAdminOps
    /\ history \in History
    /\ ~sub.exists => sub = NoSub
    /\ \A r \in Requests : /\ ~req[r].before.exists => req[r].before = NoSub
                           /\ req[r].pc = "sub" => req[r].sub.exists
                           /\ req[r].pc = "token" => req[r].pw \in Passwords

\* Requests that may yet end all sessions.
Pending == {r \in Requests : req[r].pc \in SettingsSteps}

SessionsInv ==
    /\ settings.version = 1 + history.revocations
    /\ IsFiniteSet(Pending) /\ history.revocations + Cardinality(Pending) <= adminOps
    /\ attempt.failures <= adminOps
    /\ \A c \in cookies : c.version \in {0, 1 + c.at} /\ c.at <= history.revocations
    /\ \A r \in Requests : req[r].pc = "token" => req[r].overlap \/ req[r].pw = settings.hash

\* The settings row, unless writers of it overlapped.
SettingsAlone ==
    /\ settings.hash = history.hash
    /\ history.migrations = IF settings.migrated THEN 1 ELSE 0
    /\ \A r \in Requests : req[r].pc = "put" =>
           /\ req[r].settings.hash = IF req[r].pw = 0 THEN settings.hash ELSE req[r].pw
           /\ req[r].settings.migrated = settings.migrated

\* The row of the subscription, unless writers of it overlapped or one was not undone: what a
\* request that is alone with it has read and left.
SubUntouched == "sub" \notin history.raced \cup history.half
AloneWithSub(r) ==
    /\ req[r].before = history.sub
    /\ req[r].pc = "sub" => req[r].before = sub
    /\ req[r].pc = "created" => sub.exists /\ ~req[r].before.exists
    /\ req[r].pc = "sources" => sub.exists /\ req[r].before.exists /\ sub.sources = req[r].before.sources
    /\ req[r].pc = "rollback" /\ req[r].before.exists => sub.exists /\ sub.sources = req[r].before.sources
SubAlone ==
    /\ (\A r \in Requests : req[r].pc \notin SubSteps \ {"sub"}) => sub = history.sub
    /\ \A r \in Requests : req[r].pc \in SubSteps =>
           /\ req[r].pc = "sub" => sub.exists
           /\ ~Others(r, SubSteps) => AloneWithSub(r)

AdminInv ==
    /\ AdminRows
    /\ SessionsInv
    /\ SessionsRevoked
    /\ "settings" \notin history.raced => SettingsAlone
    /\ SubUntouched => SubAlone

LEMMA AdminTyped == AdminInv => AdminTypeOK
<1> SUFFICES ASSUME AdminInv PROVE AdminTypeOK
  OBVIOUS
<1>1. /\ adminOps \in 0 .. MaxAdminOps /\ MaxAdminOps \in Nat /\ history.revocations \in Nat
      /\ Cardinality(Pending) \in Nat /\ settings.version \in Nat
  BY AdminAssumption, FS_CardinalityType DEF AdminInv, AdminRows, SessionsInv, History, SettingsRow
<1>2. history.revocations <= MaxAdminOps
  BY <1>1 DEF AdminInv, SessionsInv
<1>3. settings.version \in 1 .. 1 + MaxAdminOps
  BY <1>1, <1>2 DEF AdminInv, SessionsInv
<1>4. cookies \subseteq [version : 0 .. 1 + MaxAdminOps, at : 0 .. MaxAdminOps, pw : Passwords, overlap : BOOLEAN]
  <2> SUFFICES ASSUME NEW c \in cookies
               PROVE  c \in [version : 0 .. 1 + MaxAdminOps, at : 0 .. MaxAdminOps, pw : Passwords, overlap : BOOLEAN]
    OBVIOUS
  <2>1. c \in Cookies /\ c.version \in {0, 1 + c.at} /\ c.at <= history.revocations
    BY DEF AdminInv, AdminRows, SessionsInv
  <2>2. c.at \in 0 .. MaxAdminOps /\ c.version \in 0 .. 1 + MaxAdminOps
    BY <1>1, <1>2, <2>1 DEF Cookies
  <2> QED BY <2>1, <2>2 DEF Cookies
<1>5. attempt \in [failures : 0 .. MaxAdminOps, locked : BOOLEAN]
  BY <1>1 DEF AdminInv, AdminRows, SessionsInv
<1>6. \A r \in Requests : req[r].pc \in {"none", "token"} \cup SubSteps \cup SettingsSteps
  BY DEF AdminInv, AdminRows, AdminRequests, AdminSteps
<1> QED BY <1>3, <1>4, <1>5, <1>6 DEF AdminInv, AdminRows, AdminTypeOK

LEMMA NoReqTyped ==
    /\ NoReq \in AdminRequests /\ NoSub \in SubRow /\ ~NoSub.exists
    /\ NoReq.pc = "none" /\ NoReq.before = NoSub /\ ~NoReq.overlap
<1>1. NoSub \in SubRow
  BY AdminAssumption DEF NoSub, SubRow
<1>2. [hash |-> 1, version |-> 1, migrated |-> FALSE] \in SettingsRow
  BY AdminAssumption DEF SettingsRow
<1> QED BY <1>1, <1>2, AdminAssumption DEF NoReq, NoSub, AdminRequests, AdminSteps

LEMMA AdminStarts == AdminInit => AdminInv
<1> SUFFICES ASSUME AdminInit PROVE AdminInv
  OBVIOUS
<1>1. \A r \in Requests : req[r] = NoReq
  BY DEF AdminInit
<1>2. req \in [Requests -> AdminRequests]
  BY NoReqTyped DEF AdminInit
<1>3. AdminRows
  <2>1. settings \in SettingsRow /\ history \in History
    BY NoReqTyped, AdminAssumption DEF AdminInit, SettingsRow, History
  <2> QED BY <1>1, <1>2, <2>1, NoReqTyped, AdminAssumption DEF AdminInit, AdminRows
<1>4. Pending = {}
  BY <1>1, NoReqTyped DEF Pending, SettingsSteps
<1>5. SessionsInv
  BY <1>1, <1>4, NoReqTyped, FS_EmptySet DEF AdminInit, SessionsInv
<1>6. SessionsRevoked
  BY DEF AdminInit, SessionsRevoked
<1>7. SettingsAlone /\ SubAlone
  BY <1>1, NoReqTyped DEF AdminInit, SettingsAlone, SubAlone, SubSteps
<1> QED BY <1>3, <1>5, <1>6, <1>7 DEF AdminInv

\* The frames: what a step that leaves one of the two rows alone keeps of it.
LEMMA SubFrame ==
    ASSUME AdminInv, UNCHANGED sub, history'.sub = history.sub,
           SubUntouched' => SubUntouched,
           \A q \in Requests : \/ req'[q] = req[q]
                               \/ req'[q].pc \notin SubSteps /\ req[q].pc \notin SubSteps
    PROVE  SubUntouched' => SubAlone'
BY DEF AdminInv, SubAlone, AloneWithSub, Others, SubSteps

LEMMA SettingsFrame ==
    ASSUME AdminInv, UNCHANGED <<settings, cookies, attempt>>, adminOps' \in Nat, adminOps <= adminOps',
           history'.hash = history.hash, history'.revocations = history.revocations,
           history'.migrations = history.migrations,
           "settings" \in history.raced <=> "settings" \in history'.raced,
           "settings" \in history.half => "settings" \in history'.half,
           \A q \in Requests : \/ req'[q] = req[q]
                               \/ /\ req'[q].pc \notin SettingsSteps \cup {"token"}
                                  /\ req[q].pc \notin SettingsSteps \cup {"token"}
    PROVE  SessionsInv' /\ SessionsRevoked' /\ ("settings" \notin history'.raced => SettingsAlone')
<1>1. Pending' = Pending
  BY DEF Pending
<1>2. SessionsInv'
  <2>1. /\ Cardinality(Pending) \in Nat /\ adminOps \in Nat /\ history.revocations \in Nat /\ attempt.failures \in Nat
    BY AdminAssumption, FS_CardinalityType DEF AdminInv, AdminRows, SessionsInv, History
  <2> QED BY <1>1, <2>1 DEF AdminInv, SessionsInv
<1>3. SessionsRevoked'
  BY DEF AdminInv, SessionsRevoked, Valid, SettingsSteps
<1>4. "settings" \notin history'.raced => SettingsAlone'
  BY DEF AdminInv, SettingsAlone, SettingsSteps
<1> QED BY <1>2, <1>3, <1>4

\* A request of a handler changes, or a new one takes its place.
LEMMA RequestSet ==
    ASSUME AdminRows, NEW r \in Requests, NEW x \in AdminRequests, req' = [req EXCEPT ![r] = x]
    PROVE  req' \in [Requests -> AdminRequests] /\ req'[r] = x /\ \A q \in Requests \ {r} : req'[q] = req[q]
BY DEF AdminRows

LEMMA RequestGoesOn ==
    ASSUME AdminRows, NEW r \in Requests, NEW step \in AdminSteps, req' = [req EXCEPT ![r].pc = step]
    PROVE  /\ req' \in [Requests -> AdminRequests] /\ \A q \in Requests \ {r} : req'[q] = req[q]
           /\ req'[r].pc = step /\ req'[r].before = req[r].before /\ req'[r].op = req[r].op
           /\ req'[r].settings = req[r].settings /\ req'[r].sub = req[r].sub /\ req'[r].pw = req[r].pw
<1>1. req' = [req EXCEPT ![r] = [req[r] EXCEPT !.pc = step]]
  OBVIOUS
<1>2. req[r] \in AdminRequests
  BY DEF AdminRows
<1>3. [req[r] EXCEPT !.pc = step] \in AdminRequests
  BY <1>2 DEF AdminRequests
<1> QED BY <1>1, <1>2, <1>3, RequestSet DEF AdminRequests

LEMMA AskTyped ==
    ASSUME AdminRows, Asks
    PROVE  adminOps' \in 0 .. MaxAdminOps /\ adminOps' = adminOps + 1 /\ adminOps \in Nat /\ adminOps + 1 \in 0 .. MaxAdminOps
BY AdminAssumption DEF AdminRows, Asks

\* A request for the subscription begins.
LEMMA TakeStep ==
    ASSUME AdminRows, NEW r \in Requests, NEW step \in SubSteps, NEW copy \in SubRow, Take(r, step, copy)
    PROVE  /\ req' \in [Requests -> AdminRequests] /\ \A q \in Requests \ {r} : req'[q] = req[q]
           /\ req[r].pc = "none" /\ req'[r].pc = step /\ req'[r].sub = copy /\ req'[r].before = sub
           /\ adminOps' \in 0 .. MaxAdminOps /\ adminOps' = adminOps + 1
           /\ UNCHANGED <<settings, cookies, attempt>>
<1> DEFINE x == [NoReq EXCEPT !.pc = step, !.op = adminOps', !.sub = copy, !.before = sub]
<1>1. adminOps' \in 0 .. MaxAdminOps /\ adminOps' = adminOps + 1 /\ sub \in SubRow
  <2>1. Asks /\ sub \in SubRow
    BY DEF Take, AdminRows
  <2> QED BY <2>1, AskTyped
<1>2. step \in AdminSteps /\ adminOps' \in 0 .. MaxAdminOps
  BY <1>1 DEF AdminSteps
<1>3. x \in AdminRequests /\ x.pc = step /\ x.sub = copy /\ x.before = sub
  BY <1>1, <1>2, NoReqTyped DEF AdminRequests
<1>4. req' = [req EXCEPT ![r] = x] /\ req[r].pc = "none" /\ UNCHANGED <<settings, cookies, attempt>>
  BY DEF Take
<1> HIDE DEF x
<1> QED BY <1>1, <1>3, <1>4, RequestSet

LEMMA SubBegins ==
    ASSUME AdminInv, NEW r \in Requests, CreateSub(r) \/ SubReads(r)
    PROVE  AdminInv'
<1>0. AdminRows /\ sub \in SubRow /\ history \in History /\ UNCHANGED history /\ adminOps \in Nat
  <2>1. AdminRows /\ sub \in SubRow /\ history \in History /\ adminOps \in Nat
    BY AdminAssumption DEF AdminInv, AdminRows
  <2>2. UNCHANGED history
    BY DEF CreateSub, SubReads
  <2> QED BY <2>1, <2>2
<1>1. CASE CreateSub(r)
  <2>1. /\ req' \in [Requests -> AdminRequests] /\ \A q \in Requests \ {r} : req'[q] = req[q]
        /\ req[r].pc = "none" /\ req'[r].pc = "created" /\ req'[r].before = sub
        /\ adminOps' \in 0 .. MaxAdminOps /\ adminOps' = adminOps + 1
        /\ UNCHANGED <<settings, cookies, attempt>>
    BY <1>0, <1>1, TakeStep, NoReqTyped DEF CreateSub, SubSteps
  <2>2. /\ ~sub.exists /\ sub' \in SubRow /\ sub'.exists
    BY <1>0, <1>1, <2>1, AdminAssumption DEF CreateSub, SubRow, AdminRows, SettingsRow
  <2>3. AdminRows'
    BY <1>0, <2>1, <2>2 DEF AdminRows
  <2>4. SessionsInv' /\ SessionsRevoked' /\ ("settings" \notin history'.raced => SettingsAlone')
    BY <1>0, <2>1, SettingsFrame, AdminAssumption DEF SettingsSteps
  <2>5. ASSUME SubUntouched' PROVE SubAlone'
    <3>1. SubAlone
      BY <1>0, <2>5 DEF AdminInv, SubUntouched
    <3>2. \A q \in Requests \ {r} : Others(q, SubSteps)'
      BY <2>1 DEF Others, SubSteps
    <3>3. ~Others(r, SubSteps)' => AloneWithSub(r)'
      BY <1>0, <2>1, <2>2, <3>1 DEF SubAlone, AloneWithSub, Others, SubSteps
    <3> QED BY <2>1, <2>2, <3>1, <3>2, <3>3 DEF SubAlone, SubSteps
  <2> QED BY <2>3, <2>4, <2>5 DEF AdminInv
<1>2. CASE SubReads(r)
  <2>1. PICK t \in {sub.token, adminOps + 1}, d \in BOOLEAN, s \in BOOLEAN :
            Take(r, "sub", [sub EXCEPT !.token = t, !.disabled = d, !.standalone = s])
    BY <1>2 DEF SubReads
  <2> DEFINE copy == [sub EXCEPT !.token = t, !.disabled = d, !.standalone = s]
  <2>2. t \in 0 .. MaxAdminOps
    BY <1>0, <2>1, AskTyped DEF Take, SubRow
  <2>3. copy \in SubRow /\ copy.exists = sub.exists
    BY <1>0, <2>2 DEF SubRow
  <2>4. sub.exists /\ UNCHANGED sub
    BY <1>2 DEF SubReads
  <2> HIDE DEF copy
  <2>5. Take(r, "sub", copy)
    BY <2>1 DEF copy
  <2>6. /\ req' \in [Requests -> AdminRequests] /\ \A q \in Requests \ {r} : req'[q] = req[q]
        /\ req[r].pc = "none" /\ req'[r].pc = "sub" /\ req'[r].sub = copy /\ req'[r].before = sub
        /\ adminOps' \in 0 .. MaxAdminOps /\ adminOps' = adminOps + 1
        /\ UNCHANGED <<settings, cookies, attempt>>
    BY <1>0, <2>3, <2>5, TakeStep DEF SubSteps
  <2>7. AdminRows'
    BY <1>0, <2>3, <2>4, <2>6 DEF AdminRows
  <2>8. SessionsInv' /\ SessionsRevoked' /\ ("settings" \notin history'.raced => SettingsAlone')
    BY <1>0, <2>6, SettingsFrame, AdminAssumption DEF SettingsSteps
  <2>9. ASSUME SubUntouched' PROVE SubAlone'
    <3>1. SubAlone
      BY <1>0, <2>9 DEF AdminInv, SubUntouched
    <3>2. \A q \in Requests \ {r} : Others(q, SubSteps)'
      BY <2>6 DEF Others, SubSteps
    <3>3. ~Others(r, SubSteps)' => AloneWithSub(r)'
      BY <1>0, <2>4, <2>6, <3>1 DEF SubAlone, AloneWithSub, Others, SubSteps
    <3>4. ASSUME \A q \in Requests : req'[q].pc \notin SubSteps \ {"sub"} PROVE sub' = history'.sub
      <4>1. \A q \in Requests : req[q].pc \notin SubSteps \ {"sub"}
        BY <2>6, <3>4 DEF SubSteps
      <4> QED BY <1>0, <2>4, <3>1, <4>1 DEF SubAlone
    <3>5. \A q \in Requests : req'[q].pc = "sub" => sub'.exists
      BY <2>4
    <3> QED BY <3>2, <3>3, <3>4, <3>5 DEF SubAlone
  <2> QED BY <2>7, <2>8, <2>9 DEF AdminInv
<1> QED BY <1>1, <1>2

\* How a request for the subscription ends, and how it goes on.
LEMMA HistoryOfSub ==
    ASSUME AdminRows, NEW r \in Requests, NEW row \in SubRow, NEW rest \in SUBSET {"settings", "sub"},
           history' = [history EXCEPT !.sub = row, !.raced = Raced(r, "sub", SubSteps), !.half = rest]
    PROVE  /\ history' \in History /\ history'.sub = row /\ history'.half = rest
           /\ history'.hash = history.hash /\ history'.revocations = history.revocations
           /\ history'.migrations = history.migrations
           /\ "settings" \in history.raced <=> "settings" \in history'.raced
           /\ "sub" \notin history'.raced => "sub" \notin history.raced /\ ~Others(r, SubSteps)
<1>1. history \in History
  BY DEF AdminRows
<1>2. Raced(r, "sub", SubSteps) \in SUBSET {"settings", "sub"}
  BY <1>1 DEF Raced, History
<1>3. /\ history' \in History /\ history'.sub = row /\ history'.raced = Raced(r, "sub", SubSteps)
      /\ history'.half = rest
      /\ history'.hash = history.hash /\ history'.revocations = history.revocations
      /\ history'.migrations = history.migrations
  BY <1>1, <1>2 DEF History
<1> QED BY <1>3 DEF Raced

LEMMA SubAnswersStep ==
    ASSUME AdminRows, NEW r \in Requests, sub' \in SubRow, SubAnswers(r)
    PROVE  /\ history' \in History /\ history'.sub = sub' /\ history'.half = history.half \ {"sub"}
           /\ history'.hash = history.hash /\ history'.revocations = history.revocations
           /\ history'.migrations = history.migrations
           /\ "settings" \in history.raced <=> "settings" \in history'.raced
           /\ "sub" \notin history'.raced => "sub" \notin history.raced /\ ~Others(r, SubSteps)
           /\ req' \in [Requests -> AdminRequests] /\ req'[r] = NoReq
           /\ \A q \in Requests \ {r} : req'[q] = req[q]
<1> DEFINE row == sub'
           rest == history.half \ {"sub"}
<1>1. req' = [req EXCEPT ![r] = NoReq]
  BY DEF SubAnswers
<1>2. history' = [history EXCEPT !.sub = row, !.raced = Raced(r, "sub", SubSteps), !.half = rest]
  BY DEF SubAnswers, AdminRows, History
<1>3. row \in SubRow /\ rest \in SUBSET {"settings", "sub"}
  BY DEF AdminRows, History
<1> HIDE DEF row, rest
<1>4. /\ history' \in History /\ history'.sub = row /\ history'.half = rest
      /\ history'.hash = history.hash /\ history'.revocations = history.revocations
      /\ history'.migrations = history.migrations
      /\ "settings" \in history.raced <=> "settings" \in history'.raced
      /\ "sub" \notin history'.raced => "sub" \notin history.raced /\ ~Others(r, SubSteps)
  BY <1>2, <1>3, HistoryOfSub
<1>5. /\ req' \in [Requests -> AdminRequests] /\ req'[r] = NoReq
      /\ \A q \in Requests \ {r} : req'[q] = req[q]
  BY <1>1, RequestSet, NoReqTyped
<1> QED BY <1>4, <1>5 DEF row, rest

\* The steps that leave what the last answer said.
LEMMA SubRacedStep ==
    ASSUME AdminRows, NEW r \in Requests, history' = [history EXCEPT !.raced = Raced(r, "sub", SubSteps)]
    PROVE  /\ history' \in History /\ history'.sub = history.sub /\ history'.half = history.half
           /\ history'.hash = history.hash /\ history'.revocations = history.revocations
           /\ history'.migrations = history.migrations
           /\ "settings" \in history.raced <=> "settings" \in history'.raced
           /\ "sub" \notin history'.raced => "sub" \notin history.raced /\ ~Others(r, SubSteps)
<1>1. history \in History /\ history.sub \in SubRow /\ history.half \in SUBSET {"settings", "sub"}
  BY DEF AdminRows, History
<1>2. history' = [history EXCEPT !.sub = history.sub, !.raced = Raced(r, "sub", SubSteps),
                                 !.half = history.half]
  BY <1>1 DEF History
<1> QED BY <1>1, <1>2, HistoryOfSub

LEMMA SubFailsStep ==
    ASSUME AdminRows, NEW r \in Requests, SubFails(r)
    PROVE  /\ history' \in History /\ history'.sub = history.sub /\ history'.half = history.half
           /\ history'.hash = history.hash /\ history'.revocations = history.revocations
           /\ history'.migrations = history.migrations
           /\ "settings" \in history.raced <=> "settings" \in history'.raced
           /\ "sub" \notin history'.raced => "sub" \notin history.raced /\ ~Others(r, SubSteps)
           /\ req' \in [Requests -> AdminRequests] /\ req'[r] = NoReq
           /\ \A q \in Requests \ {r} : req'[q] = req[q]
<1>1. req' = [req EXCEPT ![r] = NoReq] /\ history' = [history EXCEPT !.raced = Raced(r, "sub", SubSteps)]
  BY DEF SubFails
<1>2. /\ req' \in [Requests -> AdminRequests] /\ req'[r] = NoReq
      /\ \A q \in Requests \ {r} : req'[q] = req[q]
  BY <1>1, RequestSet, NoReqTyped
<1> QED BY <1>1, <1>2, SubRacedStep

LEMMA SubMovesStep ==
    ASSUME AdminRows, NEW r \in Requests, NEW step \in SubSteps, SubMoves(r, step)
    PROVE  /\ history' \in History /\ history'.sub = history.sub /\ history'.half = history.half
           /\ history'.hash = history.hash /\ history'.revocations = history.revocations
           /\ history'.migrations = history.migrations
           /\ "settings" \in history.raced <=> "settings" \in history'.raced
           /\ "sub" \notin history'.raced => "sub" \notin history.raced /\ ~Others(r, SubSteps)
           /\ req' \in [Requests -> AdminRequests]
           /\ \A q \in Requests \ {r} : req'[q] = req[q]
           /\ req'[r].pc = step /\ req'[r].before = req[r].before
<1>1. req' = [req EXCEPT ![r].pc = step] /\ history' = [history EXCEPT !.raced = Raced(r, "sub", SubSteps)]
  BY DEF SubMoves
<1>2. step \in AdminSteps
  BY DEF AdminSteps
<1>3. /\ req' \in [Requests -> AdminRequests] /\ \A q \in Requests \ {r} : req'[q] = req[q]
      /\ req'[r].pc = step /\ req'[r].before = req[r].before
  BY <1>1, <1>2, RequestGoesOn
<1> QED BY <1>1, <1>3, SubRacedStep

\* A step of request r for the subscription: it keeps the invariant when the request is
\* answered, or when it leaves the row and, while no other request is at it, its own request
\* as they should be.
LEMMA SubStepKeeps ==
    ASSUME AdminInv, NEW r \in Requests, UNCHANGED <<settings, cookies, attempt, adminOps>>,
           req[r].pc \in SubSteps, sub' \in SubRow, ~sub'.exists => sub' = NoSub,
           history' \in History, req' \in [Requests -> AdminRequests],
           history'.hash = history.hash, history'.revocations = history.revocations,
           history'.migrations = history.migrations,
           "settings" \in history.raced <=> "settings" \in history'.raced,
           "settings" \in history.half => "settings" \in history'.half,
           "sub" \notin history'.raced => "sub" \notin history.raced /\ ~Others(r, SubSteps),
           \A q \in Requests \ {r} : req'[q] = req[q],
           req'[r].pc \in {"none", "sources", "rollback"},
           req'[r].before.exists \/ req'[r].before = NoSub,
           \/ req'[r].pc = "none" /\ sub' = history'.sub
           \/ /\ "sub" \in history.half => "sub" \in history'.half
              /\ AloneWithSub(r) /\ req'[r].pc = "none" => sub' = history'.sub
              /\ AloneWithSub(r) /\ req'[r].pc # "none" => AloneWithSub(r)'
    PROVE  AdminInv'
<1>0. AdminRows /\ adminOps \in Nat
  BY AdminAssumption DEF AdminInv, AdminRows
<1>1. AdminRows'
  BY <1>0 DEF AdminRows
<1>2. SessionsInv' /\ SessionsRevoked' /\ ("settings" \notin history'.raced => SettingsAlone')
  <2>1. \A q \in Requests : \/ req'[q] = req[q]
                            \/ /\ req'[q].pc \notin SettingsSteps \cup {"token"}
                               /\ req[q].pc \notin SettingsSteps \cup {"token"}
    BY DEF SettingsSteps, SubSteps
  <2>2. adminOps' \in Nat /\ adminOps <= adminOps'
    BY <1>0
  <2> QED BY <1>0, <2>1, <2>2, SettingsFrame
<1>3. ASSUME SubUntouched' PROVE SubAlone'
  <2>1. /\ \A q \in Requests \ {r} : req[q].pc \notin SubSteps /\ req'[q].pc \notin SubSteps
        /\ ~Others(r, SubSteps)
    BY <1>3 DEF SubUntouched, Others
  <2>2. CASE req'[r].pc = "none" /\ sub' = history'.sub
    BY <2>1, <2>2 DEF SubAlone, SubSteps
  <2>3. CASE /\ "sub" \in history.half => "sub" \in history'.half
             /\ AloneWithSub(r) /\ req'[r].pc = "none" => sub' = history'.sub
             /\ AloneWithSub(r) /\ req'[r].pc # "none" => AloneWithSub(r)'
    <3>1. AloneWithSub(r)
      BY <1>3, <2>1, <2>3 DEF AdminInv, SubUntouched, SubAlone
    <3>2. IF req'[r].pc \in SubSteps THEN AloneWithSub(r)' ELSE sub' = history'.sub
      BY <2>3, <3>1 DEF SubSteps
    <3> QED BY <2>1, <3>2 DEF SubAlone, SubSteps
  <2> QED BY <2>2, <2>3
<1> QED BY <1>1, <1>2, <1>3 DEF AdminInv

\* The request is answered, fails, or goes on.
LEMMA SubAnswersKeeps ==
    ASSUME AdminInv, NEW r \in Requests, UNCHANGED <<settings, cookies, attempt, adminOps>>,
           req[r].pc \in SubSteps, sub' \in SubRow, ~sub'.exists => sub' = NoSub, SubAnswers(r)
    PROVE  AdminInv'
<1>0. AdminRows
  BY DEF AdminInv
<1>1. /\ history' \in History /\ history'.sub = sub' /\ history'.half = history.half \ {"sub"}
      /\ history'.hash = history.hash /\ history'.revocations = history.revocations
      /\ history'.migrations = history.migrations
      /\ "settings" \in history.raced <=> "settings" \in history'.raced
      /\ "sub" \notin history'.raced => "sub" \notin history.raced /\ ~Others(r, SubSteps)
      /\ req' \in [Requests -> AdminRequests] /\ req'[r] = NoReq
      /\ \A q \in Requests \ {r} : req'[q] = req[q]
  BY <1>0, SubAnswersStep
<1>2. req'[r].pc = "none" /\ req'[r].before = NoSub
  BY <1>1, NoReqTyped
<1>3. "settings" \in history.half => "settings" \in history'.half
  BY <1>1
<1> QED BY <1>1, <1>2, <1>3, SubStepKeeps

LEMMA SubFailsKeeps ==
    ASSUME AdminInv, NEW r \in Requests, UNCHANGED <<settings, cookies, attempt, adminOps>>,
           req[r].pc \in SubSteps, sub' \in SubRow, ~sub'.exists => sub' = NoSub, SubFails(r),
           AloneWithSub(r) => sub' = history.sub
    PROVE  AdminInv'
<1>0. AdminRows
  BY DEF AdminInv
<1>1. /\ history' \in History /\ history'.sub = history.sub /\ history'.half = history.half
      /\ history'.hash = history.hash /\ history'.revocations = history.revocations
      /\ history'.migrations = history.migrations
      /\ "settings" \in history.raced <=> "settings" \in history'.raced
      /\ "sub" \notin history'.raced => "sub" \notin history.raced /\ ~Others(r, SubSteps)
      /\ req' \in [Requests -> AdminRequests] /\ req'[r] = NoReq
      /\ \A q \in Requests \ {r} : req'[q] = req[q]
  BY <1>0, SubFailsStep
<1>2. req'[r].pc = "none" /\ req'[r].before = NoSub
  BY <1>1, NoReqTyped
<1>3. AloneWithSub(r) => sub' = history'.sub
  BY <1>1
<1> QED BY <1>1, <1>2, <1>3, SubStepKeeps

LEMMA SubMovesKeeps ==
    ASSUME AdminInv, NEW r \in Requests, UNCHANGED <<settings, cookies, attempt, adminOps>>,
           req[r].pc \in SubSteps, sub' \in SubRow, ~sub'.exists => sub' = NoSub,
           NEW step \in {"sources", "rollback"}, SubMoves(r, step), AloneWithSub(r) => AloneWithSub(r)'
    PROVE  AdminInv'
<1>0. AdminRows /\ step \in SubSteps
  BY DEF AdminInv, SubSteps
<1>1. /\ history' \in History /\ history'.sub = history.sub /\ history'.half = history.half
      /\ history'.hash = history.hash /\ history'.revocations = history.revocations
      /\ history'.migrations = history.migrations
      /\ "settings" \in history.raced <=> "settings" \in history'.raced
      /\ "sub" \notin history'.raced => "sub" \notin history.raced /\ ~Others(r, SubSteps)
      /\ req' \in [Requests -> AdminRequests]
      /\ \A q \in Requests \ {r} : req'[q] = req[q]
      /\ req'[r].pc = step /\ req'[r].before = req[r].before
  BY <1>0, SubMovesStep
<1>2. req'[r].before.exists \/ req'[r].before = NoSub
  BY <1>0, <1>1 DEF AdminRows
<1> QED BY <1>1, <1>2, SubStepKeeps DEF AloneWithSub

LEMMA WrittenTyped ==
    ASSUME AdminRows, NEW row \in SubRow, row.exists
    PROVE  /\ Written(row) \in SubRow /\ (~Written(row).exists => Written(row) = NoSub)
           /\ Written(row).exists = sub.exists /\ Written(row).sources = sub.sources
           /\ sub.exists /\ row.sources = sub.sources => Written(row) = row
<1>1. sub \in SubRow /\ (~sub.exists => sub = NoSub)
  BY DEF AdminRows
<1> QED BY <1>1 DEF Written, SubRow

LEMMA SubSet ==
    ASSUME AdminInv, NEW r \in Requests, SubWrites(r) \/ SourcesSet(r) \/ SubRollsBack(r)
    PROVE  AdminInv'
<1>0. /\ AdminRows /\ sub \in SubRow /\ history \in History /\ history.sub \in SubRow
      /\ req[r] \in AdminRequests /\ req[r].sub \in SubRow /\ req[r].before \in SubRow
      /\ ~sub.exists => sub = NoSub
      /\ ~req[r].before.exists => req[r].before = NoSub
      /\ req[r].op \in 0 .. MaxAdminOps
  BY DEF AdminInv, AdminRows, History, AdminRequests
<1>1. CASE SubWrites(r)
  <2>1. /\ req[r].pc = "sub" /\ req[r].sub.exists /\ UNCHANGED <<settings, cookies, attempt, adminOps>>
        /\ req[r].pc \in SubSteps
    BY <1>0, <1>1 DEF SubWrites, AdminRows, SubSteps
  <2>2. CASE sub.exists /\ sub' = Written(req[r].sub) /\ (SubAnswers(r) \/ SubMoves(r, "sources"))
    <3>1. /\ sub' \in SubRow /\ (~sub'.exists => sub' = NoSub)
          /\ sub'.exists = sub.exists /\ sub'.sources = sub.sources
      BY <1>0, <2>1, <2>2, WrittenTyped
    <3>2. CASE SubAnswers(r)
      BY <2>1, <3>1, <3>2, SubAnswersKeeps
    <3>3. CASE SubMoves(r, "sources")
      <4>1. /\ history'.sub = history.sub /\ req'[r].pc = "sources" /\ req'[r].before = req[r].before
        BY <1>0, <3>3, SubMovesStep DEF SubSteps
      <4>2. ASSUME AloneWithSub(r) PROVE AloneWithSub(r)'
        BY <2>1, <2>2, <3>1, <4>1, <4>2 DEF AloneWithSub
      <4> QED BY <1>0, <2>1, <3>1, <3>3, <4>2, SubMovesKeeps DEF AloneWithSub
    <3> QED BY <2>2, <3>2, <3>3
  <2>3. CASE UNCHANGED sub /\ SubFails(r)
    <3>1. ASSUME AloneWithSub(r) PROVE sub' = history.sub
      BY <2>1, <2>3, <3>1 DEF AloneWithSub
    <3> QED BY <1>0, <2>1, <2>3, <3>1, SubFailsKeeps
  <2> QED BY <1>1, <2>2, <2>3 DEF SubWrites
<1>2. CASE SourcesSet(r)
  <2>1. req[r].pc \in {"created", "sources"} /\ UNCHANGED <<settings, cookies, attempt, adminOps>>
    BY <1>2 DEF SourcesSet
  <2>2. CASE sub.exists /\ sub' = [sub EXCEPT !.sources = req[r].op] /\ SubAnswers(r)
    <3>1. sub' \in SubRow /\ sub'.exists
      BY <1>0, <2>2 DEF SubRow
    <3>2. req[r].pc \in SubSteps
      BY <2>1 DEF SubSteps
    <3> QED BY <2>1, <2>2, <3>1, <3>2, SubAnswersKeeps
  <2>3. CASE SubMoves(r, "rollback") /\ UNCHANGED sub
    <3>1. /\ history'.sub = history.sub /\ req'[r].pc = "rollback" /\ req'[r].before = req[r].before
      BY <1>0, <2>3, SubMovesStep DEF SubSteps
    <3>2. ASSUME AloneWithSub(r) PROVE AloneWithSub(r)'
      BY <2>1, <2>3, <3>1, <3>2 DEF AloneWithSub
    <3>3. req[r].pc \in SubSteps
      BY <2>1 DEF SubSteps
    <3> QED BY <1>0, <2>1, <2>3, <3>2, <3>3, SubMovesKeeps DEF AloneWithSub
  <2> QED BY <1>2, <2>2, <2>3 DEF SourcesSet
<1>3. CASE SubRollsBack(r)
  <2>1. /\ req[r].pc = "rollback" /\ UNCHANGED <<settings, cookies, attempt, adminOps>>
        /\ sub' = IF req[r].before.exists THEN Written(req[r].before) ELSE NoSub
        /\ SubFails(r)
    BY <1>3 DEF SubRollsBack, Before
  <2>2. sub' \in SubRow /\ (~sub'.exists => sub' = NoSub)
    BY <1>0, <2>1, WrittenTyped, NoReqTyped
  <2>3. ASSUME AloneWithSub(r) PROVE sub' = history.sub
    <3>1. req[r].before = history.sub
      BY <2>3 DEF AloneWithSub
    <3>2. CASE req[r].before.exists
      <4>1. sub.exists /\ sub.sources = req[r].before.sources
        BY <2>1, <2>3, <3>2 DEF AloneWithSub
      <4> QED BY <1>0, <2>1, <3>1, <3>2, <4>1, WrittenTyped
    <3>3. CASE ~req[r].before.exists
      BY <1>0, <2>1, <3>1, <3>3
    <3> QED BY <3>2, <3>3
  <2>4. req[r].pc \in SubSteps
    BY <2>1 DEF SubSteps
  <2> QED BY <1>0, <2>1, <2>2, <2>3, <2>4, SubFailsKeeps
<1> QED BY <1>1, <1>2, <1>3

LEMMA SubDeleted ==
    ASSUME AdminInv, DeleteSub
    PROVE  AdminInv'
<1>0. AdminRows /\ history \in History /\ UNCHANGED <<settings, cookies, attempt, req>> /\ sub' = NoSub
  BY DEF AdminInv, AdminRows, DeleteSub
<1>1. adminOps' \in 0 .. MaxAdminOps /\ adminOps' = adminOps + 1 /\ adminOps \in Nat
  <2>1. Asks
    BY DEF DeleteSub
  <2> QED BY <1>0, <2>1, AskTyped
<1>2. /\ history' \in History /\ history'.sub = NoSub /\ history'.half = history.half \ {"sub"}
      /\ history'.hash = history.hash /\ history'.revocations = history.revocations
      /\ history'.migrations = history.migrations
      /\ history'.raced = history.raced \cup IF \E r \in Requests : req[r].pc \in SubSteps THEN {"sub"} ELSE {}
  BY <1>0, NoReqTyped DEF DeleteSub, History
<1>3. AdminRows'
  BY <1>0, <1>1, <1>2, NoReqTyped DEF AdminRows
<1>4. SessionsInv' /\ SessionsRevoked' /\ ("settings" \notin history'.raced => SettingsAlone')
  BY <1>0, <1>1, <1>2, SettingsFrame
<1>5. SubUntouched' => SubAlone'
  <2>1. ASSUME SubUntouched' PROVE \A r \in Requests : req[r].pc \notin SubSteps
    BY <1>2, <2>1 DEF SubUntouched
  <2> QED BY <1>0, <1>2, <2>1 DEF SubAlone
<1> QED BY <1>3, <1>4, <1>5 DEF AdminInv

\* The steps of logins and of the settings leave the row of the subscription alone.
LEMMA SubKept ==
    ASSUME AdminInv, NEW r \in Requests, UNCHANGED sub, history'.sub = history.sub,
           SubUntouched' => SubUntouched,
           \A q \in Requests \ {r} : \/ req'[q] = req[q]
                                     \/ req'[q].pc = "token" /\ req[q].pc = "token",
           req'[r].pc \in {"none", "token", "put", "bump"}, req[r].pc \in {"none", "token", "put", "bump"}
    PROVE  SubUntouched' => SubAlone'
<1>1. \A q \in Requests : \/ req'[q] = req[q]
                          \/ req'[q].pc \notin SubSteps /\ req[q].pc \notin SubSteps
  BY DEF SubSteps
<1> QED BY <1>1, SubFrame

\* When all sessions are ended no cookie that was handed out counts.
LEMMA AllEnded ==
    ASSUME AdminInv, settings' = Bumped, history' = Revoked, UNCHANGED cookies
    PROVE  /\ settings' \in SettingsRow /\ history' \in History
           /\ settings'.hash = settings.hash /\ settings'.migrated = settings.migrated
           /\ settings'.version = 1 + history'.revocations
           /\ history'.revocations = history.revocations + 1 /\ history.revocations \in Nat
           /\ history'.sub = history.sub /\ history'.hash = history.hash
           /\ history'.raced = history.raced /\ history'.migrations = history.migrations
           /\ history'.half = history.half \ {"settings"}
           /\ \A c \in cookies : c.version \in {0, 1 + c.at} /\ c.at <= history'.revocations
           /\ SessionsRevoked'
<1>1. /\ settings \in SettingsRow /\ history \in History /\ cookies \subseteq Cookies
      /\ settings.version = 1 + history.revocations
      /\ \A c \in cookies : c.version \in {0, 1 + c.at} /\ c.at <= history.revocations
  BY DEF AdminInv, AdminRows, SessionsInv
<1>2. /\ settings' \in SettingsRow /\ settings'.version = settings.version + 1
      /\ settings'.hash = settings.hash /\ settings'.migrated = settings.migrated
  BY <1>1 DEF Bumped, SettingsRow
<1>3. /\ history' \in History /\ history'.revocations = history.revocations + 1 /\ history.revocations \in Nat
      /\ history'.sub = history.sub /\ history'.hash = history.hash
      /\ history'.raced = history.raced /\ history'.migrations = history.migrations
      /\ history'.half = history.half \ {"settings"}
  <2> DEFINE n == history.revocations + 1
             rest == history.half \ {"settings"}
  <2>1. n \in Nat /\ history.revocations \in Nat /\ rest \in SUBSET {"settings", "sub"}
    BY <1>1 DEF History
  <2>2. history' = [history EXCEPT !.revocations = n, !.half = rest]
    BY <1>1 DEF Revoked, History
  <2> HIDE DEF n, rest
  <2>3. /\ history' \in History /\ history'.revocations = n /\ history'.half = rest
        /\ history'.sub = history.sub /\ history'.hash = history.hash
        /\ history'.raced = history.raced /\ history'.migrations = history.migrations
    BY <1>1, <2>1, <2>2 DEF History
  <2> QED BY <2>1, <2>3 DEF n, rest
<1>4. ASSUME NEW c \in cookies
      PROVE  /\ c.version \in {0, 1 + c.at} /\ c.at <= history'.revocations
             /\ c.version # settings'.version
  <2>1. c.at \in Nat /\ c.version \in {0, 1 + c.at} /\ c.at <= history.revocations
    BY <1>1 DEF Cookies
  <2> QED BY <1>1, <1>2, <1>3, <2>1
<1>5. SessionsRevoked'
  BY <1>4 DEF SessionsRevoked, Valid
<1> QED BY <1>1, <1>2, <1>3, <1>4, <1>5

LEMMA LoggedOut ==
    ASSUME AdminInv, Logout
    PROVE  AdminInv'
<1>0. AdminRows /\ UNCHANGED <<sub, cookies, attempt, req>> /\ settings' = Bumped /\ history' = Revoked
  BY DEF AdminInv, Logout
<1>1. adminOps' \in 0 .. MaxAdminOps /\ adminOps' = adminOps + 1 /\ adminOps \in Nat
  <2>1. Asks
    BY DEF Logout
  <2> QED BY <1>0, <2>1, AskTyped
<1>2. /\ settings' \in SettingsRow /\ history' \in History
      /\ settings'.hash = settings.hash /\ settings'.migrated = settings.migrated
      /\ settings'.version = 1 + history'.revocations
      /\ history'.revocations = history.revocations + 1 /\ history.revocations \in Nat
      /\ history'.sub = history.sub /\ history'.hash = history.hash
      /\ history'.raced = history.raced /\ history'.migrations = history.migrations
      /\ history'.half = history.half \ {"settings"}
      /\ \A c \in cookies : c.version \in {0, 1 + c.at} /\ c.at <= history'.revocations
      /\ SessionsRevoked'
  BY <1>0, AllEnded
<1>3. AdminRows'
  BY <1>0, <1>1, <1>2 DEF AdminRows
<1>4. Pending' = Pending
  BY <1>0 DEF Pending
<1>5. SessionsInv'
  <2>1. Cardinality(Pending) \in Nat /\ attempt.failures \in Nat
    BY FS_CardinalityType DEF AdminInv, AdminRows, SessionsInv
  <2> QED BY <1>0, <1>1, <1>2, <1>4, <2>1 DEF AdminInv, SessionsInv
<1>6. /\ "settings" \notin history'.raced => SettingsAlone'
      /\ SubUntouched' => SubAlone'
  BY <1>0, <1>2 DEF AdminInv, SettingsAlone, SubAlone, AloneWithSub, Others, SubUntouched
<1> QED BY <1>2, <1>3, <1>5, <1>6 DEF AdminInv

LEMMA LockEnded ==
    ASSUME AdminInv, LockEnds
    PROVE  AdminInv'
<1>0. /\ UNCHANGED <<settings, sub, cookies, req, adminOps, history>>
      /\ attempt' = [attempt EXCEPT !.locked = FALSE]
      /\ attempt \in [failures : Nat, locked : BOOLEAN]
  BY DEF AdminInv, AdminRows, LockEnds
<1>1. attempt' \in [failures : Nat, locked : BOOLEAN] /\ attempt'.failures = attempt.failures
  BY <1>0
<1>2. AdminRows'
  BY <1>0, <1>1 DEF AdminInv, AdminRows
<1>3. Pending' = Pending
  BY <1>0 DEF Pending
<1>4. SessionsInv' /\ SessionsRevoked'
  BY <1>0, <1>1, <1>3 DEF AdminInv, SessionsInv, SessionsRevoked, Valid
<1>5. /\ "settings" \notin history'.raced => SettingsAlone'
      /\ SubUntouched' => SubAlone'
  BY <1>0 DEF AdminInv, SettingsAlone, SubAlone, AloneWithSub, Others, SubUntouched
<1> QED BY <1>2, <1>4, <1>5 DEF AdminInv

\* A login reads the settings twice; between the two it holds a password that was right.
LEMMA LoginSteps ==
    ASSUME AdminInv, NEW r \in Requests, (\E pw \in Passwords : LoginBegins(r, pw)) \/ LoginEnds(r)
    PROVE  AdminInv'
<1>0. AdminRows /\ req[r] \in AdminRequests /\ settings \in SettingsRow /\ history \in History
  BY DEF AdminInv, AdminRows
<1>1. CASE \E pw \in Passwords : LoginBegins(r, pw)
  <2>1. PICK pw \in Passwords : LoginBegins(r, pw)
    BY <1>1
  <2>2. adminOps' \in 0 .. MaxAdminOps /\ adminOps' = adminOps + 1 /\ adminOps \in Nat
    <3>1. Asks
      BY <2>1 DEF LoginBegins
    <3> QED BY <1>0, <3>1, AskTyped
  <2>3. /\ UNCHANGED <<settings, sub, cookies, history>> /\ req[r].pc = "none"
        /\ attempt.failures \in Nat /\ attempt.failures <= adminOps
    BY <2>1 DEF LoginBegins, AdminInv, AdminRows, SessionsInv
  <2>4. attempt' \in [failures : Nat, locked : BOOLEAN] /\ attempt'.failures <= adminOps'
    <3> DEFINE locked == attempt.failures + 1 >= LoginLimit
    <3>1. \/ attempt' = [failures |-> attempt.failures + 1, locked |-> locked]
          \/ attempt' = [failures |-> 0, locked |-> FALSE]
      BY <2>1 DEF LoginBegins
    <3>2. locked \in BOOLEAN
      BY <2>3, AdminAssumption
    <3> HIDE DEF locked
    <3>3. CASE attempt' = [failures |-> attempt.failures + 1, locked |-> locked]
      <4>1. CASE locked
        BY <2>2, <2>3, <3>3, <4>1
      <4>2. CASE ~locked
        <5>1. locked = FALSE
          BY <3>2, <4>2
        <5>2. attempt' = [failures |-> attempt.failures + 1, locked |-> FALSE]
          BY <3>3, <5>1
        <5> QED BY <2>2, <2>3, <5>2
      <4> QED BY <3>2, <4>1, <4>2
    <3>4. CASE attempt' = [failures |-> 0, locked |-> FALSE]
      BY <2>2, <3>4
    <3> QED BY <3>1, <3>3, <3>4
  <2>5. /\ req' \in [Requests -> AdminRequests] /\ \A q \in Requests \ {r} : req'[q] = req[q]
        /\ \/ req'[r] = req[r]
           \/ req'[r].pc = "token" /\ req'[r].before = NoSub /\ req'[r].pw = settings.hash
    <3>1. CASE UNCHANGED req
      BY <1>0, <3>1 DEF AdminRows
    <3>2. CASE /\ pw = settings.hash
               /\ req' = [req EXCEPT ![r] = [NoReq EXCEPT !.pc = "token", !.pw = pw,
                                                          !.overlap = Others(r, SettingsSteps)]]
      <4> DEFINE x == [NoReq EXCEPT !.pc = "token", !.pw = pw, !.overlap = Others(r, SettingsSteps)]
      <4>1. Others(r, SettingsSteps) \in BOOLEAN /\ "token" \in AdminSteps /\ pw \in Passwords \cup {0}
        BY DEF Others, AdminSteps
      <4>2. x \in AdminRequests /\ x.pc = "token" /\ x.before = NoSub /\ x.pw = pw
        BY <4>1, NoReqTyped DEF AdminRequests
      <4>3. req' = [req EXCEPT ![r] = x]
        BY <3>2
      <4> HIDE DEF x
      <4> QED BY <1>0, <3>2, <4>2, <4>3, RequestSet
    <3> QED BY <2>1, <3>1, <3>2 DEF LoginBegins
  <2>6. AdminRows'
    <3>1. settings.hash \in Passwords
      BY <1>0 DEF SettingsRow
    <3> QED BY <1>0, <2>2, <2>3, <2>4, <2>5, <3>1 DEF AdminRows
  <2>7. Pending' = Pending
    BY <2>3, <2>5 DEF Pending, SettingsSteps
  <2>8. SessionsInv'
    <3>1. Cardinality(Pending) \in Nat /\ history.revocations \in Nat
      BY <1>0, FS_CardinalityType DEF AdminInv, SessionsInv, History
    <3> QED BY <2>2, <2>3, <2>4, <2>5, <2>7, <3>1 DEF AdminInv, SessionsInv
  <2>9. SessionsRevoked'
    BY <2>3, <2>5 DEF AdminInv, SessionsRevoked, Valid
  <2>10. "settings" \notin history'.raced => SettingsAlone'
    BY <2>3, <2>5 DEF AdminInv, SettingsAlone
  <2>11. SubUntouched' => SubAlone'
    BY <2>3, <2>5, SubKept DEF SubUntouched
  <2> QED BY <2>6, <2>8, <2>9, <2>10, <2>11 DEF AdminInv
<1>2. CASE LoginEnds(r)
  <2>1. PICK v \in {0, settings.version} :
            cookies' = cookies \cup {[version |-> v, at |-> history.revocations, pw |-> req[r].pw,
                                      overlap |-> req[r].overlap]}
    BY <1>2 DEF LoginEnds
  <2> DEFINE new == [version |-> v, at |-> history.revocations, pw |-> req[r].pw, overlap |-> req[r].overlap]
  <2>2. /\ req[r].pc = "token" /\ req' = [req EXCEPT ![r] = NoReq]
        /\ UNCHANGED <<settings, sub, attempt, adminOps, history>>
    BY <1>2 DEF LoginEnds
  <2>3. /\ req' \in [Requests -> AdminRequests] /\ \A q \in Requests \ {r} : req'[q] = req[q]
        /\ req'[r].pc = "none" /\ req'[r].before = NoSub
    BY <1>0, <2>2, RequestSet, NoReqTyped
  <2>4. req[r].overlap \/ req[r].pw = settings.hash
    BY <2>2 DEF AdminInv, SessionsInv
  <2>5. settings.version = 1 + history.revocations /\ history.revocations \in Nat
    BY <1>0 DEF AdminInv, SessionsInv, History
  <2>6. /\ new \in Cookies /\ new.version \in {0, 1 + new.at} /\ new.at = history.revocations
        /\ new.overlap \/ new.pw = settings.hash
    BY <1>0, <2>2, <2>4, <2>5 DEF Cookies, AdminRows, AdminRequests
  <2> HIDE DEF new
  <2>7. cookies' = cookies \cup {new}
    BY <2>1 DEF new
  <2>8. AdminRows'
    BY <1>0, <2>2, <2>3, <2>6, <2>7 DEF AdminRows
  <2>9. Pending' = Pending
    BY <2>2, <2>3 DEF Pending, SettingsSteps
  <2>10. SessionsInv'
    BY <2>2, <2>3, <2>5, <2>6, <2>7, <2>9 DEF AdminInv, SessionsInv
  <2>11. SessionsRevoked'
    <3>1. \A q \in Requests : req[q].pc = "bump" => req'[q].pc = "bump"
      BY <2>2, <2>3
    <3> QED BY <2>2, <2>6, <2>7, <3>1 DEF AdminInv, SessionsRevoked, Valid
  <2>12. "settings" \notin history'.raced => SettingsAlone'
    BY <2>2, <2>3 DEF AdminInv, SettingsAlone
  <2>13. SubUntouched' => SubAlone'
    BY <2>2, <2>3, SubKept DEF SubUntouched
  <2> QED BY <2>8, <2>10, <2>11, <2>12, <2>13 DEF AdminInv
<1> QED BY <1>1, <1>2

\* The handler of the settings: while it is at work it may yet end all sessions.
LEMMA PutBegins ==
    ASSUME AdminInv, NEW r \in Requests, NEW pw \in Passwords \cup {0}, PutReads(r, pw)
    PROVE  AdminInv'
<1>0. /\ AdminRows /\ settings \in SettingsRow /\ history \in History
      /\ UNCHANGED <<settings, sub, cookies, attempt, history>> /\ req[r].pc = "none"
      /\ settings.hash \in Passwords
  BY DEF AdminInv, AdminRows, PutReads, SettingsRow
<1>1. adminOps' \in 0 .. MaxAdminOps /\ adminOps' = adminOps + 1 /\ adminOps \in Nat
  <2>1. Asks
    BY DEF PutReads
  <2> QED BY <1>0, <2>1, AskTyped
<1> DEFINE copy == IF pw = 0 THEN settings ELSE [settings EXCEPT !.hash = pw]
           x == [NoReq EXCEPT !.pc = "put", !.op = adminOps', !.pw = pw, !.settings = copy]
<1>2. /\ copy \in SettingsRow /\ copy.migrated = settings.migrated
      /\ copy.hash = IF pw = 0 THEN settings.hash ELSE pw
  BY <1>0 DEF SettingsRow
<1>3. "put" \in AdminSteps
  BY DEF AdminSteps, SettingsSteps
<1>4. req' = [req EXCEPT ![r] = x]
  BY DEF PutReads
<1> HIDE DEF copy
<1>5. x \in AdminRequests /\ x.pc = "put" /\ x.before = NoSub /\ x.pw = pw /\ x.settings = copy
  BY <1>1, <1>2, <1>3, NoReqTyped DEF AdminRequests
<1> HIDE DEF x
<1>6. /\ req' \in [Requests -> AdminRequests] /\ req'[r] = x
      /\ \A q \in Requests \ {r} : req'[q] = req[q]
  BY <1>0, <1>4, <1>5, RequestSet
<1>7. AdminRows'
  BY <1>0, <1>1, <1>5, <1>6 DEF AdminRows
<1>8. Pending' = Pending \cup {r} /\ r \notin Pending
  BY <1>0, <1>5, <1>6 DEF Pending, SettingsSteps
<1>9. SessionsInv'
  <2>1. IsFiniteSet(Pending) /\ Cardinality(Pending) \in Nat /\ history.revocations \in Nat
    BY <1>0, FS_CardinalityType DEF AdminInv, SessionsInv, History
  <2>2. IsFiniteSet(Pending') /\ Cardinality(Pending') = Cardinality(Pending) + 1
    BY <1>8, <2>1, FS_AddElement
  <2>3. attempt.failures \in Nat /\ attempt.failures <= adminOps
    BY DEF AdminInv, AdminRows, SessionsInv
  <2>4. \A q \in Requests : req'[q].pc = "token" => req'[q].overlap \/ req'[q].pw = settings'.hash
    BY <1>0, <1>5, <1>6 DEF AdminInv, SessionsInv
  <2> QED BY <1>0, <1>1, <2>1, <2>2, <2>3, <2>4 DEF AdminInv, SessionsInv
<1>10. SessionsRevoked'
  <2>1. \A q \in Requests : req[q].pc = "bump" => req'[q].pc = "bump"
    BY <1>0, <1>6
  <2> QED BY <1>0, <2>1 DEF AdminInv, SessionsRevoked, Valid
<1>11. "settings" \notin history'.raced => SettingsAlone'
  BY <1>0, <1>2, <1>5, <1>6 DEF AdminInv, SettingsAlone
<1>12. SubUntouched' => SubAlone'
  BY <1>0, <1>5, <1>6, SubKept DEF SubUntouched
<1> QED BY <1>7, <1>9, <1>10, <1>11, <1>12 DEF AdminInv

LEMMA PutBumped ==
    ASSUME AdminInv, NEW r \in Requests, PutBumps(r)
    PROVE  AdminInv'
<1>0. /\ AdminRows /\ UNCHANGED <<sub, cookies, attempt, adminOps>> /\ settings' = Bumped /\ history' = Revoked
      /\ req[r].pc = "bump" /\ req' = [req EXCEPT ![r] = NoReq] /\ adminOps \in Nat
  BY AdminAssumption DEF AdminInv, AdminRows, PutBumps, PasswordBumped
<1>1. /\ req' \in [Requests -> AdminRequests] /\ \A q \in Requests \ {r} : req'[q] = req[q]
      /\ req'[r].pc = "none" /\ req'[r].before = NoSub
  BY <1>0, RequestSet, NoReqTyped
<1>2. /\ settings' \in SettingsRow /\ history' \in History
      /\ settings'.hash = settings.hash /\ settings'.migrated = settings.migrated
      /\ settings'.version = 1 + history'.revocations
      /\ history'.revocations = history.revocations + 1 /\ history.revocations \in Nat
      /\ history'.sub = history.sub /\ history'.hash = history.hash
      /\ history'.raced = history.raced /\ history'.migrations = history.migrations
      /\ history'.half = history.half \ {"settings"}
      /\ \A c \in cookies : c.version \in {0, 1 + c.at} /\ c.at <= history'.revocations
      /\ SessionsRevoked'
  BY <1>0, AllEnded
<1>3. AdminRows'
  BY <1>0, <1>1, <1>2 DEF AdminRows
<1>4. Pending' = Pending \ {r} /\ r \in Pending
  BY <1>0, <1>1 DEF Pending, SettingsSteps
<1>5. SessionsInv'
  <2>1. /\ IsFiniteSet(Pending) /\ Cardinality(Pending) \in Nat
        /\ attempt.failures \in Nat /\ attempt.failures <= adminOps
        /\ history.revocations + Cardinality(Pending) <= adminOps
    BY FS_CardinalityType DEF AdminInv, AdminRows, SessionsInv
  <2>2. IsFiniteSet(Pending') /\ Cardinality(Pending') = Cardinality(Pending) - 1
    BY <1>4, <2>1, FS_RemoveElement
  <2>3. \A q \in Requests : req'[q].pc = "token" => req'[q].overlap \/ req'[q].pw = settings'.hash
    BY <1>1, <1>2 DEF AdminInv, SessionsInv
  <2> QED BY <1>0, <1>2, <2>1, <2>2, <2>3 DEF SessionsInv
<1>6. "settings" \notin history'.raced => SettingsAlone'
  BY <1>1, <1>2 DEF AdminInv, SettingsAlone
<1>7. SubUntouched' => SubAlone'
  BY <1>0, <1>1, <1>2, SubKept DEF SubUntouched
<1> QED BY <1>2, <1>3, <1>5, <1>6, <1>7 DEF AdminInv

LEMMA PutSaved ==
    ASSUME AdminInv, NEW r \in Requests, PutSaves(r)
    PROVE  AdminInv'
<1>0. /\ AdminRows /\ UNCHANGED <<sub, cookies, attempt, adminOps>> /\ req[r].pc = "put"
      /\ settings \in SettingsRow /\ history \in History /\ req[r] \in AdminRequests
      /\ req[r].settings \in SettingsRow /\ req[r].pw \in Passwords \cup {0} /\ history.hash \in Passwords
      /\ 0 \notin Passwords /\ adminOps \in Nat
  BY AdminAssumption DEF AdminInv, AdminRows, PutSaves, AdminRequests, History
<1>1. /\ settings' \in SettingsRow /\ settings'.version = settings.version
      /\ settings'.hash = req[r].settings.hash /\ settings'.migrated = req[r].settings.migrated
  BY <1>0 DEF PutSaves, SavedSettings, SettingsRow
<1>2. /\ history' \in History /\ history'.sub = history.sub
      /\ history'.revocations = history.revocations /\ history'.migrations = history.migrations
      /\ history'.hash = (IF req[r].pw = 0 THEN history.hash ELSE req[r].pw)
      /\ history'.half = history.half /\ ("sub" \in history.raced <=> "sub" \in history'.raced)
      /\ "settings" \notin history'.raced => "settings" \notin history.raced /\ ~Others(r, SettingsSteps)
  <2>1. Raced(r, "settings", SettingsSteps) \in SUBSET {"settings", "sub"}
    BY <1>0 DEF Raced, History
  <2>2. history' = [history EXCEPT !.hash = IF req[r].pw = 0 THEN @ ELSE req[r].pw,
                                   !.raced = Raced(r, "settings", SettingsSteps)]
    BY DEF PutSaves
  <2>3. /\ history' \in History /\ history'.sub = history.sub
        /\ history'.revocations = history.revocations /\ history'.migrations = history.migrations
        /\ history'.hash = (IF req[r].pw = 0 THEN history.hash ELSE req[r].pw)
        /\ history'.raced = Raced(r, "settings", SettingsSteps) /\ history'.half = history.half
    BY <1>0, <2>1, <2>2 DEF History
  <2> QED BY <2>3 DEF Raced
<1>3. /\ req' \in [Requests -> AdminRequests]
      /\ \A q \in Requests \ {r} : \/ req'[q] = req[q] /\ req[q].pc # "token"
                                   \/ req'[q].pc = "token" /\ req[q].pc = "token" /\ req'[q].overlap
                                      /\ req'[q].before = req[q].before /\ req'[q].pw = req[q].pw
      /\ IF req[r].pw = 0 THEN req'[r] = NoReq
         ELSE req'[r].pc = "bump" /\ req'[r].before = req[r].before
  <2>1. LoginsOverlap \in [Requests -> AdminRequests]
    <3>1. ASSUME NEW q \in Requests PROVE req[q] \in AdminRequests /\ [req[q] EXCEPT !.overlap = TRUE] \in AdminRequests
      BY <1>0 DEF AdminRows, AdminRequests
    <3> QED BY <3>1 DEF LoginsOverlap
  <2>2. ASSUME NEW q \in Requests
        PROVE  \/ LoginsOverlap[q] = req[q] /\ req[q].pc # "token"
               \/ LoginsOverlap[q].pc = "token" /\ req[q].pc = "token" /\ LoginsOverlap[q].overlap
                  /\ LoginsOverlap[q].before = req[q].before /\ LoginsOverlap[q].pw = req[q].pw
    <3>1. req[q] \in AdminRequests
      BY <1>0 DEF AdminRows
    <3> QED BY <3>1 DEF LoginsOverlap, AdminRequests
  <2>3. LoginsOverlap[r] = req[r]
    BY <1>0, <2>2
  <2> DEFINE x == IF req[r].pw = 0 THEN NoReq ELSE [req[r] EXCEPT !.pc = "bump"]
  <2>4. req' = [LoginsOverlap EXCEPT ![r] = x]
    BY <2>1, <2>3 DEF PutSaves
  <2>5. "bump" \in AdminSteps
    BY DEF AdminSteps, SettingsSteps
  <2>6. x \in AdminRequests /\ IF req[r].pw = 0 THEN x = NoReq ELSE x.pc = "bump" /\ x.before = req[r].before
    BY <1>0, <2>5, NoReqTyped DEF AdminRequests
  <2> HIDE DEF x
  <2>7. req' \in [Requests -> AdminRequests] /\ req'[r] = x /\ \A q \in Requests \ {r} : req'[q] = LoginsOverlap[q]
    BY <2>1, <2>4, <2>6
  <2> QED BY <2>2, <2>6, <2>7
<1>4. AdminRows'
  BY <1>0, <1>1, <1>2, <1>3, NoReqTyped DEF AdminRows
<1>5. SessionsInv'
  <2>1. /\ IsFiniteSet(Pending) /\ Cardinality(Pending) \in Nat
        /\ history.revocations + Cardinality(Pending) <= adminOps /\ history.revocations \in Nat
    BY <1>0, FS_CardinalityType DEF AdminInv, SessionsInv, History
  <2>2. Pending' \subseteq Pending
    BY <1>0, <1>3, NoReqTyped DEF Pending, SettingsSteps
  <2>3. IsFiniteSet(Pending') /\ Cardinality(Pending') <= Cardinality(Pending) /\ Cardinality(Pending') \in Nat
    BY <2>1, <2>2, FS_Subset, FS_CardinalityType
  <2>4. \A q \in Requests : req'[q].pc = "token" => req'[q].overlap
    BY <1>3, NoReqTyped
  <2> QED BY <1>0, <1>1, <1>2, <2>1, <2>3, <2>4 DEF AdminInv, SessionsInv
<1>6. "settings" \notin history'.raced => SettingsAlone'
  <2> SUFFICES ASSUME "settings" \notin history'.raced PROVE SettingsAlone'
    OBVIOUS
  <2>1. SettingsAlone /\ \A q \in Requests \ {r} : req[q].pc # "put"
    BY <1>2 DEF AdminInv, Others, SettingsSteps
  <2>2. \A q \in Requests : req'[q].pc # "put"
    BY <1>3, <2>1, NoReqTyped
  <2> QED BY <1>0, <1>1, <1>2, <2>1, <2>2 DEF SettingsAlone
<1>7. SessionsRevoked'
  <2> SUFFICES ASSUME NEW c \in cookies, Valid(c)'
               PROVE  /\ c.at = history'.revocations
                      /\ c.overlap \/ c.pw = settings'.hash
                         \/ \E q \in Requests : req'[q].pc = "bump"
                         \/ "settings" \in history'.raced \cup history'.half
    BY <1>0 DEF SessionsRevoked
  <2>1. /\ c.at = history.revocations
        /\ c.overlap \/ c.pw = settings.hash
           \/ \E q \in Requests : req[q].pc = "bump"
           \/ "settings" \in history.raced \cup history.half
    BY <1>1 DEF AdminInv, SessionsRevoked, Valid
  <2>2. \A q \in Requests : req[q].pc = "bump" => req'[q].pc = "bump"
    BY <1>0, <1>3
  <2>3. CASE req[r].pw # 0
    BY <1>2, <1>3, <2>1, <2>3
  <2>4. CASE req[r].pw = 0
    <3>1. "settings" \notin history'.raced => settings'.hash = settings.hash
      BY <1>0, <1>1, <1>2, <2>4 DEF AdminInv, SettingsAlone
    <3> QED BY <1>2, <2>1, <2>2, <3>1
  <2> QED BY <2>3, <2>4
<1>8. SubUntouched' => SubAlone'
  <2>1. req'[r].pc \in {"none", "bump"}
    BY <1>3, NoReqTyped
  <2> QED BY <1>0, <1>2, <1>3, <2>1, SubKept DEF SubUntouched
<1> QED BY <1>4, <1>5, <1>6, <1>7, <1>8 DEF AdminInv

\* The move to chains writes both rows and may overlap a request for either.
LEMMA Migrated ==
    ASSUME AdminInv, Migrate
    PROVE  AdminInv'
<1>0. /\ AdminRows /\ UNCHANGED <<cookies, attempt, req, adminOps>> /\ ~settings.migrated
      /\ settings \in SettingsRow /\ sub \in SubRow /\ history \in History /\ history.sub \in SubRow
      /\ ~sub.exists => sub = NoSub
      /\ sub' = [sub EXCEPT !.standalone = FALSE]
  BY DEF AdminInv, AdminRows, Migrate, History
<1>1. /\ settings' \in SettingsRow /\ settings'.version = settings.version
      /\ settings'.hash = settings.hash /\ settings'.migrated
  BY <1>0 DEF Migrate, SettingsRow
<1>2. sub' \in SubRow /\ (~sub'.exists => sub' = NoSub)
  <2>1. sub' \in SubRow /\ sub'.exists = sub.exists
    BY <1>0 DEF SubRow
  <2>2. ASSUME ~sub.exists PROVE sub' = NoSub
    <3>1. sub' = [NoSub EXCEPT !.standalone = FALSE]
      BY <1>0, <2>2
    <3> QED BY <3>1 DEF NoSub
  <2> QED BY <2>1, <2>2
<1> DEFINE raced == history.raced \cup (IF \E r \in Requests : req[r].pc \in SubSteps THEN {"sub"} ELSE {})
                                  \cup (IF \E r \in Requests : req[r].pc = "put" THEN {"settings"} ELSE {})
<1>3. /\ history' \in History /\ history'.sub = [history.sub EXCEPT !.standalone = FALSE]
      /\ history'.revocations = history.revocations /\ history'.migrations = history.migrations + 1
      /\ history'.hash = history.hash /\ history'.raced = raced /\ history'.half = history.half
  <2>1. raced \in SUBSET {"settings", "sub"}
    BY <1>0 DEF History
  <2>2. history' = [history EXCEPT !.migrations = @ + 1, !.sub.standalone = FALSE, !.raced = raced]
    BY <1>0 DEF Migrate, History
  <2> HIDE DEF raced
  <2> DEFINE row == [history.sub EXCEPT !.standalone = FALSE]
             n == history.migrations + 1
  <2>3. history' = [history EXCEPT !.migrations = n, !.sub = row, !.raced = raced]
    BY <1>0, <2>2 DEF History
  <2>4. row \in SubRow /\ n \in Nat
    <3>1. row \in SubRow
      BY <1>0 DEF SubRow
    <3>2. history.migrations \in Nat
      BY <1>0 DEF History
    <3> QED BY <3>1, <3>2
  <2> HIDE DEF row, n
  <2>5. /\ history' \in History /\ history'.sub = row /\ history'.migrations = n
        /\ history'.revocations = history.revocations
        /\ history'.hash = history.hash /\ history'.raced = raced /\ history'.half = history.half
    BY <1>0, <2>1, <2>3, <2>4 DEF History
  <2> QED BY <2>5 DEF row, n
<1>4. AdminRows'
  BY <1>0, <1>1, <1>2, <1>3 DEF AdminRows
<1>5. Pending' = Pending
  BY <1>0 DEF Pending
<1>6. SessionsInv'
  BY <1>0, <1>1, <1>3, <1>5 DEF AdminInv, SessionsInv
<1>7. SessionsRevoked'
  BY <1>0, <1>1, <1>3 DEF AdminInv, SessionsRevoked, Valid
<1>8. "settings" \notin history'.raced => SettingsAlone'
  <2> SUFFICES ASSUME "settings" \notin history'.raced PROVE SettingsAlone'
    OBVIOUS
  <2>1. SettingsAlone /\ \A r \in Requests : req[r].pc # "put"
    BY <1>3 DEF AdminInv
  <2>2. settings'.hash = history'.hash
    BY <1>1, <1>3, <2>1 DEF SettingsAlone
  <2>3. history'.migrations = 1
    BY <1>0, <1>3, <2>1 DEF SettingsAlone
  <2>4. history'.migrations = IF settings'.migrated THEN 1 ELSE 0
    BY <1>1, <2>3
  <2>5. \A r \in Requests : req'[r].pc # "put"
    BY <1>0, <2>1
  <2> QED BY <2>2, <2>4, <2>5 DEF SettingsAlone
<1>9. SubUntouched' => SubAlone'
  <2> SUFFICES ASSUME SubUntouched' PROVE SubAlone'
    OBVIOUS
  <2>1. SubAlone /\ \A r \in Requests : req[r].pc \notin SubSteps
    BY <1>3 DEF AdminInv, SubUntouched
  <2>2. sub' = history'.sub
    BY <1>0, <1>3, <2>1 DEF SubAlone
  <2> QED BY <1>0, <2>1, <2>2 DEF SubAlone
<1> QED BY <1>4, <1>6, <1>7, <1>8, <1>9 DEF AdminInv

\* A statement of the handler of the settings fails: what was saved stays.
LEMMA PutFailed ==
    ASSUME AdminInv, NEW r \in Requests, PutFails(r) \/ BumpFails(r)
    PROVE  AdminInv'
<1>0. /\ AdminRows /\ UNCHANGED <<settings, sub, cookies, attempt, adminOps>>
      /\ req[r].pc \in SettingsSteps /\ req' = [req EXCEPT ![r] = NoReq]
      /\ history \in History /\ adminOps \in Nat
  BY AdminAssumption DEF AdminInv, AdminRows, PutFails, BumpFails, SettingsSteps
<1>1. /\ req' \in [Requests -> AdminRequests] /\ \A q \in Requests \ {r} : req'[q] = req[q]
      /\ req'[r].pc = "none" /\ req'[r].before = NoSub
  BY <1>0, RequestSet, NoReqTyped
<1>2. /\ history' \in History /\ history'.sub = history.sub /\ history'.hash = history.hash
      /\ history'.revocations = history.revocations /\ history'.migrations = history.migrations
      /\ history'.raced = history.raced /\ history.half \subseteq history'.half
      /\ req[r].pc = "bump" => "settings" \in history'.half
  BY <1>0 DEF PutFails, BumpFails, History
<1>3. AdminRows'
  BY <1>0, <1>1, <1>2 DEF AdminRows
<1>4. SessionsInv'
  <2>1. /\ IsFiniteSet(Pending) /\ Cardinality(Pending) \in Nat /\ history.revocations \in Nat
        /\ history.revocations + Cardinality(Pending) <= adminOps
    BY <1>0, FS_CardinalityType DEF AdminInv, SessionsInv, History
  <2>2. Pending' \subseteq Pending
    BY <1>1 DEF Pending, SettingsSteps
  <2>3. IsFiniteSet(Pending') /\ Cardinality(Pending') <= Cardinality(Pending) /\ Cardinality(Pending') \in Nat
    BY <2>1, <2>2, FS_Subset, FS_CardinalityType
  <2> QED BY <1>0, <1>1, <1>2, <2>1, <2>3 DEF AdminInv, SessionsInv
<1>5. SessionsRevoked'
  <2>1. \A q \in Requests : req[q].pc = "bump" => req'[q].pc = "bump" \/ "settings" \in history'.half
    BY <1>1, <1>2
  <2> QED BY <1>0, <1>2, <2>1 DEF AdminInv, SessionsRevoked, Valid
<1>6. "settings" \notin history'.raced => SettingsAlone'
  BY <1>0, <1>1, <1>2 DEF AdminInv, SettingsAlone
<1>7. SubUntouched' => SubAlone'
  <2>1. SubUntouched' => SubUntouched
    BY <1>2 DEF SubUntouched
  <2> QED BY <1>0, <1>1, <1>2, <2>1, SubKept DEF SettingsSteps
<1> QED BY <1>3, <1>4, <1>5, <1>6, <1>7 DEF AdminInv

LEMMA RollbackFailed ==
    ASSUME AdminInv, NEW r \in Requests, RollbackFails(r)
    PROVE  AdminInv'
<1>0. /\ AdminRows /\ UNCHANGED <<settings, sub, cookies, attempt, adminOps>>
      /\ req[r].pc = "rollback" /\ req' = [req EXCEPT ![r] = NoReq]
      /\ history \in History /\ sub \in SubRow /\ (~sub.exists => sub = NoSub) /\ adminOps \in Nat
  BY AdminAssumption DEF AdminInv, AdminRows, RollbackFails
<1>1. /\ req' \in [Requests -> AdminRequests] /\ \A q \in Requests \ {r} : req'[q] = req[q]
      /\ req'[r].pc = "none" /\ req'[r].before = NoSub
  BY <1>0, RequestSet, NoReqTyped
<1>2. /\ history' \in History /\ history'.sub = history.sub /\ history'.hash = history.hash
      /\ history'.revocations = history.revocations /\ history'.migrations = history.migrations
      /\ history'.raced = history.raced /\ history'.half = history.half \cup {"sub"}
  BY <1>0 DEF RollbackFails, History
<1>3. AdminRows'
  BY <1>0, <1>1, <1>2 DEF AdminRows
<1>4. SessionsInv' /\ SessionsRevoked' /\ ("settings" \notin history'.raced => SettingsAlone')
  <2>1. \A q \in Requests : \/ req'[q] = req[q]
                            \/ /\ req'[q].pc \notin SettingsSteps \cup {"token"}
                               /\ req[q].pc \notin SettingsSteps \cup {"token"}
    BY <1>0, <1>1 DEF SettingsSteps
  <2> QED BY <1>0, <1>2, <2>1, SettingsFrame
<1>5. ~SubUntouched'
  BY <1>2 DEF SubUntouched
<1> QED BY <1>3, <1>4, <1>5 DEF AdminInv

\* The Panel stops: what was half done stays half done.
LEMMA AdminRestarted ==
    ASSUME AdminInv, AdminRestart
    PROVE  AdminInv'
<1>0. /\ AdminRows /\ UNCHANGED <<settings, sub, adminOps>> /\ cookies' \subseteq cookies
      /\ attempt' = [failures |-> 0, locked |-> FALSE]
      /\ history \in History /\ settings \in SettingsRow /\ sub \in SubRow /\ adminOps \in Nat
      /\ history' = [history EXCEPT !.half = @ \cup HalfDone]
  BY AdminAssumption DEF AdminInv, AdminRows, AdminRestart
<1>1. req' \in [Requests -> AdminRequests] /\ \A r \in Requests : req'[r] = NoReq
  BY NoReqTyped DEF AdminRestart
<1>2. HalfDone \subseteq {"settings", "sub"}
  BY DEF HalfDone
<1>3. /\ history' \in History /\ history'.sub = history.sub /\ history'.hash = history.hash
      /\ history'.revocations = history.revocations /\ history'.migrations = history.migrations
      /\ history'.raced = history.raced /\ history'.half = history.half \cup HalfDone
  BY <1>0, <1>2 DEF History
<1>4. attempt' \in [failures : Nat, locked : BOOLEAN] /\ attempt'.failures = 0
  BY <1>0
<1>5. AdminRows'
  BY <1>0, <1>1, <1>3, <1>4, NoReqTyped DEF AdminRows
<1>6. SessionsInv'
  <2>1. Pending' = {}
    BY <1>1, NoReqTyped DEF Pending, SettingsSteps
  <2>2. IsFiniteSet(Pending') /\ Cardinality(Pending') = 0
    BY <2>1, FS_EmptySet
  <2>3. /\ Cardinality(Pending) \in Nat /\ history.revocations \in Nat
        /\ history.revocations + Cardinality(Pending) <= adminOps
    BY <1>0, FS_CardinalityType DEF AdminInv, SessionsInv, History
  <2> QED BY <1>0, <1>1, <1>3, <1>4, <2>2, <2>3, NoReqTyped DEF AdminInv, SessionsInv
<1>7. SessionsRevoked'
  <2>1. (\E r \in Requests : req[r].pc = "bump") => "settings" \in history'.half
    BY <1>3 DEF HalfDone
  <2> QED BY <1>0, <1>3, <2>1 DEF AdminInv, SessionsRevoked, Valid
<1>8. "settings" \notin history'.raced => SettingsAlone'
  BY <1>0, <1>1, <1>3, NoReqTyped DEF AdminInv, SettingsAlone
<1>9. SubUntouched' => SubAlone'
  <2>1. ASSUME SubUntouched' PROVE SubUntouched /\ \A r \in Requests : req[r].pc \notin SubSteps \ {"sub"}
    BY <1>3, <2>1 DEF SubUntouched, HalfDone
  <2>2. \A r \in Requests : req'[r].pc \notin SubSteps
    BY <1>1, NoReqTyped DEF SubSteps
  <2> QED BY <1>0, <1>3, <2>1, <2>2 DEF AdminInv, SubAlone
<1> QED BY <1>5, <1>6, <1>7, <1>8, <1>9 DEF AdminInv

LEMMA AdminStep ==
    ASSUME AdminInv, [AdminNext]_adminVars
    PROVE  AdminInv'
<1>1. ASSUME NEW r \in Requests, NEW pw \in Passwords, LoginBegins(r, pw) \/ PutReads(r, pw)
      PROVE  AdminInv'
  BY <1>1, LoginSteps, PutBegins
<1>2. ASSUME NEW r \in Requests,
             \/ PutReads(r, 0) \/ LoginEnds(r) \/ PutSaves(r) \/ PutBumps(r)
             \/ PutFails(r) \/ BumpFails(r) \/ RollbackFails(r)
             \/ CreateSub(r) \/ SubReads(r) \/ SubWrites(r) \/ SourcesSet(r) \/ SubRollsBack(r)
      PROVE  AdminInv'
  BY <1>2, PutBegins, LoginSteps, PutSaved, PutBumped, PutFailed, RollbackFailed, SubBegins, SubSet
<1>3. CASE Logout \/ LockEnds \/ Migrate \/ DeleteSub \/ AdminRestart
  BY <1>3, LoggedOut, LockEnded, Migrated, SubDeleted, AdminRestarted
<1>4. CASE UNCHANGED adminVars
  <2>1. UNCHANGED <<settings, sub, cookies, attempt, req, adminOps, history>>
    BY <1>4 DEF adminVars
  <2>2. AdminRows' /\ SessionsRevoked' /\ SettingsAlone' = SettingsAlone /\ SubAlone' = SubAlone
    BY <2>1 DEF AdminInv, AdminRows, SessionsRevoked, Valid, SettingsAlone, SubAlone, AloneWithSub, Others
  <2>3. SessionsInv'
    BY <2>1 DEF AdminInv, SessionsInv, Pending
  <2> QED BY <2>1, <2>2, <2>3 DEF AdminInv, SubUntouched
<1> QED BY <1>1, <1>2, <1>3, <1>4 DEF AdminNext

LEMMA AdminSafe == AdminInv => RevokedStaysRevoked
<1> SUFFICES ASSUME AdminInv PROVE AnswersHold
  BY DEF AdminInv, RevokedStaysRevoked
<1>1. (history.migrations <= 1 /\ settings.hash = history.hash) \/ "settings" \in history.raced
  BY DEF AdminInv, SettingsAlone
<1>2. ASSUME "sub" \notin history.raced \cup history.half, \A r \in Requests : req[r].pc \notin SubSteps
      PROVE  sub = history.sub /\ \A t \in 0 .. MaxAdminOps : Served(t) => t = history.sub.token
  BY <1>2 DEF AdminInv, SubAlone, SubUntouched, Served
<1> QED BY <1>1, <1>2 DEF AnswersHold

\* Whatever is asked, fails or stops half way, a session that counts was opened after all
\* sessions were last ended, and with the password that is set, but for a login that was
\* between its two reads when the password changed and for a change of the password that was
\* saved and not followed by the end of all sessions; and unless requests overlapped, or one
\* could not be undone, what the last answered request said of the link of the subscription
\* holds: a token that was replaced and a link that was disabled stay dead
\* (handlers_settings.go, handlers_subscription.go).
THEOREM RevokedAlwaysRevoked == AdminSpec => []RevokedStaysRevoked
<1>1. AdminSpec => []AdminInv
  BY AdminStarts, AdminStep, PTL DEF AdminSpec
<1> QED BY <1>1, AdminSafe, PTL

\* The rows, the cookies and the requests at work keep their types, and no counter passes
\* the number of requests made.
THEOREM AdminTypeCorrect == AdminSpec => []AdminTypeOK
<1>1. AdminSpec => []AdminInv
  BY AdminStarts, AdminStep, PTL DEF AdminSpec
<1> QED BY <1>1, AdminTyped, PTL

(***************************************************************************)
(* The cache of external sources. A fetch whose row nobody edited writes   *)
(* over the very row it read.                                              *)
(***************************************************************************)

SourcesSpec == SourcesInit /\ [][SourcesNext]_sourceVars

SourceCalls == [pc : {"idle", "join", "wait", "fetch", "reread"}, kind : {"none", "client", "refresh", "pass"},
                s : Sources \cup {""}, copy : SourceRow, start : 0 .. MaxTime, edited : BOOLEAN]
SourceEditing == [s : Sources \cup {""}, copy : SourceRow, url : Urls \cup {""}, enabled : BOOLEAN,
                  overtaken : BOOLEAN]
PassCallers == {c \in Callers : caller[c].kind = "pass"}

SourceRows ==
    /\ source \in [Sources -> SourceRow]
    /\ inflight \in [Sources -> Callers \cup {NoCaller}]
    /\ caller \in [Callers -> SourceCalls]
    /\ asked \subseteq Sources /\ pass \in [on : BOOLEAN, due : SUBSET Sources]
    /\ edit \in SourceEditing
    /\ now \in 1 .. MaxTime
    /\ sourceEdits \in 0 .. MaxSourceEdits /\ fetchErrors \in 0 .. MaxFetchErrors

RowsGood ==
    /\ \A s \in Sources : source[s].success <= now /\ (Live(s) => source[s].url # "")
    /\ \A s \in asked \cup pass.due : source[s].at # "new"

PassBounded == IsFiniteSet(PassCallers) /\ Cardinality(PassCallers) <= Concurrency

\* The copy an edit will write back is the row, unless a refresh has ended since it was read.
EditGood == edit # NoEdit =>
    /\ edit.s \in Sources /\ edit.url # "" /\ edit.copy.at = "live" /\ edit.copy.success <= now
    /\ source[edit.s].at # "new"
    /\ ~edit.overtaken /\ Live(edit.s) => source[edit.s] = edit.copy

\* The copy of the one who fetches is the row, unless it was edited since.
CallerGood(c) ==
    /\ caller[c].pc = "idle" => caller[c].s = ""
    /\ caller[c].pc # "idle" => caller[c].s \in Sources /\ source[caller[c].s].at # "new"
    /\ caller[c].pc = "wait" => inflight[caller[c].s] \in Callers \ {c}
    /\ caller[c].pc = "fetch" =>
           /\ inflight[caller[c].s] = c /\ caller[c].start <= now
           /\ caller[c].copy.success <= caller[c].start /\ caller[c].copy.url # ""
           /\ caller[c].edited \/ source[caller[c].s] = caller[c].copy
    /\ caller[c].pc = "reread" /\ ~caller[c].edited => source[caller[c].s].body # ""

\* Who refreshes a source; and no fetch of an older row is under way for a client that rereads.
FetchersKnown ==
    /\ \A s \in Sources : inflight[s] # NoCaller =>
           inflight[s] \in Callers /\ caller[inflight[s]].pc = "fetch" /\ caller[inflight[s]].s = s
    /\ \A c, d \in Callers :
           caller[c].pc = "reread" /\ ~caller[c].edited /\ caller[d].pc = "fetch" /\ caller[d].s = caller[c].s =>
               ~caller[d].edited

CallersGood == (\A c \in Callers : CallerGood(c)) /\ FetchersKnown

SourcesInv == SourceRows /\ RowsGood /\ PassBounded /\ EditGood /\ CallersGood

LEMMA SourceBounds ==
    /\ MaxTime \in Nat \ {0} /\ Concurrency \in Nat \ {0} /\ TTL \in Nat \ {0} /\ Grace \in Nat
    /\ MaxSourceEdits \in Nat /\ MaxFetchErrors \in Nat
    /\ "" \notin Urls /\ "" \notin Sources /\ NoCaller \notin Callers
BY SourcesAssumption

LEMMA IdleTyped ==
    /\ NoSource \in SourceRow /\ NoSource.success = 0 /\ NoSource.at = "new"
    /\ Idle \in SourceCalls /\ Idle.pc = "idle" /\ Idle.s = "" /\ Idle.kind = "none" /\ ~Idle.edited
    /\ NoEdit \in SourceEditing /\ NoEdit.s = ""
<1>0. MaxTime \in Nat
  BY SourceBounds
<1>1. NoSource \in SourceRow
  BY <1>0 DEF NoSource, SourceRow
<1>2. Idle \in SourceCalls /\ NoEdit \in SourceEditing
  BY <1>0, <1>1 DEF Idle, NoEdit, SourceCalls, SourceEditing
<1> QED BY <1>1, <1>2 DEF NoSource, Idle, NoEdit

LEMMA SourcesTyped == SourcesInv => SourcesTypeOK
<1> SUFFICES ASSUME SourcesInv PROVE SourcesTypeOK
  OBVIOUS
<1>1. ASSUME NEW c \in Callers
      PROVE  /\ caller[c].pc \in {"idle", "join", "wait", "fetch", "reread"}
             /\ caller[c].kind \in {"none", "client", "refresh", "pass"}
             /\ caller[c].pc = "wait" => inflight[caller[c].s] \in Callers \ {c}
  BY DEF SourcesInv, SourceRows, SourceCalls, CallersGood, CallerGood
<1>2. ASSUME NEW s \in Sources, NEW c \in Callers
      PROVE  (inflight[s] = c) <=> (caller[c].pc = "fetch" /\ caller[c].s = s)
  <2>1. NoCaller # c
    BY SourceBounds
  <2>2. ASSUME inflight[s] = c PROVE caller[c].pc = "fetch" /\ caller[c].s = s
    BY <2>1, <2>2 DEF SourcesInv, CallersGood, FetchersKnown
  <2>3. ASSUME caller[c].pc = "fetch", caller[c].s = s PROVE inflight[s] = c
    BY <2>3 DEF SourcesInv, CallersGood, CallerGood
  <2> QED BY <2>2, <2>3
<1>3. Cardinality({c \in Callers : caller[c].kind = "pass"}) <= Concurrency
  BY DEF SourcesInv, PassBounded, PassCallers
<1> QED BY <1>1, <1>2, <1>3 DEF SourcesInv, SourceRows, SourcesTypeOK

LEMMA SourcesStart == SourcesInit => SourcesInv
<1> SUFFICES ASSUME SourcesInit PROVE SourcesInv
  OBVIOUS
<1>1. /\ MaxTime \in Nat \ {0} /\ Concurrency \in Nat \ {0}
      /\ MaxSourceEdits \in Nat /\ MaxFetchErrors \in Nat
  BY SourceBounds
<1>2. \A c \in Callers : caller[c] = Idle
  BY DEF SourcesInit
<1>3. \A s \in Sources : source[s] = NoSource /\ inflight[s] = NoCaller
  BY DEF SourcesInit
<1>4. SourceRows
  <2>1. source \in [Sources -> SourceRow] /\ caller \in [Callers -> SourceCalls] /\ edit \in SourceEditing
    BY IdleTyped DEF SourcesInit
  <2>2. /\ inflight \in [Sources -> Callers \cup {NoCaller}] /\ asked \subseteq Sources
        /\ pass \in [on : BOOLEAN, due : SUBSET Sources]
    BY DEF SourcesInit
  <2>3. now \in 1 .. MaxTime /\ sourceEdits \in 0 .. MaxSourceEdits /\ fetchErrors \in 0 .. MaxFetchErrors
    BY <1>1 DEF SourcesInit
  <2> QED BY <2>1, <2>2, <2>3 DEF SourceRows
<1>5. RowsGood
  <2>1. asked = {} /\ pass.due = {} /\ now = 1
    BY DEF SourcesInit
  <2>2. ASSUME NEW s \in Sources PROVE source[s].success <= now /\ ~Live(s)
    <3>1. source[s].success = 0 /\ source[s].at = "new"
      BY <1>3, IdleTyped
    <3> QED BY <2>1, <3>1 DEF Live
  <2> QED BY <2>1, <2>2 DEF RowsGood
<1>6. PassCallers = {}
  BY <1>2, IdleTyped DEF PassCallers
<1>7. PassBounded
  BY <1>1, <1>6, FS_EmptySet DEF PassBounded
<1>8. EditGood /\ CallersGood
  BY <1>2, <1>3, IdleTyped DEF SourcesInit, EditGood, CallersGood, CallerGood, FetchersKnown
<1> QED BY <1>4, <1>5, <1>7, <1>8 DEF SourcesInv

\* What a step does to one caller.
LEMMA CallerSet ==
    ASSUME SourceRows, NEW c \in Callers, NEW x \in SourceCalls, caller' = [caller EXCEPT ![c] = x]
    PROVE  caller' \in [Callers -> SourceCalls] /\ caller'[c] = x /\ \A d \in Callers \ {c} : caller'[d] = caller[d]
BY DEF SourceRows

\* A pass ends nowhere but with its callers.
LEMMA PassKept ==
    ASSUME PassBounded, PassCallers' \subseteq PassCallers
    PROVE  PassBounded'
<1>1. Concurrency \in Nat /\ Cardinality(PassCallers) \in Nat
  BY SourceBounds, FS_CardinalityType DEF PassBounded
<1>2. IsFiniteSet(PassCallers') /\ Cardinality(PassCallers') <= Cardinality(PassCallers)
  BY FS_Subset DEF PassBounded
<1>3. Cardinality(PassCallers') \in Nat
  BY <1>2, FS_CardinalityType
<1> QED BY <1>1, <1>2, <1>3 DEF PassBounded

\* A goroutine begins with a source: it has read nothing yet.
LEMMA StartSet ==
    ASSUME SourceRows, NEW c \in Callers, NEW s \in Sources, NEW kind \in {"client", "refresh", "pass"},
           Start(c, s, "join", kind)
    PROVE  /\ caller' \in [Callers -> SourceCalls] /\ \A d \in Callers \ {c} : caller'[d] = caller[d]
           /\ caller'[c].pc = "join" /\ caller'[c].kind = kind /\ caller'[c].s = s
<1> DEFINE x == [Idle EXCEPT !.pc = "join", !.kind = kind, !.s = s]
<1>1. x \in SourceCalls /\ x.pc = "join" /\ x.kind = kind /\ x.s = s
  BY IdleTyped DEF SourceCalls
<1>2. caller' = [caller EXCEPT ![c] = x]
  BY DEF Start
<1> HIDE DEF x
<1> QED BY <1>1, <1>2, CallerSet

LEMMA StartKeeps ==
    ASSUME SourcesInv, NEW c \in Callers, NEW s \in Sources, NEW kind \in {"client", "refresh", "pass"},
           caller[c].pc = "idle", Start(c, s, "join", kind), UNCHANGED <<inflight, now>>,
           source'[s].at # "new", \A t \in Sources : source'[t] = source[t] \/ source[t].at = "new"
    PROVE  CallersGood' /\ caller' \in [Callers -> SourceCalls]
<1>1. /\ caller' \in [Callers -> SourceCalls] /\ \A d \in Callers \ {c} : caller'[d] = caller[d]
      /\ caller'[c].pc = "join" /\ caller'[c].s = s
  BY StartSet DEF SourcesInv
<1>2. ASSUME NEW d \in Callers, d # c
      PROVE  CallerGood(d)'
  <2>1. caller'[d] = caller[d] /\ CallerGood(d)
    BY <1>1, <1>2 DEF SourcesInv, CallersGood
  <2>2. ASSUME caller[d].pc # "idle" PROVE caller[d].s \in Sources /\ source'[caller[d].s] = source[caller[d].s]
    BY <2>1, <2>2 DEF CallerGood
  <2> QED BY <2>1, <2>2 DEF CallerGood
<1>3. CallerGood(c)'
  BY <1>1 DEF CallerGood
<1>4. FetchersKnown'
  BY <1>1 DEF SourcesInv, CallersGood, FetchersKnown
<1> QED BY <1>1, <1>2, <1>3, <1>4 DEF CallersGood

\* The steps that begin with a source and leave its row alone.
LEMMA SourceBegins ==
    ASSUME SourcesInv, NEW c \in Callers, NEW s \in Sources,
           Serve(c, s) \/ AskedRuns(c, s) \/ OperatorRefreshes(c, s) \/ PassStarts(c, s)
    PROVE  SourcesInv'
<1>0. /\ SourceRows /\ caller[c].pc = "idle" /\ UNCHANGED <<source, inflight, edit, now, sourceEdits, fetchErrors>>
      /\ asked \subseteq Sources /\ pass \in [on : BOOLEAN, due : SUBSET Sources]
  BY DEF SourcesInv, SourceRows, Serve, AskedRuns, OperatorRefreshes, PassStarts
<1>1. /\ asked' \subseteq Sources /\ pass' \in [on : BOOLEAN, due : SUBSET Sources]
      /\ \A t \in asked' \cup pass'.due : source[t].at # "new"
      /\ source[s].at # "new"
  <2>1. \A t \in asked \cup pass.due : source[t].at # "new"
    BY DEF SourcesInv, RowsGood
  <2>2. CASE Serve(c, s)
    BY <1>0, <2>1, <2>2 DEF Serve, Live
  <2>3. CASE AskedRuns(c, s)
    BY <1>0, <2>1, <2>3 DEF AskedRuns
  <2>4. CASE OperatorRefreshes(c, s)
    BY <1>0, <2>1, <2>4 DEF OperatorRefreshes, Live
  <2>5. CASE PassStarts(c, s)
    BY <1>0, <2>1, <2>5 DEF PassStarts
  <2> QED BY <2>2, <2>3, <2>4, <2>5
<1>2. \/ UNCHANGED caller
      \/ Start(c, s, "join", "client") \/ Start(c, s, "join", "refresh")
      \/ Start(c, s, "join", "pass") /\ Cardinality(PassCallers) < Concurrency
  BY DEF Serve, AskedRuns, OperatorRefreshes, PassStarts, PassCallers
<1>3. CallersGood' /\ caller' \in [Callers -> SourceCalls]
  <2>1. CASE UNCHANGED caller
    BY <1>0, <2>1 DEF SourcesInv, SourceRows, CallersGood, CallerGood, FetchersKnown
  <2>2. CASE \E kind \in {"client", "refresh", "pass"} : Start(c, s, "join", kind)
    BY <1>0, <1>1, <2>2, StartKeeps
  <2> QED BY <1>2, <2>1, <2>2
<1>4. PassBounded'
  <2>1. CASE UNCHANGED caller
    BY <2>1, PassKept DEF SourcesInv, PassCallers
  <2>2. CASE Start(c, s, "join", "client") \/ Start(c, s, "join", "refresh")
    <3>1. caller'[c].kind # "pass" /\ \A d \in Callers \ {c} : caller'[d] = caller[d]
      BY <1>0, <2>2, StartSet
    <3> QED BY <3>1, PassKept DEF SourcesInv, PassCallers
  <2>3. CASE Start(c, s, "join", "pass") /\ Cardinality(PassCallers) < Concurrency
    <3>1. caller'[c].kind = "pass" /\ \A d \in Callers \ {c} : caller'[d] = caller[d]
      BY <1>0, <2>3, StartSet
    <3>2. PassCallers' = PassCallers \cup {c}
      BY <3>1 DEF PassCallers
    <3>3. IsFiniteSet(PassCallers) /\ Cardinality(PassCallers) \in Nat /\ Concurrency \in Nat
      BY FS_CardinalityType, SourceBounds DEF SourcesInv, PassBounded
    <3>4. /\ IsFiniteSet(PassCallers')
          /\ Cardinality(PassCallers') = Cardinality(PassCallers) \/ Cardinality(PassCallers') = Cardinality(PassCallers) + 1
      BY <3>2, <3>3, FS_AddElement
    <3> QED BY <2>3, <3>3, <3>4 DEF PassBounded
  <2> QED BY <1>2, <2>1, <2>2, <2>3
<1>5. SourceRows' /\ RowsGood' /\ EditGood'
  BY <1>0, <1>1, <1>3 DEF SourcesInv, SourceRows, RowsGood, EditGood, Live
<1> QED BY <1>3, <1>4, <1>5 DEF SourcesInv

LEMMA SourceCreated ==
    ASSUME SourcesInv, NEW c \in Callers, NEW s \in Sources, NEW u \in Urls, NEW enabled \in BOOLEAN,
           CreateSource(c, s, u, enabled)
    PROVE  SourcesInv'
<1> DEFINE row == [NoSource EXCEPT !.at = "live", !.url = u, !.enabled = enabled]
<1>0. /\ SourceRows /\ source[s].at = "new" /\ caller[c].pc = "idle"
      /\ UNCHANGED <<inflight, asked, pass, edit, now, sourceEdits, fetchErrors>>
      /\ source' = [source EXCEPT ![s] = row]
      /\ IF enabled THEN Start(c, s, "join", "refresh") ELSE UNCHANGED caller
  BY DEF SourcesInv, CreateSource
<1>1. row \in SourceRow /\ row.at = "live" /\ row.url = u /\ row.success = 0
  BY IdleTyped DEF SourceRow
<1> HIDE DEF row
<1>2. source' \in [Sources -> SourceRow] /\ source'[s] = row /\ \A t \in Sources \ {s} : source'[t] = source[t]
  BY <1>0, <1>1 DEF SourceRows
<1>3. CallersGood' /\ caller' \in [Callers -> SourceCalls] /\ PassCallers' \subseteq PassCallers
  <2>1. CASE enabled
    <3>1. Start(c, s, "join", "refresh")
      BY <1>0, <2>1
    <3>2. caller'[c].kind # "pass" /\ \A d \in Callers \ {c} : caller'[d] = caller[d]
      BY <1>0, <3>1, StartSet
    <3> QED BY <1>0, <1>1, <1>2, <3>1, <3>2, StartKeeps DEF PassCallers
  <2>2. CASE ~enabled
    <3>1. UNCHANGED caller
      BY <1>0, <2>2
    <3>2. ASSUME NEW d \in Callers PROVE CallerGood(d)'
      <4>1. CallerGood(d)
        BY DEF SourcesInv, CallersGood
      <4>2. ASSUME caller[d].pc # "idle" PROVE caller[d].s \in Sources /\ source'[caller[d].s] = source[caller[d].s]
        BY <1>0, <1>2, <4>1, <4>2 DEF CallerGood
      <4> QED BY <1>0, <3>1, <4>1, <4>2 DEF CallerGood
    <3>3. FetchersKnown'
      BY <1>0, <3>1 DEF SourcesInv, CallersGood, FetchersKnown
    <3> QED BY <1>0, <3>1, <3>2, <3>3 DEF CallersGood, PassCallers, SourceRows
  <2> QED BY <2>1, <2>2
<1>4. PassBounded'
  BY <1>3, PassKept DEF SourcesInv
<1>5. SourceRows'
  BY <1>0, <1>2, <1>3 DEF SourceRows
<1>6. RowsGood'
  <2>1. u # "" /\ now \in Nat
    <3>1. now \in 1 .. MaxTime
      BY <1>0 DEF SourceRows
    <3>2. MaxTime \in Nat
      BY SourceBounds
    <3>3. now \in Nat
      BY <3>1, <3>2
    <3> QED BY <3>3, SourceBounds
  <2>2. source'[s].success <= now' /\ (Live(s)' => source'[s].url # "") /\ source'[s].at # "new"
    <3>1. source'[s].success = 0 /\ source'[s].url = u /\ source'[s].at = "live"
      BY <1>1, <1>2
    <3>2. now' = now
      BY <1>0
    <3>3. now \in Nat
      BY <2>1
    <3>4. 0 <= now
      BY <3>3
    <3> QED BY <2>1, <3>1, <3>2, <3>3, <3>4
  <2>3. ASSUME NEW t \in Sources PROVE source'[t].success <= now' /\ (Live(t)' => source'[t].url # "")
    BY <1>0, <1>2, <2>2 DEF SourcesInv, RowsGood, Live
  <2>4. ASSUME NEW t \in asked' \cup pass'.due PROVE source'[t].at # "new"
    <3>1. t \in Sources /\ source[t].at # "new"
      BY <1>0 DEF SourcesInv, RowsGood, SourceRows
    <3> QED BY <1>0, <1>2, <3>1
  <2> QED BY <2>3, <2>4 DEF RowsGood
<1>7. EditGood'
  BY <1>0, <1>1, <1>2 DEF SourcesInv, EditGood, Live
<1> QED BY <1>3, <1>4, <1>5, <1>6, <1>7 DEF SourcesInv

\* The first goroutine for a source fetches it with a copy of its row; the others wait for it.
LEMMA SourceJoined ==
    ASSUME SourcesInv, NEW c \in Callers, Join(c)
    PROVE  SourcesInv'
<1> DEFINE s == caller[c].s
<1>0. /\ SourceRows /\ RowsGood /\ CallerGood(c) /\ FetchersKnown /\ caller[c].pc = "join" /\ caller[c] \in SourceCalls
      /\ s \in Sources /\ source[s].at # "new" /\ source[s] \in SourceRow
      /\ now \in 1 .. MaxTime /\ MaxTime \in Nat
      /\ UNCHANGED <<source, asked, pass, edit, now, sourceEdits, fetchErrors>>
  <2>1. SourceRows /\ RowsGood /\ CallerGood(c) /\ FetchersKnown /\ caller[c].pc = "join"
    BY DEF SourcesInv, CallersGood, Join
  <2>2. s \in Sources /\ source[s].at # "new"
    BY <2>1 DEF CallerGood
  <2> QED BY <2>1, <2>2, SourceBounds DEF SourceRows, Join
<1>1. /\ inflight' \in [Sources -> Callers \cup {NoCaller}] /\ caller' \in [Callers -> SourceCalls]
      /\ \A d \in Callers \ {c} : caller'[d] = caller[d]
      /\ caller'[c].kind \in {caller[c].kind, "none"}
      /\ \/ /\ UNCHANGED inflight /\ inflight[s] # NoCaller /\ caller'[c].pc = "wait" /\ caller'[c].s = s
         \/ /\ inflight[s] = NoCaller /\ inflight' = [inflight EXCEPT ![s] = c] /\ Live(s)
            /\ caller'[c].pc = "fetch" /\ caller'[c].s = s /\ caller'[c].copy = source[s]
            /\ caller'[c].start = now /\ ~caller'[c].edited
         \/ UNCHANGED inflight /\ caller'[c] = Idle
  <2>1. CASE Coalesces(c) /\ caller' = [caller EXCEPT ![c].pc = "wait"] /\ UNCHANGED inflight
    <3>1. caller' = [caller EXCEPT ![c] = [caller[c] EXCEPT !.pc = "wait"]]
      BY <2>1
    <3>2. [caller[c] EXCEPT !.pc = "wait"] \in SourceCalls
      BY <1>0 DEF SourceCalls
    <3>3. /\ caller' \in [Callers -> SourceCalls] /\ caller'[c] = [caller[c] EXCEPT !.pc = "wait"]
          /\ \A d \in Callers \ {c} : caller'[d] = caller[d]
      BY <1>0, <3>1, <3>2, CallerSet
    <3>4. caller'[c].pc = "wait" /\ caller'[c].s = s /\ caller'[c].kind = caller[c].kind
      BY <1>0, <3>3 DEF SourceCalls
    <3> QED BY <1>0, <2>1, <3>3, <3>4 DEF SourceRows, Coalesces
  <2>2. CASE /\ ~Coalesces(c) /\ Live(s) /\ inflight' = [inflight EXCEPT ![s] = c]
             /\ caller' = [caller EXCEPT ![c].pc = "fetch", ![c].copy = source[s], ![c].start = now, ![c].edited = FALSE]
    <3> DEFINE x == [caller[c] EXCEPT !.pc = "fetch", !.copy = source[s], !.start = now, !.edited = FALSE]
    <3>1. caller' = [caller EXCEPT ![c] = x]
      BY <1>0, <2>2 DEF SourceRows
    <3>2. /\ x \in SourceCalls /\ x.pc = "fetch" /\ x.s = s /\ x.copy = source[s] /\ x.start = now
          /\ x.edited = FALSE /\ x.kind = caller[c].kind
      <4>1. now \in 0 .. MaxTime
        BY <1>0
      <4>2. x \in SourceCalls
        BY <1>0, <4>1 DEF SourceCalls
      <4>3. x.pc = "fetch" /\ x.s = s /\ x.kind = caller[c].kind
        BY <1>0 DEF SourceCalls
      <4>4. x.copy = source[s] /\ x.start = now /\ x.edited = FALSE
        BY <1>0 DEF SourceCalls
      <4> QED BY <4>2, <4>3, <4>4
    <3> HIDE DEF x
    <3>3. /\ caller' \in [Callers -> SourceCalls] /\ caller'[c] = x
          /\ \A d \in Callers \ {c} : caller'[d] = caller[d]
      BY <1>0, <3>1, <3>2, CallerSet
    <3> QED BY <1>0, <2>2, <3>2, <3>3 DEF SourceRows, Coalesces
  <2>3. CASE caller' = [caller EXCEPT ![c] = Idle] /\ UNCHANGED inflight
    <3>1. /\ caller' \in [Callers -> SourceCalls] /\ caller'[c] = Idle
          /\ \A d \in Callers \ {c} : caller'[d] = caller[d]
      BY <1>0, <2>3, CallerSet, IdleTyped
    <3> QED BY <1>0, <2>3, <3>1, IdleTyped DEF SourceRows
  <2> QED BY <2>1, <2>2, <2>3 DEF Join
<1> HIDE DEF s
<1>2. ASSUME NEW d \in Callers PROVE CallerGood(d)'
  <2>1. CASE d # c
    <3>1. caller'[d] = caller[d] /\ CallerGood(d)
      BY <1>1, <2>1 DEF SourcesInv, CallersGood
    <3>2. ASSUME caller[d].pc \in {"wait", "fetch"} PROVE inflight'[caller[d].s] = inflight[caller[d].s]
      <4>1. caller[d].s \in Sources /\ inflight[caller[d].s] # NoCaller
        BY <3>1, <3>2, SourceBounds DEF CallerGood
      <4> QED BY <1>0, <1>1, <4>1 DEF SourceRows
    <3> QED BY <1>0, <3>1, <3>2 DEF CallerGood
  <2>2. CASE d = c
    <3>1. CASE /\ UNCHANGED inflight /\ inflight[s] # NoCaller /\ caller'[c].pc = "wait" /\ caller'[c].s = s
      BY <1>0, <2>2, <3>1 DEF FetchersKnown, CallerGood
    <3>2. CASE /\ inflight' = [inflight EXCEPT ![s] = c] /\ Live(s)
               /\ caller'[c].pc = "fetch" /\ caller'[c].s = s /\ caller'[c].copy = source[s]
               /\ caller'[c].start = now /\ ~caller'[c].edited
      <4>1. source[s].success <= now /\ source[s].url # ""
        BY <1>0, <3>2 DEF RowsGood
      <4>2. inflight'[s] = c
        BY <1>0, <3>2 DEF SourceRows
      <4>3. /\ source'[s].at # "new" /\ inflight'[s] = c /\ source'[s] = source[s]
            /\ source[s].success <= now' /\ now <= now'
        <5>1. source' = source /\ now' = now /\ now \in Nat
          BY <1>0
        <5>2. now <= now
          BY <5>1
        <5> QED BY <1>0, <4>1, <4>2, <5>1, <5>2
      <4> QED BY <1>0, <2>2, <3>2, <4>1, <4>3 DEF CallerGood
    <3>3. CASE caller'[c] = Idle
      BY <2>2, <3>3, IdleTyped DEF CallerGood
    <3> QED BY <1>1, <3>1, <3>2, <3>3
  <2> QED BY <2>1, <2>2
<1>3. FetchersKnown'
  <2>1. CASE UNCHANGED inflight /\ caller'[c].pc \in {"wait", "idle"}
    BY <1>0, <1>1, <2>1 DEF FetchersKnown
  <2>2. CASE /\ inflight' = [inflight EXCEPT ![s] = c] /\ caller'[c].pc = "fetch" /\ caller'[c].s = s
             /\ ~caller'[c].edited
    BY <1>0, <1>1, <2>2 DEF FetchersKnown, SourceRows
  <2> QED BY <1>1, <2>1, <2>2, IdleTyped
<1>4. PassBounded'
  BY <1>1, PassKept DEF SourcesInv, PassCallers
<1>5. SourceRows' /\ RowsGood' /\ EditGood'
  BY <1>0, <1>1 DEF SourcesInv, SourceRows, RowsGood, EditGood, Live
<1> QED BY <1>2, <1>3, <1>4, <1>5 DEF SourcesInv, CallersGood

\* The end of a refresh: everyone who waited for it goes on, and nobody is in flight.
LEMMA LearnSet ==
    ASSUME SourceRows, NEW c \in Callers, NEW ok \in BOOLEAN, caller' = Learn(c, ok)
    PROVE  /\ caller' \in [Callers -> SourceCalls]
           /\ \A d \in Callers :
                  IF d = c \/ (caller[d].pc = "wait" /\ caller[d].s = caller[c].s)
                  THEN \/ caller'[d] = Idle
                       \/ /\ ok /\ caller'[d].pc = "reread" /\ caller'[d].s = caller[d].s
                          /\ caller'[d].edited = caller[d].edited /\ caller'[d].kind = caller[d].kind
                  ELSE caller'[d] = caller[d]
<1> DEFINE learns(d) == d = c \/ (caller[d].pc = "wait" /\ caller[d].s = caller[c].s)
           again(d) == [caller[d] EXCEPT !.pc = "reread", !.copy = NoSource, !.start = 0]
           next(d) == IF ~learns(d) THEN caller[d]
                      ELSE IF ok /\ caller[d].kind = "client" THEN again(d) ELSE Idle
<1>1. caller' = [d \in Callers |-> next(d)]
  BY DEF Learn
<1>2. ASSUME NEW d \in Callers
      PROVE  /\ again(d) \in SourceCalls /\ again(d).pc = "reread" /\ again(d).s = caller[d].s
             /\ again(d).edited = caller[d].edited /\ again(d).kind = caller[d].kind
  <2>1. caller[d] \in SourceCalls
    BY DEF SourceRows
  <2>2. 0 \in 0 .. MaxTime
    <3>1. MaxTime \in Nat
      BY SourceBounds
    <3> QED BY <3>1
  <2>3. again(d) \in SourceCalls
    BY <2>1, <2>2, IdleTyped DEF SourceCalls
  <2> QED BY <2>1, <2>3 DEF SourceCalls
<1> HIDE DEF again
<1>3. ASSUME NEW d \in Callers PROVE next(d) \in SourceCalls
  BY <1>2, IdleTyped DEF SourceRows
<1>4. caller' \in [Callers -> SourceCalls] /\ \A d \in Callers : caller'[d] = next(d)
  BY <1>1, <1>3
<1> QED BY <1>2, <1>4

LEMMA EndsKeeps ==
    ASSUME SourcesInv, NEW c \in Callers, caller[c].pc = "fetch",
           NEW row \in SourceRow, NEW ok \in BOOLEAN, Ends(c, row, ok),
           fetchErrors' \in 0 .. MaxFetchErrors,
           row.at = source[caller[c].s].at, row.url = source[caller[c].s].url, row.success <= now,
           ok \/ (~caller[c].edited /\ source[caller[c].s].body # "") => row.body # ""
    PROVE  SourcesInv'
<1> DEFINE s == caller[c].s
<1>0. /\ SourceRows /\ RowsGood /\ EditGood /\ CallerGood(c) /\ FetchersKnown
      /\ s \in Sources /\ inflight[s] = c
      /\ source' = [source EXCEPT ![s] = row]
      /\ edit' = (IF edit.s = s THEN [edit EXCEPT !.overtaken = TRUE] ELSE edit)
      /\ inflight' = [inflight EXCEPT ![s] = NoCaller]
      /\ caller' = Learn(c, ok)
      /\ UNCHANGED <<asked, pass, now, sourceEdits>>
  BY DEF SourcesInv, CallersGood, CallerGood, Ends
<1>1. /\ caller' \in [Callers -> SourceCalls]
      /\ \A d \in Callers :
             IF d = c \/ (caller[d].pc = "wait" /\ caller[d].s = s)
             THEN \/ caller'[d] = Idle
                  \/ /\ ok /\ caller'[d].pc = "reread" /\ caller'[d].s = caller[d].s
                     /\ caller'[d].edited = caller[d].edited /\ caller'[d].kind = caller[d].kind
             ELSE caller'[d] = caller[d]
  BY <1>0, LearnSet
<1> HIDE DEF s
<1>2. /\ source' \in [Sources -> SourceRow] /\ source'[s] = row /\ \A t \in Sources \ {s} : source'[t] = source[t]
      /\ \A t \in Sources : source'[t].at = source[t].at
      /\ inflight' \in [Sources -> Callers \cup {NoCaller}] /\ inflight'[s] = NoCaller
      /\ \A t \in Sources \ {s} : inflight'[t] = inflight[t]
  BY <1>0 DEF SourceRows, s
<1>3. ASSUME NEW d \in Callers PROVE CallerGood(d)'
  <2>1. CallerGood(d)
    BY DEF SourcesInv, CallersGood
  <2>2. CASE caller'[d] = Idle
    BY <2>2, IdleTyped DEF CallerGood
  <2>3. CASE /\ ok /\ caller'[d].pc = "reread" /\ caller'[d].s = s
    <3>1. source'[s].at # "new" /\ source'[s].body # ""
      BY <1>0, <1>2, <2>3 DEF CallerGood, s
    <3> QED BY <1>0, <2>3, <3>1 DEF CallerGood
  <2>4. CASE caller'[d] = caller[d] /\ d # c /\ ~(caller[d].pc = "wait" /\ caller[d].s = s)
    <3>1. CASE caller[d].s # s
      <4>1. ASSUME caller[d].pc # "idle"
            PROVE  /\ caller[d].s \in Sources /\ source'[caller[d].s] = source[caller[d].s]
                   /\ inflight'[caller[d].s] = inflight[caller[d].s]
        BY <1>2, <2>1, <3>1, <4>1 DEF CallerGood
      <4> QED BY <1>0, <2>1, <2>4, <4>1 DEF CallerGood
    <3>2. CASE caller[d].s = s /\ caller[d].pc = "reread" /\ ~caller[d].edited
      <4>1. source[s].body # "" /\ ~caller[c].edited
        BY <1>0, <2>1, <3>2 DEF CallerGood, FetchersKnown, s
      <4>2. source'[s].body # "" /\ source'[s].at # "new"
        BY <1>0, <1>2, <4>1 DEF s, CallerGood
      <4> QED BY <1>0, <2>4, <3>2, <4>2 DEF CallerGood
    <3>3. CASE caller[d].s = s /\ caller[d].pc # "wait" /\ caller[d].pc # "fetch"
               /\ ~(caller[d].pc = "reread" /\ ~caller[d].edited)
      BY <1>0, <1>2, <2>1, <2>4, <3>3 DEF CallerGood
    <3>4. caller[d].s = s => caller[d].pc # "fetch"
      BY <1>0, <2>1, <2>4 DEF CallerGood
    <3> QED BY <2>4, <3>1, <3>2, <3>3, <3>4
  <2>5. d = c \/ caller[d].s = s => caller[d].s = s
    BY DEF s
  <2> QED BY <1>1, <2>2, <2>3, <2>4, <2>5
<1>4. FetchersKnown'
  <2>1. ASSUME NEW t \in Sources, inflight'[t] # NoCaller
        PROVE  inflight'[t] \in Callers /\ caller'[inflight'[t]].pc = "fetch" /\ caller'[inflight'[t]].s = t
    <3>1. t # s /\ inflight'[t] = inflight[t]
      BY <1>2, <2>1
    <3>2. inflight[t] \in Callers /\ caller[inflight[t]].pc = "fetch" /\ caller[inflight[t]].s = t
      BY <1>0, <2>1, <3>1 DEF FetchersKnown
    <3>3. inflight[t] # c
      BY <3>1, <3>2 DEF s
    <3> QED BY <1>1, <3>1, <3>2, <3>3
  <2>2. ASSUME NEW d \in Callers, NEW e \in Callers, caller'[d].pc = "reread", ~caller'[d].edited,
               caller'[e].pc = "fetch", caller'[e].s = caller'[d].s
        PROVE  ~caller'[e].edited
    <3>1. caller'[e] = caller[e] /\ e # c
      BY <1>1, <2>2, IdleTyped
    <3>2. caller[e].s # s
      <4>1. inflight[caller[e].s] = e
        BY <2>2, <3>1 DEF SourcesInv, CallersGood, CallerGood
      <4> QED BY <1>0, <3>1, <4>1
    <3>3. caller'[d] = caller[d]
      BY <1>1, <2>2, <3>1, <3>2, IdleTyped DEF s
    <3>4. caller[d].pc = "reread" /\ ~caller[d].edited /\ caller[e].pc = "fetch" /\ caller[e].s = caller[d].s
      BY <2>2, <3>1, <3>3
    <3>5. ~caller[e].edited
      BY <1>0, <3>4 DEF FetchersKnown
    <3> QED BY <3>1, <3>5
  <2> QED BY <2>1, <2>2 DEF FetchersKnown
<1>5. PassBounded'
  <2>1. PassCallers' \subseteq PassCallers
    BY <1>1, IdleTyped DEF PassCallers
  <2> QED BY <2>1, PassKept DEF SourcesInv
<1>6. edit' \in SourceEditing /\ EditGood'
  <2>1. CASE edit.s = s
    <3>1. edit' = [edit EXCEPT !.overtaken = TRUE] /\ edit \in SourceEditing
      BY <1>0, <2>1 DEF SourceRows
    <3>2. /\ edit' \in SourceEditing /\ edit'.s = s /\ edit'.overtaken /\ edit'.url = edit.url
          /\ edit'.copy = edit.copy
      BY <2>1, <3>1 DEF SourceEditing
    <3>3. "" \notin Sources
      BY SourceBounds
    <3>4. edit # NoEdit
      BY <1>0, <2>1, <3>3, IdleTyped
    <3> QED BY <1>0, <1>2, <2>1, <3>2, <3>4 DEF EditGood
  <2>2. CASE edit.s # s
    BY <1>0, <1>2, <2>2 DEF EditGood, SourceRows, Live
  <2> QED BY <2>1, <2>2
<1>7. SourceRows'
  BY <1>0, <1>1, <1>2, <1>6 DEF SourceRows
<1>8. RowsGood'
  <2>1. ASSUME NEW t \in Sources PROVE source'[t].success <= now' /\ (Live(t)' => source'[t].url # "")
    <3>1. source[t].success <= now /\ (Live(t) => source[t].url # "")
      BY <1>0 DEF RowsGood
    <3>2. CASE t = s
      <4>1. source'[t] = row /\ row.at = source[t].at /\ row.url = source[t].url /\ row.success <= now
        BY <1>2, <3>2 DEF s
      <4>2. now' = now
        BY <1>0
      <4> QED BY <3>1, <4>1, <4>2 DEF Live
    <3>3. CASE t # s
      BY <1>0, <1>2, <3>1, <3>3 DEF Live
    <3> QED BY <3>2, <3>3
  <2>2. ASSUME NEW t \in asked' \cup pass'.due PROVE source'[t].at # "new"
    <3>1. t \in Sources /\ source[t].at # "new"
      BY <1>0 DEF RowsGood, SourceRows
    <3> QED BY <1>2, <3>1
  <2> QED BY <2>1, <2>2 DEF RowsGood
<1> QED BY <1>3, <1>4, <1>5, <1>6, <1>7, <1>8 DEF SourcesInv, CallersGood

\* What a refresh writes: the row with another body and success, which only an edit of the
\* row since it was read can set back.
LEMMA SavedGood ==
    ASSUME SourcesInv, NEW c \in Callers, caller[c].pc = "fetch"
    PROVE  LET s == caller[c].s
               copy == caller[c].copy
               new == Saved(s, copy.url, caller[c].start)
               old == Saved(s, copy.body, copy.success)
           IN /\ s \in Sources /\ inflight[s] = c
              /\ new \in SourceRow /\ old \in SourceRow
              /\ new.at = source[s].at /\ old.at = source[s].at
              /\ new.url = source[s].url /\ old.url = source[s].url
              /\ new.success <= now /\ old.success <= now
              /\ Live(s) => new.body # ""
              /\ source[s].body # "" => new.body # ""
              /\ ~caller[c].edited => /\ source[s].body # "" => old.body # ""
                                      /\ source[s].success <= new.success /\ source[s].success <= old.success
<1> DEFINE s == caller[c].s
           copy == caller[c].copy
<1>1. /\ s \in Sources /\ inflight[s] = c /\ caller[c].start <= now
      /\ copy.success <= caller[c].start /\ copy.url # ""
      /\ caller[c].edited \/ source[s] = copy
      /\ source[s].success <= now
  BY DEF SourcesInv, CallersGood, CallerGood, RowsGood
<1>2. /\ source[s] \in SourceRow /\ copy \in SourceRow /\ caller[c].start \in 0 .. MaxTime
      /\ now \in 1 .. MaxTime
  BY <1>1 DEF SourcesInv, SourceRows, SourceCalls
<1>3. /\ MaxTime \in Nat
  BY SourceBounds
<1> HIDE DEF s, copy
<1>4. /\ now \in Nat /\ caller[c].start \in Nat /\ copy.success \in Nat /\ source[s].success \in Nat
      /\ copy.success <= now
  <2>1. \A n \in 0 .. MaxTime : n \in Nat
    BY <1>3
  <2>2. now \in Nat /\ caller[c].start \in Nat
    BY <1>2, <1>3
  <2>3. copy.success \in 0 .. MaxTime /\ source[s].success \in 0 .. MaxTime
    BY <1>2 DEF SourceRow
  <2>4. copy.success \in Nat /\ source[s].success \in Nat
    BY <2>1, <2>3
  <2>5. copy.success <= caller[c].start /\ caller[c].start <= now
    BY <1>1
  <2> QED BY <2>2, <2>4, <2>5
<1>5. CASE Live(s)
  <2> DEFINE new == [source[s] EXCEPT !.body = copy.url, !.success = caller[c].start]
             old == [source[s] EXCEPT !.body = copy.body, !.success = copy.success]
  <2>1. /\ new \in SourceRow /\ new.at = source[s].at /\ new.url = source[s].url
        /\ new.body = copy.url /\ new.success = caller[c].start
    BY <1>2 DEF SourceRow
  <2>2. /\ old \in SourceRow /\ old.at = source[s].at /\ old.url = source[s].url
        /\ old.body = copy.body /\ old.success = copy.success
    BY <1>2 DEF SourceRow
  <2>3. Saved(s, copy.url, caller[c].start) = new /\ Saved(s, copy.body, copy.success) = old
    BY <1>5 DEF Saved
  <2> HIDE DEF new, old
  <2>4. ASSUME ~caller[c].edited
        PROVE  /\ source[s].body # "" => old.body # ""
               /\ source[s].success <= new.success /\ source[s].success <= old.success
    <3>1. source[s] = copy
      BY <1>1, <2>4
    <3>2. copy.success <= caller[c].start
      BY <1>1
    <3>3. copy.success <= copy.success
      BY <1>4
    <3> QED BY <2>1, <2>2, <3>1, <3>2, <3>3
  <2>5. new.success <= now /\ old.success <= now /\ new.body # ""
    BY <1>1, <1>4, <2>1, <2>2
  <2> QED BY <1>1, <2>1, <2>2, <2>3, <2>4, <2>5 DEF s, copy
<1>6. CASE ~Live(s)
  <2>1. Saved(s, copy.url, caller[c].start) = source[s] /\ Saved(s, copy.body, copy.success) = source[s]
    BY <1>6 DEF Saved
  <2>2. source[s].success <= source[s].success
    BY <1>4
  <2> QED BY <1>1, <1>2, <1>6, <2>1, <2>2 DEF s, copy
<1> QED BY <1>5, <1>6

LEMMA SourceRefreshed ==
    ASSUME SourcesInv, NEW c \in Callers, RefreshSucceeds(c) \/ RefreshFails(c)
    PROVE  SourcesInv'
<1> DEFINE s == caller[c].s
           copy == caller[c].copy
           new == Saved(s, copy.url, caller[c].start)
           old == Saved(s, copy.body, copy.success)
<1>0. caller[c].pc = "fetch"
  BY DEF RefreshSucceeds, RefreshFails
<1>1. /\ s \in Sources /\ inflight[s] = c
      /\ new \in SourceRow /\ old \in SourceRow
      /\ new.at = source[s].at /\ old.at = source[s].at
      /\ new.url = source[s].url /\ old.url = source[s].url
      /\ new.success <= now /\ old.success <= now
      /\ Live(s) => new.body # ""
      /\ source[s].body # "" => new.body # ""
      /\ ~caller[c].edited => /\ source[s].body # "" => old.body # ""
                              /\ source[s].success <= new.success /\ source[s].success <= old.success
  BY <1>0, SavedGood
<1>2. fetchErrors \in 0 .. MaxFetchErrors /\ MaxFetchErrors \in Nat
  BY SourceBounds DEF SourcesInv, SourceRows
<1>3. Live(s) \in BOOLEAN
  BY DEF Live
<1>4. CASE RefreshSucceeds(c)
  <2>1. Ends(c, new, Live(s)) /\ fetchErrors' \in 0 .. MaxFetchErrors
    BY <1>2, <1>4 DEF RefreshSucceeds
  <2> HIDE DEF new, old
  <2> QED BY <1>0, <1>1, <1>3, <2>1, EndsKeeps
<1>5. CASE RefreshFails(c)
  <2>1. Ends(c, old, FALSE)
    BY <1>5 DEF RefreshFails
  <2>2. fetchErrors' \in 0 .. MaxFetchErrors
    BY <1>2, <1>5 DEF RefreshFails
  <2> HIDE DEF new, old
  <2> QED BY <1>0, <1>1, <2>1, <2>2, EndsKeeps
<1> QED BY <1>4, <1>5

\* A client that waits gives up, and one whose refresh went well is answered.
LEMMA ClientLeaves ==
    ASSUME SourcesInv, NEW c \in Callers, WaiterLeaves(c) \/ Rereads(c)
    PROVE  SourcesInv'
<1>0. /\ SourceRows /\ FetchersKnown /\ caller[c].pc \in {"wait", "reread"} /\ caller' = [caller EXCEPT ![c] = Idle]
      /\ UNCHANGED <<source, inflight, asked, pass, edit, now, sourceEdits>>
  BY DEF SourcesInv, CallersGood, WaiterLeaves, Rereads
<1>1. /\ caller' \in [Callers -> SourceCalls] /\ caller'[c] = Idle
      /\ \A d \in Callers \ {c} : caller'[d] = caller[d]
  BY <1>0, CallerSet, IdleTyped
<1>2. fetchErrors' \in 0 .. MaxFetchErrors
  <2>1. fetchErrors \in 0 .. MaxFetchErrors /\ MaxFetchErrors \in Nat
    BY <1>0, SourceBounds DEF SourceRows
  <2> QED BY <2>1 DEF WaiterLeaves, Rereads
<1>3. ASSUME NEW d \in Callers PROVE CallerGood(d)'
  <2>1. CASE d = c
    BY <1>1, <2>1, IdleTyped DEF CallerGood
  <2>2. CASE d # c
    BY <1>0, <1>1, <2>2 DEF SourcesInv, CallersGood, CallerGood
  <2> QED BY <2>1, <2>2
<1>4. FetchersKnown'
  BY <1>0, <1>1, IdleTyped DEF FetchersKnown
<1>5. PassBounded'
  BY <1>1, IdleTyped, PassKept DEF SourcesInv, PassCallers
<1>6. SourceRows' /\ RowsGood' /\ EditGood'
  BY <1>0, <1>1, <1>2 DEF SourcesInv, SourceRows, RowsGood, EditGood, Live
<1> QED BY <1>3, <1>4, <1>5, <1>6 DEF SourcesInv, CallersGood

LEMMA SourcesListed ==
    ASSUME SourcesInv, PassBegins \/ PassEnds
    PROVE  SourcesInv'
<1>0. /\ SourceRows /\ RowsGood /\ UNCHANGED <<source, inflight, caller, asked, edit, now, sourceEdits, fetchErrors>>
  BY DEF SourcesInv, PassBegins, PassEnds
<1>1. pass' \in [on : BOOLEAN, due : SUBSET Sources] /\ \A t \in pass'.due : source[t].at # "new"
  <2>1. CASE PassBegins
    <3>1. PICK due \in SUBSET Sources : (\A t \in due : Live(t)) /\ pass' = [on |-> TRUE, due |-> due]
      BY <2>1 DEF PassBegins
    <3> QED BY <3>1 DEF Live
  <2>2. CASE PassEnds
    BY <1>0, <2>2 DEF PassEnds, SourceRows, RowsGood
  <2> QED BY <2>1, <2>2 DEF PassBegins, PassEnds
<1>2. SourceRows' /\ RowsGood' /\ EditGood'
  BY <1>0, <1>1 DEF SourcesInv, SourceRows, RowsGood, EditGood, Live
<1>3. CallersGood' /\ PassBounded'
  BY <1>0 DEF SourcesInv, CallersGood, CallerGood, FetchersKnown, PassBounded, PassCallers
<1> QED BY <1>2, <1>3 DEF SourcesInv

\* Every caller with the source that is edited or deleted has an older copy.
LEMMA OvertakenKeeps ==
    ASSUME SourcesInv, NEW s \in Sources, caller' = Overtaken(s), UNCHANGED <<inflight, now>>,
           source'[s].at # "new", \A t \in Sources \ {s} : source'[t] = source[t]
    PROVE  CallersGood' /\ PassBounded' /\ caller' \in [Callers -> SourceCalls]
<1>0. SourceRows /\ FetchersKnown
  BY DEF SourcesInv, CallersGood
<1>1. ASSUME NEW d \in Callers
      PROVE  /\ caller'[d] \in SourceCalls
             /\ caller'[d].pc = caller[d].pc /\ caller'[d].kind = caller[d].kind /\ caller'[d].s = caller[d].s
             /\ caller'[d].copy = caller[d].copy /\ caller'[d].start = caller[d].start
             /\ IF caller[d].s = s THEN caller'[d].edited ELSE caller'[d] = caller[d]
  <2>1. caller'[d] = IF caller[d].s = s THEN [caller[d] EXCEPT !.edited = TRUE] ELSE caller[d]
    BY DEF Overtaken
  <2>2. caller[d] \in SourceCalls
    BY <1>0 DEF SourceRows
  <2> QED BY <2>1, <2>2 DEF SourceCalls
<1>2. caller' \in [Callers -> SourceCalls]
  <2>1. caller' = [d \in Callers |-> caller'[d]]
    BY DEF Overtaken
  <2> QED BY <1>1, <2>1
<1>3. ASSUME NEW d \in Callers PROVE CallerGood(d)'
  <2>1. CallerGood(d)
    BY DEF SourcesInv, CallersGood
  <2>2. CASE caller[d].s = s
    BY <1>0, <1>1, <2>1, <2>2 DEF CallerGood
  <2>3. CASE caller[d].s # s
    <3>1. ASSUME caller[d].pc # "idle" PROVE caller[d].s \in Sources /\ source'[caller[d].s] = source[caller[d].s]
      BY <2>1, <2>3, <3>1 DEF CallerGood
    <3> QED BY <1>1, <2>1, <2>3, <3>1 DEF CallerGood
  <2> QED BY <2>2, <2>3
<1>4. FetchersKnown'
  BY <1>0, <1>1 DEF FetchersKnown
<1>5. PassBounded'
  <2>1. PassCallers' \subseteq PassCallers
    BY <1>1 DEF PassCallers
  <2> QED BY <2>1, PassKept DEF SourcesInv
<1> QED BY <1>2, <1>3, <1>4, <1>5 DEF CallersGood

\* What an edit writes: the copy it read, with a cache that is emptied when the URL is another.
LEMMA EditWrites ==
    ASSUME SourcesInv, EditEnds
    PROVE  /\ edit.s \in Sources /\ source' \in [Sources -> SourceRow]
           /\ \A t \in Sources \ {edit.s} : source'[t] = source[t]
           /\ source'[edit.s].at # "new" /\ source'[edit.s].success <= now
           /\ source'[edit.s].at = "live" => source'[edit.s].url # ""
           /\ Live(edit.s) /\ ~edit.overtaken /\ edit.url = edit.copy.url =>
                  source'[edit.s].success = source[edit.s].success
<1> DEFINE s == edit.s
           row == [edit.copy EXCEPT !.url = edit.url, !.enabled = edit.enabled]
           empty == [row EXCEPT !.body = "", !.success = 0]
           new == IF SameFetch(edit.copy) THEN row ELSE empty
<1>0. /\ SourceRows /\ RowsGood /\ edit # NoEdit /\ edit \in SourceEditing
      /\ s \in Sources /\ edit.url # "" /\ edit.copy.at = "live" /\ edit.copy.success <= now
      /\ source[s].at # "new"
      /\ ~edit.overtaken /\ Live(s) => source[s] = edit.copy
      /\ source' = IF ~Live(s) THEN source ELSE [source EXCEPT ![s] = new]
  BY DEF SourcesInv, SourceRows, EditGood, EditEnds
<1>1. /\ source \in [Sources -> SourceRow] /\ edit.copy \in SourceRow /\ edit.url \in Urls \cup {""}
      /\ edit.enabled \in BOOLEAN
  BY <1>0 DEF SourceRows, SourceEditing
<1>2. 0 \in 0 .. MaxTime /\ 0 <= now
  <2>1. MaxTime \in Nat
    BY SourceBounds
  <2>2. now \in 1 .. MaxTime
    BY <1>0 DEF SourceRows
  <2> QED BY <2>1, <2>2
<1>3. /\ row \in SourceRow /\ row.at = "live" /\ row.url = edit.url /\ row.success = edit.copy.success
  BY <1>0, <1>1 DEF SourceRow
<1> HIDE DEF row
<1>4. /\ empty \in SourceRow /\ empty.at = "live" /\ empty.url = edit.url /\ empty.success = 0
  BY <1>2, <1>3 DEF SourceRow
<1> HIDE DEF empty
<1>5. /\ new \in SourceRow /\ new.at = "live" /\ new.url # "" /\ new.success <= now
      /\ edit.url = edit.copy.url => new.success = edit.copy.success
  BY <1>0, <1>2, <1>3, <1>4 DEF SameFetch
<1> HIDE DEF new
<1>6. CASE Live(s)
  BY <1>0, <1>1, <1>5, <1>6
<1>7. CASE ~Live(s)
  BY <1>0, <1>1, <1>7 DEF RowsGood, Live
<1> QED BY <1>6, <1>7

LEMMA SourceEdited ==
    ASSUME SourcesInv,
           \/ EditEnds \/ \E s \in Sources : DeleteSource(s)
           \/ \E s \in Sources, u \in Urls, enabled \in BOOLEAN : EditBegins(s, u, enabled)
    PROVE  SourcesInv'
<1>0. SourceRows /\ RowsGood /\ EditGood /\ UNCHANGED <<inflight, asked, pass, now, fetchErrors>>
  BY DEF SourcesInv, EditEnds, DeleteSource, EditBegins
<1>1. sourceEdits' \in 0 .. MaxSourceEdits
  <2>1. sourceEdits \in 0 .. MaxSourceEdits /\ MaxSourceEdits \in Nat
    BY <1>0, SourceBounds DEF SourceRows
  <2> QED BY <2>1 DEF EditEnds, DeleteSource, EditBegins
<1>2. CASE EditEnds
  <2>1. /\ edit.s \in Sources /\ source' \in [Sources -> SourceRow]
        /\ \A t \in Sources \ {edit.s} : source'[t] = source[t]
        /\ source'[edit.s].at # "new" /\ source'[edit.s].success <= now
        /\ source'[edit.s].at = "live" => source'[edit.s].url # ""
    BY <1>2, EditWrites
  <2>2. caller' = Overtaken(edit.s) /\ edit' = NoEdit
    BY <1>2 DEF EditEnds
  <2>3. CallersGood' /\ PassBounded' /\ caller' \in [Callers -> SourceCalls]
    BY <1>0, <2>1, <2>2, OvertakenKeeps
  <2>4. SourceRows'
    BY <1>0, <1>1, <2>1, <2>2, <2>3, IdleTyped DEF SourceRows
  <2>5. RowsGood'
    BY <1>0, <2>1 DEF RowsGood, Live, SourceRows
  <2>6. EditGood'
    BY <2>2 DEF EditGood
  <2> QED BY <2>3, <2>4, <2>5, <2>6 DEF SourcesInv
<1>3. ASSUME NEW s \in Sources, DeleteSource(s) PROVE SourcesInv'
  <2> DEFINE row == [NoSource EXCEPT !.at = "deleted"]
  <2>1. /\ source' = [source EXCEPT ![s] = row] /\ caller' = Overtaken(s) /\ UNCHANGED edit
    BY <1>3 DEF DeleteSource
  <2>2. row \in SourceRow /\ row.at = "deleted" /\ row.success = 0
    BY IdleTyped DEF SourceRow
  <2> HIDE DEF row
  <2>3. source' \in [Sources -> SourceRow] /\ source'[s] = row /\ \A t \in Sources \ {s} : source'[t] = source[t]
    BY <1>0, <2>1, <2>2 DEF SourceRows
  <2>4. CallersGood' /\ PassBounded' /\ caller' \in [Callers -> SourceCalls]
    BY <1>0, <2>1, <2>2, <2>3, OvertakenKeeps
  <2>5. SourceRows'
    BY <1>0, <1>1, <2>1, <2>3, <2>4 DEF SourceRows
  <2>6. RowsGood'
    <3>1. now \in 1 .. MaxTime /\ now' = now
      BY <1>0 DEF SourceRows
    <3>2. MaxTime \in Nat
      BY SourceBounds
    <3>3. source'[s].success <= now' /\ source'[s].at = "deleted"
      BY <2>2, <2>3, <3>1, <3>2
    <3>4. ASSUME NEW t \in Sources PROVE source'[t].success <= now' /\ (Live(t)' => source'[t].url # "")
      BY <1>0, <2>3, <3>1, <3>3 DEF RowsGood, Live
    <3>5. ASSUME NEW t \in asked' \cup pass'.due PROVE source'[t].at # "new"
      <4>1. t \in Sources /\ source[t].at # "new"
        BY <1>0 DEF RowsGood, SourceRows
      <4> QED BY <2>3, <3>3, <4>1
    <3> QED BY <3>4, <3>5 DEF RowsGood
  <2>7. EditGood'
    BY <1>0, <2>1, <2>2, <2>3 DEF EditGood, Live
  <2> QED BY <2>4, <2>5, <2>6, <2>7 DEF SourcesInv
<1>4. ASSUME NEW s \in Sources, NEW u \in Urls, NEW enabled \in BOOLEAN, EditBegins(s, u, enabled)
      PROVE  SourcesInv'
  <2>1. /\ edit' = [s |-> s, copy |-> source[s], url |-> u, enabled |-> enabled, overtaken |-> FALSE]
        /\ Live(s) /\ UNCHANGED <<source, caller>>
    BY <1>4 DEF EditBegins
  <2>2. /\ edit' \in SourceEditing /\ edit'.s = s /\ edit'.copy = source[s] /\ edit'.url = u
    BY <1>0, <2>1 DEF SourceRows, SourceEditing
  <2>3. u # ""
    BY SourceBounds
  <2>4. source[s].success <= now
    BY <1>0 DEF RowsGood
  <2>5. EditGood'
    BY <1>0, <2>1, <2>2, <2>3, <2>4 DEF EditGood, Live
  <2>6. RowsGood' /\ PassBounded'
    BY <1>0, <1>1, <2>1 DEF SourcesInv, RowsGood, Live, PassBounded, PassCallers
  <2>7. CallersGood'
    BY <1>0, <1>1, <2>1 DEF SourcesInv, CallersGood, CallerGood, FetchersKnown
  <2>8. SourceRows'
    BY <1>0, <1>1, <2>1, <2>2 DEF SourcesInv, SourceRows
  <2> QED BY <2>5, <2>6, <2>7, <2>8 DEF SourcesInv
<1> QED BY <1>2, <1>3, <1>4

LEMMA SourcesTick ==
    ASSUME SourcesInv, Tick
    PROVE  SourcesInv'
<1>0. /\ SourceRows /\ RowsGood /\ EditGood
      /\ UNCHANGED <<source, inflight, caller, asked, pass, edit, sourceEdits, fetchErrors>>
      /\ now < MaxTime /\ now' = now + 1 /\ now \in 1 .. MaxTime
  BY DEF SourcesInv, SourceRows, Tick
<1>1. MaxTime \in Nat
  BY SourceBounds
<1>2. now \in Nat /\ now' \in 1 .. MaxTime
  BY <1>0, <1>1
<1>3. ASSUME NEW n \in 0 .. MaxTime, n <= now PROVE n <= now'
  BY <1>0, <1>1, <1>2, <1>3
<1>4. ASSUME NEW d \in Callers PROVE CallerGood(d)'
  <2>1. CallerGood(d) /\ caller[d].start \in 0 .. MaxTime
    BY <1>0 DEF SourcesInv, CallersGood, SourceRows, SourceCalls
  <2>2. caller[d].start <= now => caller[d].start <= now'
    BY <1>3, <2>1
  <2> QED BY <1>0, <2>1, <2>2 DEF CallerGood
<1>5. FetchersKnown' /\ PassBounded'
  BY <1>0 DEF SourcesInv, CallersGood, FetchersKnown, PassBounded, PassCallers
<1>6. SourceRows'
  BY <1>0, <1>2 DEF SourceRows
<1>7. RowsGood'
  <2>1. ASSUME NEW s \in Sources PROVE source[s].success <= now'
    <3>1. source[s].success \in 0 .. MaxTime /\ source[s].success <= now
      BY <1>0 DEF SourceRows, SourceRow, RowsGood
    <3> QED BY <1>3, <3>1
  <2> QED BY <1>0, <2>1 DEF RowsGood, Live
<1>8. EditGood'
  <2>1. ASSUME edit # NoEdit PROVE edit.copy.success <= now'
    <3>1. edit.copy.success \in 0 .. MaxTime /\ edit.copy.success <= now
      BY <1>0, <2>1 DEF SourceRows, SourceEditing, SourceRow, EditGood
    <3> QED BY <1>3, <3>1
  <2> QED BY <1>0, <2>1 DEF EditGood, Live
<1> QED BY <1>4, <1>5, <1>6, <1>7, <1>8 DEF SourcesInv, CallersGood

LEMMA SourcesStep ==
    ASSUME SourcesInv, [SourcesNext]_sourceVars
    PROVE  SourcesInv'
<1>1. ASSUME NEW c \in Callers, NEW s \in Sources,
             Serve(c, s) \/ AskedRuns(c, s) \/ OperatorRefreshes(c, s) \/ PassStarts(c, s)
      PROVE  SourcesInv'
  BY <1>1, SourceBegins
<1>2. ASSUME NEW c \in Callers, NEW s \in Sources, NEW u \in Urls, NEW enabled \in BOOLEAN,
             CreateSource(c, s, u, enabled)
      PROVE  SourcesInv'
  BY <1>2, SourceCreated
<1>3. ASSUME NEW c \in Callers,
             Join(c) \/ RefreshSucceeds(c) \/ RefreshFails(c) \/ WaiterLeaves(c) \/ Rereads(c)
      PROVE  SourcesInv'
  BY <1>3, SourceJoined, SourceRefreshed, ClientLeaves
<1>4. CASE \/ EditEnds \/ \E s \in Sources : DeleteSource(s)
           \/ \E s \in Sources, u \in Urls, enabled \in BOOLEAN : EditBegins(s, u, enabled)
  BY <1>4, SourceEdited
<1>5. CASE PassBegins \/ PassEnds \/ Tick
  BY <1>5, SourcesListed, SourcesTick
<1>6. CASE UNCHANGED sourceVars
  <2>1. UNCHANGED <<source, inflight, caller, asked, pass, edit, now, sourceEdits, fetchErrors>>
    BY <1>6 DEF sourceVars
  <2>2. SourceRows' /\ RowsGood' /\ EditGood'
    BY <2>1 DEF SourcesInv, SourceRows, RowsGood, EditGood, Live
  <2>3. CallersGood' /\ PassBounded'
    BY <2>1 DEF SourcesInv, CallersGood, CallerGood, FetchersKnown, PassBounded, PassCallers
  <2> QED BY <2>2, <2>3 DEF SourcesInv
<1> QED BY <1>1, <1>2, <1>3, <1>4, <1>5, <1>6 DEF SourcesNext

\* A step of LastGoodKept.
GoodStep ==
    /\ \A s \in Sources :
           Live(s) /\ source'[s].at = "live" /\ source'[s].success < source[s].success =>
               \/ edit.s = s /\ edit' = NoEdit /\ (edit.overtaken \/ edit.url # edit.copy.url)
               \/ \E c \in Callers : inflight[s] = c /\ inflight'[s] # c /\ caller[c].edited
    /\ \A c \in Callers :
           caller[c].pc = "reread" /\ caller'[c].pc # "reread" /\ ~caller[c].edited =>
               source[caller[c].s].body # ""

\* Steps that leave every live row alone.
LEMMA RowsLeftAlone ==
    ASSUME SourcesInv, \A s \in Sources : source'[s] = source[s] \/ ~Live(s) \/ source'[s].at # "live"
    PROVE  GoodStep
<1>1. ASSUME NEW s \in Sources PROVE ~(source[s].success < source[s].success)
  <2>1. source[s].success \in 0 .. MaxTime /\ MaxTime \in Nat
    BY SourceBounds DEF SourcesInv, SourceRows, SourceRow
  <2> QED BY <2>1
<1>2. \A c \in Callers : caller[c].pc = "reread" /\ ~caller[c].edited => source[caller[c].s].body # ""
  BY DEF SourcesInv, CallersGood, CallerGood
<1> QED BY <1>1, <1>2 DEF GoodStep

LEMMA GoodSteps ==
    ASSUME SourcesInv, [SourcesNext]_sourceVars
    PROVE  GoodStep
<1>0. \A c \in Callers : caller[c].pc = "reread" /\ ~caller[c].edited => source[caller[c].s].body # ""
  BY DEF SourcesInv, CallersGood, CallerGood
<1>1. ASSUME NEW s \in Sources PROVE source[s].success \in Nat
  <2>1. source[s].success \in 0 .. MaxTime /\ MaxTime \in Nat
    BY SourceBounds DEF SourcesInv, SourceRows, SourceRow
  <2> QED BY <2>1
<1>2. ASSUME NEW c \in Callers, RefreshSucceeds(c) \/ RefreshFails(c) PROVE GoodStep
  <2> DEFINE s == caller[c].s
             new == Saved(s, caller[c].copy.url, caller[c].start)
             old == Saved(s, caller[c].copy.body, caller[c].copy.success)
  <2>1. caller[c].pc = "fetch"
    BY <1>2 DEF RefreshSucceeds, RefreshFails
  <2>2. /\ s \in Sources /\ inflight[s] = c /\ new \in SourceRow /\ old \in SourceRow
        /\ ~caller[c].edited => source[s].success <= new.success /\ source[s].success <= old.success
    BY <2>1, SavedGood
  <2>3. /\ source' = [source EXCEPT ![s] = new] \/ source' = [source EXCEPT ![s] = old]
        /\ inflight' = [inflight EXCEPT ![s] = NoCaller]
    BY <1>2 DEF RefreshSucceeds, RefreshFails, Ends
  <2>4. /\ source \in [Sources -> SourceRow] /\ inflight \in [Sources -> Callers \cup {NoCaller}]
    BY DEF SourcesInv, SourceRows
  <2>5. new.success \in Nat /\ old.success \in Nat
    <3>1. new.success \in 0 .. MaxTime /\ old.success \in 0 .. MaxTime /\ MaxTime \in Nat
      BY <2>2, SourceBounds DEF SourceRow
    <3> QED BY <3>1
  <2> HIDE DEF s, new, old
  <2>6. inflight'[s] # c
    <3>1. NoCaller # c
      BY SourceBounds
    <3> QED BY <2>2, <2>3, <2>4, <3>1
  <2>7. ASSUME NEW t \in Sources, source'[t].success < source[t].success
        PROVE  t = s /\ caller[c].edited
    <3>1. CASE t = s
      <4>1. source'[t] = new \/ source'[t] = old
        BY <2>2, <2>3, <2>4, <3>1
      <4>2. ASSUME ~caller[c].edited PROVE FALSE
        BY <1>1, <2>2, <2>5, <2>7, <3>1, <4>1, <4>2
      <4> QED BY <3>1, <4>2
    <3>2. CASE t # s
      <4>1. source'[t] = source[t]
        BY <2>2, <2>3, <2>4, <3>2
      <4> QED BY <1>1, <2>7, <4>1
    <3> QED BY <3>1, <3>2
  <2> QED BY <1>0, <2>2, <2>6, <2>7 DEF GoodStep
<1>3. CASE EditEnds
  <2>1. /\ edit.s \in Sources /\ \A t \in Sources \ {edit.s} : source'[t] = source[t]
        /\ Live(edit.s) /\ ~edit.overtaken /\ edit.url = edit.copy.url =>
               source'[edit.s].success = source[edit.s].success
    BY <1>3, EditWrites
  <2>2. edit' = NoEdit
    BY <1>3 DEF EditEnds
  <2>3. ASSUME NEW t \in Sources, Live(t), source'[t].success < source[t].success
        PROVE  edit.s = t /\ (edit.overtaken \/ edit.url # edit.copy.url)
    BY <1>1, <2>1, <2>3
  <2> QED BY <1>0, <2>2, <2>3 DEF GoodStep
<1>4. ASSUME NEW s \in Sources, DeleteSource(s) PROVE GoodStep
  <2>1. source' = [source EXCEPT ![s] = [NoSource EXCEPT !.at = "deleted"]] /\ source \in [Sources -> SourceRow]
    BY <1>4 DEF SourcesInv, SourceRows, DeleteSource
  <2>2. [NoSource EXCEPT !.at = "deleted"].at = "deleted"
    BY DEF NoSource
  <2>3. source'[s].at = "deleted" /\ \A t \in Sources \ {s} : source'[t] = source[t]
    BY <2>1, <2>2
  <2> QED BY <2>3, RowsLeftAlone
<1>5. ASSUME NEW c \in Callers, NEW s \in Sources, NEW u \in Urls, NEW enabled \in BOOLEAN,
             CreateSource(c, s, u, enabled)
      PROVE  GoodStep
  <2>1. /\ ~Live(s) /\ source \in [Sources -> SourceRow]
        /\ source' = [source EXCEPT ![s] = [NoSource EXCEPT !.at = "live", !.url = u, !.enabled = enabled]]
    BY <1>5 DEF SourcesInv, SourceRows, CreateSource, Live
  <2>2. \A t \in Sources \ {s} : source'[t] = source[t]
    BY <2>1
  <2> QED BY <2>1, <2>2, RowsLeftAlone
<1>6. ASSUME UNCHANGED source PROVE GoodStep
  BY <1>6, RowsLeftAlone
<1>7. CASE SourcesNext
  BY <1>2, <1>3, <1>4, <1>5, <1>6, <1>7
     DEF SourcesNext, Serve, AskedRuns, OperatorRefreshes, PassStarts, Join, WaiterLeaves, Rereads, PassBegins,
         PassEnds, EditBegins, Tick
<1>8. CASE UNCHANGED sourceVars
  BY <1>6, <1>8 DEF sourceVars
<1> QED BY <1>7, <1>8

\* The rows, the callers and the pass keep their types; a source has at most one refresh
\* under way, and a pass no more of them than its bound (cache.go).
THEOREM SourcesTypeCorrect == SourcesSpec => []SourcesTypeOK
<1>1. SourcesSpec => []SourcesInv
  BY SourcesStart, SourcesStep, PTL DEF SourcesSpec
<1> QED BY <1>1, SourcesTyped, PTL

\* However refreshes of clients, of the pass and of the operator overlap, no row goes back to
\* an older success, unless an edit is to blame; and a client whose refresh went well finds a
\* body (RefreshSource, doRefresh, bodyForSource).
THEOREM LastGoodAlwaysKept == SourcesSpec => LastGoodKept
<1>1. SourcesSpec => []SourcesInv
  BY SourcesStart, SourcesStep, PTL DEF SourcesSpec
<1>2. ASSUME SourcesInv, [SourcesNext]_sourceVars PROVE [GoodStep]_sourceVars
  BY <1>2, GoodSteps
<1>3. SourcesSpec => [][GoodStep]_sourceVars
  BY <1>1, <1>2, PTL DEF SourcesSpec
<1> QED BY <1>3 DEF GoodStep, LastGoodKept

(***************************************************************************)
(* Rendering and parsing. An entry read back says what was written, for    *)
(* every protocol and all parameters, but for a password that a link does  *)
(* not carry.                                                              *)
(***************************************************************************)

AllProtocols == PasswordTls \cup {"shadowsocks", "vless", "tuic", "vmess"}

LEMMA SecretsWritten ==
    ASSUME NEW p
    PROVE  /\ SecretsInOrder("shadowsocks", p) = <<p.method, p.password>>
           /\ \A protocol \in PasswordTls : SecretsInOrder(protocol, p) = <<p.password>>
           /\ SecretsInOrder("tuic", p) = <<p.uuid, p.password>>
           /\ \A protocol \in {"vless", "vmess"} : SecretsInOrder(protocol, p) = <<p.uuid>>
BY DEF SecretsInOrder, PasswordTls

\* A password is read as it was written where the format carries it.
LEMMA PasswordCarried ==
    ASSUME NEW protocol \in AllProtocols \ {"vless", "vmess"}, NEW w, NEW via,
           via # "link" \/ w \notin LinkLoses(protocol)
    PROVE  ReadPassword(via, protocol, w) = w
<1>1. CASE via # "link"
  BY <1>1 DEF ReadPassword
<1>2. CASE via = "link" /\ protocol = "shadowsocks"
  <2>1. w \notin {"psk+", "%41"}
    BY <1>2 DEF LinkLoses
  <2> QED BY <1>2, <2>1 DEF ReadPassword, QueryUnescaped
<1>3. CASE via = "link" /\ protocol \in {"trojan", "tuic"}
  <2>1. w \notin {"psk/", "psk ", "%41"}
    BY <1>3 DEF LinkLoses
  <2> QED BY <1>3, <2>1 DEF ReadPassword, UserPart
<1>4. CASE via = "link" /\ protocol \in {"hysteria2", "anytls"}
  <2>1. w \notin {"psk/", "psk ", "%41", "a:b"}
    BY <1>4 DEF LinkLoses
  <2> QED BY <1>4, <2>1 DEF ReadPassword, UserPart, UserName
<1> QED BY <1>1, <1>2, <1>3, <1>4 DEF AllProtocols, PasswordTls

\* Each secret is found under its own key again.
LEMMA SecretsParsed ==
    ASSUME NEW protocol \in AllProtocols, NEW p
    PROVE  LET parsed == ParsedSecrets(protocol, SecretsInOrder(protocol, p)) IN
           /\ protocol = "shadowsocks" => parsed.method = p.method
           /\ protocol \notin {"vless", "vmess"} => parsed.password = p.password
           /\ protocol \in {"vless", "vmess", "tuic"} => parsed.uuid = p.uuid
<1> DEFINE s == SecretsInOrder(protocol, p)
           parsed == ParsedSecrets(protocol, s)
<1>1. /\ parsed.method = IF protocol = "shadowsocks" THEN s[1] ELSE ""
      /\ parsed.password = IF protocol \in PasswordTls THEN s[1]
                           ELSE IF protocol \in {"shadowsocks", "tuic"} THEN s[2] ELSE ""
      /\ parsed.uuid = IF protocol \in {"vless", "vmess", "tuic"} THEN s[1] ELSE ""
  <2> HIDE DEF s
  <2> QED BY DEF ParsedSecrets
<1>2. CASE protocol = "shadowsocks"
  <2>1. s = <<p.method, p.password>>
    BY <1>2, SecretsWritten
  <2> HIDE DEF s, parsed
  <2>2. parsed.method = p.method /\ parsed.password = p.password
    BY <1>1, <1>2, <2>1 DEF PasswordTls
  <2> QED BY <1>2, <2>2 DEF s, parsed
<1>3. CASE protocol \in PasswordTls
  <2>1. s = <<p.password>>
    BY <1>3, SecretsWritten
  <2> HIDE DEF s, parsed
  <2>2. parsed.password = p.password
    BY <1>1, <1>3, <2>1 DEF PasswordTls
  <2> QED BY <1>3, <2>2 DEF s, parsed, PasswordTls
<1>4. CASE protocol = "tuic"
  <2>1. s = <<p.uuid, p.password>>
    BY <1>4, SecretsWritten
  <2> HIDE DEF s, parsed
  <2>2. parsed.uuid = p.uuid /\ parsed.password = p.password
    BY <1>1, <1>4, <2>1 DEF PasswordTls
  <2> QED BY <1>4, <2>2 DEF s, parsed
<1>5. CASE protocol \in {"vless", "vmess"}
  <2>1. s = <<p.uuid>>
    BY <1>5, SecretsWritten
  <2> HIDE DEF s, parsed
  <2>2. parsed.uuid = p.uuid
    BY <1>1, <1>5, <2>1 DEF PasswordTls
  <2> QED BY <1>5, <2>2 DEF s, parsed
<1> QED BY <1>2, <1>3, <1>4, <1>5 DEF AllProtocols

\* What is read of the secrets, whatever else an entry says.
LEMMA ReadParams ==
    ASSUME NEW ep, NEW via
    PROVE  LET parsed == ParsedSecrets(ep.protocol, SecretsInOrder(ep.protocol, ep.params))
               again == Parse(via, Render(via, ep))
           IN
           /\ again.params.method = parsed.method /\ again.params.uuid = parsed.uuid
           /\ again.params.password = ReadPassword(via, ep.protocol, parsed.password)
<1> DEFINE protocol == ep.protocol
           p == ep.params
           again == Parse(via, Render(via, ep))
           entry == Render(via, ep)
           secrets == ParsedSecrets(entry.protocol, entry.secrets)
           parsed == ParsedSecrets(protocol, SecretsInOrder(protocol, p))
<1>1. entry.protocol = protocol /\ entry.secrets = SecretsInOrder(protocol, p)
  BY DEF Render
<1>2. secrets = parsed
  <2> HIDE DEF entry
  <2> QED BY <1>1
<1>3. /\ again.params.method = secrets.method /\ again.params.uuid = secrets.uuid
      /\ again.params.password = ReadPassword(via, entry.protocol, secrets.password)
  <2> DEFINE password == ReadPassword(via, entry.protocol, secrets.password)
             keeps == \/ entry.protocol \in {"vless", "vmess"}
                      \/ via = "singbox" /\ entry.protocol # "shadowsocks"
             written == IF keeps THEN ParsedMode(entry) ELSE ""
             read == [method |-> secrets.method, password |-> password, uuid |-> secrets.uuid,
                      tls_mode |-> written, private_key |-> 0, public_key |-> entry.public,
                      short_id |-> entry.short, server_name |-> entry.sni]
  <2>1. again = [protocol |-> entry.protocol, params |-> read, skip |-> ParsedSkip(via, entry)]
    BY DEF Parse
  <2> HIDE DEF entry, secrets, password, written
  <2>2. read.method = secrets.method /\ read.uuid = secrets.uuid /\ read.password = password
    OBVIOUS
  <2> HIDE DEF read
  <2> QED BY <2>1, <2>2 DEF password
<1> HIDE DEF entry, secrets, parsed, again
<1>4. again.params.password = ReadPassword(via, protocol, parsed.password)
  BY <1>1, <1>2, <1>3
<1> QED BY <1>2, <1>3, <1>4 DEF parsed, again

\* The secrets read are those written, with the password that was read, if the format does not
\* carry what was written.
LEMMA SecretsReadBack ==
    ASSUME NEW ep, ep.protocol \in AllProtocols, NEW via, NEW r,
           r.method = ep.params.method, r.uuid = ep.params.uuid,
           \/ r.password = Parse(via, Render(via, ep)).params.password
           \/ r.password = ep.params.password /\ Carries(via, ep)
    PROVE  SecretsInOrder(ep.protocol, Parse(via, Render(via, ep)).params) = SecretsInOrder(ep.protocol, r)
<1> DEFINE protocol == ep.protocol
           p == ep.params
           q == Parse(via, Render(via, ep)).params
           parsed == ParsedSecrets(protocol, SecretsInOrder(protocol, p))
<1>1. q.method = parsed.method /\ q.uuid = parsed.uuid /\ q.password = ReadPassword(via, protocol, parsed.password)
  BY ReadParams
<1>2. /\ protocol = "shadowsocks" => parsed.method = p.method
      /\ protocol \notin {"vless", "vmess"} => parsed.password = p.password
      /\ protocol \in {"vless", "vmess", "tuic"} => parsed.uuid = p.uuid
  BY SecretsParsed
<1>3. Carries(via, ep) => via # "link" \/ p.password \notin LinkLoses(protocol)
  BY DEF Carries
<1>0. SUFFICES SecretsInOrder(protocol, q) = SecretsInOrder(protocol, r)
  OBVIOUS
<1>10. r.method = p.method /\ r.uuid = p.uuid /\ protocol \in AllProtocols
  OBVIOUS
<1>11. r.password = q.password \/ (r.password = p.password /\ Carries(via, ep))
  OBVIOUS
<1> HIDE DEF q, parsed, protocol, p
<1>4. ASSUME protocol \notin {"vless", "vmess"} PROVE q.password = r.password
  <2>1. q.password = ReadPassword(via, protocol, p.password)
    BY <1>1, <1>2, <1>4
  <2>2. CASE r.password = q.password
    BY <2>2
  <2>3. CASE r.password = p.password /\ Carries(via, ep)
    BY <1>3, <1>4, <1>10, <2>1, <2>3, PasswordCarried
  <2> QED BY <1>11, <2>2, <2>3
<1>5. CASE protocol = "shadowsocks"
  <2>1. /\ SecretsInOrder(protocol, q) = <<q.method, q.password>>
        /\ SecretsInOrder(protocol, r) = <<r.method, r.password>>
    BY <1>5, SecretsWritten
  <2>2. q.method = r.method
    BY <1>1, <1>2, <1>5, <1>10
  <2> QED BY <1>4, <1>5, <2>1, <2>2
<1>6. CASE protocol \in PasswordTls
  <2>1. SecretsInOrder(protocol, q) = <<q.password>> /\ SecretsInOrder(protocol, r) = <<r.password>>
    BY <1>6, SecretsWritten
  <2>2. protocol \notin {"vless", "vmess"}
    BY <1>6 DEF PasswordTls
  <2> QED BY <1>4, <2>1, <2>2
<1>7. CASE protocol = "tuic"
  <2>1. /\ SecretsInOrder(protocol, q) = <<q.uuid, q.password>>
        /\ SecretsInOrder(protocol, r) = <<r.uuid, r.password>>
    BY <1>7, SecretsWritten
  <2>2. q.uuid = r.uuid
    BY <1>1, <1>2, <1>7, <1>10
  <2> QED BY <1>4, <1>7, <2>1, <2>2
<1>8. CASE protocol \in {"vless", "vmess"}
  <2>1. SecretsInOrder(protocol, q) = <<q.uuid>> /\ SecretsInOrder(protocol, r) = <<r.uuid>>
    BY <1>8, SecretsWritten
  <2> QED BY <1>1, <1>2, <1>8, <1>10, <2>1
<1> QED BY <1>5, <1>6, <1>7, <1>8, <1>10 DEF AllProtocols

\* What is read back of an entry written in a format.
ReadsBack(protocol, p, skip, via, again) ==
    /\ again.protocol = protocol
    /\ Mode(protocol, again.params) = Mode(protocol, p)
    /\ Mode(protocol, p) = "reality" =>
           PublicKey(again.params) = PublicKey(p) /\ again.params.short_id = p.short_id
    /\ again.params.server_name =
           IF protocol = "shadowsocks" \/ (Mode(protocol, p) = "none" /\ via # "link") THEN ""
           ELSE Sni(via, Mode(protocol, p), p)
    /\ again.skip = IF via = "singbox" \/ via = "link" \/ Mode(protocol, p) # "tls" THEN "unset"
                    ELSE IF skip = "yes" THEN "yes" ELSE "no"

LEMMA ReadBack ==
    ASSUME NEW protocol \in AllProtocols, NEW p, NEW skip, NEW via \in Formats, NEW ep, NEW again,
           ep = [protocol |-> protocol, params |-> p, skip |-> skip], ~DocumentRefuses(ep),
           again = Parse(via, Render(via, ep))
    PROVE  ReadsBack(protocol, p, skip, via, again)
<1> DEFINE mode == Mode(protocol, p)
           entry == Render(via, ep)
<1>0. again = Parse(via, entry)
  OBVIOUS
<1>1. ep.protocol = protocol /\ ep.params = p /\ ep.skip = skip
  OBVIOUS
<1>2. /\ mode \in {"none", "tls", "reality"}
      /\ mode = "reality" => protocol = "vless" /\ PublicKey(p) # 0
      /\ "" \notin Secrets(protocol, p)
  <2>1. mode = "reality" => protocol \in {"vless", "vmess"}
    BY DEF Mode, AllProtocols, PasswordTls
  <2> QED BY <1>1, <2>1 DEF DocumentRefuses
<1>3. EntryMode(via, ep) = mode
  <2>1. EntryMode(via, ep) = IF via # "link" THEN mode
                             ELSE IF mode = "tls" \/ (mode = "reality" /\ protocol = "vless") THEN mode ELSE "none"
    BY <1>1 DEF EntryMode
  <2> HIDE DEF mode
  <2> QED BY <1>2, <2>1
<1>4. /\ entry.protocol = protocol /\ entry.secrets = SecretsInOrder(protocol, p) /\ entry.mode = mode
      /\ entry.public = IF mode = "reality" THEN PublicKey(p) ELSE 0
      /\ mode = "reality" => entry.short = p.short_id
      /\ entry.sni = IF protocol = "shadowsocks" \/ (mode = "none" /\ via # "link") THEN "" ELSE Sni(via, mode, p)
      /\ entry.skip = IF via = "link" \/ mode # "tls" THEN "unset" ELSE IF skip = "yes" THEN "yes" ELSE "no"
  <2> HIDE DEF mode
  <2> QED BY <1>1, <1>3 DEF Render
<1> HIDE DEF entry, mode
<1>5. /\ again.protocol = protocol
      /\ again.params.tls_mode = IF protocol \in {"vless", "vmess"} \/ (via = "singbox" /\ protocol # "shadowsocks")
                                 THEN mode ELSE ""
      /\ again.params.private_key = 0 /\ again.params.public_key = entry.public
      /\ again.params.short_id = entry.short /\ again.params.server_name = entry.sni
      /\ again.skip = IF via = "singbox" THEN "unset" ELSE entry.skip
  <2> DEFINE written == IF protocol \in {"vless", "vmess"} \/ (via = "singbox" /\ protocol # "shadowsocks")
                        THEN mode ELSE ""
             secrets == ParsedSecrets(protocol, entry.secrets)
             password == ReadPassword(via, protocol, secrets.password)
             read == [method |-> secrets.method, password |-> password, uuid |-> secrets.uuid,
                      tls_mode |-> written, private_key |-> 0, public_key |-> entry.public,
                      short_id |-> entry.short, server_name |-> entry.sni]
  <2>1. again = [protocol |-> protocol, params |-> read,
                 skip |-> IF via = "singbox" THEN "unset" ELSE entry.skip]
    BY <1>0, <1>4 DEF Parse, ParsedMode, ParsedSkip
  <2> HIDE DEF written, secrets, password
  <2>2. again.params = read /\ again.protocol = protocol
    BY <2>1
  <2>3. again.skip = IF via = "singbox" THEN "unset" ELSE entry.skip
    BY <2>1
  <2>4. /\ read.tls_mode = written /\ read.private_key = 0 /\ read.public_key = entry.public
        /\ read.short_id = entry.short /\ read.server_name = entry.sni
    OBVIOUS
  <2> HIDE DEF read
  <2> QED BY <2>2, <2>3, <2>4 DEF written
<1>7. Mode(protocol, again.params) = mode
  <2>1. CASE protocol = "shadowsocks"
    BY <2>1 DEF Mode, PasswordTls, mode
  <2>2. CASE protocol \in PasswordTls \cup {"tuic"}
    BY <2>2 DEF Mode, PasswordTls, mode
  <2>3. CASE protocol \in {"vless", "vmess"}
    BY <1>2, <1>5, <2>3 DEF Mode, PasswordTls
  <2> QED BY <2>1, <2>2, <2>3 DEF AllProtocols
<1>8. mode = "reality" => PublicKey(again.params) = PublicKey(p) /\ again.params.short_id = p.short_id
  <2> QED BY <1>2, <1>4, <1>5 DEF PublicKey
<1>9. again.skip = IF via = "singbox" \/ via = "link" \/ mode # "tls" THEN "unset"
                   ELSE IF skip = "yes" THEN "yes" ELSE "no"
  BY <1>4, <1>5 DEF Formats
<1> QED BY <1>4, <1>5, <1>7, <1>8, <1>9 DEF entry, mode, ReadsBack

Entry(protocol, secrets, mode, public, short, sni, skip) ==
    [protocol |-> protocol, secrets |-> secrets, mode |-> mode, public |-> public, short |-> short,
     sni |-> sni, skip |-> skip]
Called(sni, mode) == IF mode = "none" THEN "" ELSE IF sni # "" THEN sni ELSE "server"

WithName(e, name, skips) == [e EXCEPT !.sni = name, !.skip = skips]

LEMMA EntrySet ==
    ASSUME NEW protocol, NEW secrets, NEW mode, NEW public, NEW short, NEW sni, NEW skip, NEW name, NEW skips
    PROVE  WithName(Entry(protocol, secrets, mode, public, short, sni, skip), name, skips) =
               Entry(protocol, secrets, mode, public, short, name, skips)
<1> DEFINE e == Entry(protocol, secrets, mode, public, short, sni, skip)
           f == [e EXCEPT !.sni = name, !.skip = skips]
           g == Entry(protocol, secrets, mode, public, short, name, skips)
           fields == {"protocol", "secrets", "mode", "public", "short", "sni", "skip"}
<1>1. DOMAIN e = fields /\ DOMAIN g = fields /\ g = [x \in fields |-> g[x]]
  BY DEF Entry
<1>2. DOMAIN f = fields /\ f = [x \in fields |-> f[x]]
  <2> HIDE DEF e
  <2> QED BY <1>1
<1>3. \A x \in fields \ {"sni", "skip"} : f[x] = e[x] /\ e[x] = g[x]
  <2>1. \A x \in fields \ {"sni", "skip"} : e[x] = g[x]
    BY DEF Entry
  <2> HIDE DEF e, g
  <2> QED BY <1>1, <2>1
<1>4. f["sni"] = name /\ f["skip"] = skips
  <2> HIDE DEF e
  <2> QED BY <1>1
<1>5. g["sni"] = name /\ g["skip"] = skips
  BY DEF Entry
<1> HIDE DEF e, f, g
<1>6. \A x \in fields : f[x] = g[x]
  BY <1>3, <1>4, <1>5
<1>7. f = g
  BY <1>1, <1>2, <1>6
<1> QED BY <1>7 DEF e, f, g, WithName

LEMMA EntryConnects ==
    ASSUME NEW protocol, NEW secrets, NEW mode, NEW public, NEW short, NEW sni, NEW skip
    PROVE  Connection(Entry(protocol, secrets, mode, public, short, sni, skip)) =
               Entry(protocol, secrets, mode, public, short, Called(sni, mode), skip = "yes")
<1> DEFINE e == Entry(protocol, secrets, mode, public, short, sni, skip)
           skips == skip = "yes"
           name == Called(sni, mode)
<1>1. e.sni = sni /\ e.mode = mode /\ e.skip = skip
  BY DEF Entry
<1>2. Connection(e) = WithName(e, name, skips)
  <2>1. Connection(e) = [e EXCEPT !.sni = IF e.mode = "none" THEN "" ELSE IF e.sni # "" THEN e.sni ELSE "server",
                                  !.skip = (e.skip = "yes")]
    <3> HIDE DEF e
    <3> QED BY Zenon DEF Connection
  <2> HIDE DEF e
  <2>2. name = IF e.mode = "none" THEN "" ELSE IF e.sni # "" THEN e.sni ELSE "server"
    BY <1>1 DEF Called
  <2>3. skips = (e.skip = "yes")
    BY <1>1
  <2> HIDE DEF name, skips
  <2> QED BY Zenon, <2>1, <2>2, <2>3 DEF WithName
<1> HIDE DEF skips, name
<1>3. WithName(e, name, skips) = Entry(protocol, secrets, mode, public, short, name, skips)
  <2>1. ASSUME NEW b
        PROVE  WithName(e, name, b) = Entry(protocol, secrets, mode, public, short, name, b)
    BY EntrySet
  <2> HIDE DEF e
  <2> QED BY Zenon, <2>1
<1> QED BY <1>2, <1>3 DEF skips, name

\* What a client is told by an entry, where the kind of TLS is one that the protocol has.
Asked(format, protocol, mode, p) ==
    IF protocol = "shadowsocks" \/ (mode = "none" /\ format # "link") THEN "" ELSE Sni(format, mode, p)
Told(format, mode, skip) ==
    IF format = "link" \/ mode # "tls" THEN "unset" ELSE IF skip = "yes" THEN "yes" ELSE "no"

LEMMA EntryWritten ==
    ASSUME NEW format \in Formats, NEW ep, NEW mode,
           Mode(ep.protocol, ep.params) = mode, mode \in {"none", "tls", "reality"},
           mode = "reality" => ep.protocol = "vless"
    PROVE  Render(format, ep) =
               Entry(ep.protocol, SecretsInOrder(ep.protocol, ep.params), mode,
                     IF mode = "reality" THEN PublicKey(ep.params) ELSE 0,
                     IF mode = "reality" THEN ep.params.short_id ELSE "",
                     Asked(format, ep.protocol, mode, ep.params), Told(format, mode, ep.skip))
<1>2. EntryMode(format, ep) = mode
  BY DEF EntryMode
<1> QED BY <1>2 DEF Render, Entry, Asked, Told

\* The parameters of an endpoint: any value under each key.
OfferParams(S) ==
    [method : S, password : S, uuid : S, tls_mode : S, private_key : S, public_key : S, short_id : S,
     server_name : S]

\* An endpoint the Panel can offer, of any protocol and with any parameters, survives a trip
\* through the subscription of another Panel in any format that carries its password, and loses
\* at most the password in one that does not (render.go, render_links.go, parse_clash.go,
\* parse_singbox.go, parse_links.go).
THEOREM EndpointsSurvive ==
    ASSUME NEW S, NEW protocol \in AllProtocols, NEW p \in OfferParams(S), NEW skip
    PROVE  SurvivesSource([protocol |-> protocol, params |-> p, skip |-> skip])
<1> DEFINE ep == [protocol |-> protocol, params |-> p, skip |-> skip]
           mode == Mode(protocol, p)
<1> SUFFICES ASSUME ~DocumentRefuses(ep), NEW via \in Formats, NEW format \in Formats
             PROVE  LET again == Parse(via, Render(via, ep))
                        offered == IF Carries(via, ep) THEN ep
                                   ELSE [ep EXCEPT !.params.password = again.params.password]
                        kept == IF via = "clash" THEN ep.skip ELSE "unset"
                        named == Mode(ep.protocol, ep.params) # "reality" \/ ep.params.server_name # ""
                    IN IF Incomplete(again) THEN ~Carries(via, ep)
                       ELSE /\ ~Refuses(format, again)
                            /\ named \/ via = "link" \/ format # "link" =>
                                   Connection(Render(format, again)) =
                                       Connection(Render(format, [offered EXCEPT !.skip = kept]))
  BY DEF SurvivesSource
<1> DEFINE again == Parse(via, Render(via, ep))
           kept == IF via = "clash" THEN skip ELSE "unset"
           r == IF Carries(via, ep) THEN p ELSE [p EXCEPT !.password = again.params.password]
           offered == IF Carries(via, ep) THEN ep ELSE [ep EXCEPT !.params.password = again.params.password]
           other == [protocol |-> protocol, params |-> r, skip |-> kept]
<1>1. ep.protocol = protocol /\ ep.params = p /\ ep.skip = skip
  OBVIOUS
<1>2. /\ mode \in {"none", "tls", "reality"}
      /\ mode = "reality" => protocol = "vless" /\ PublicKey(p) # 0
      /\ "" \notin Secrets(protocol, p)
  <2>1. mode = "reality" => protocol \in {"vless", "vmess"}
    BY DEF Mode, AllProtocols, PasswordTls
  <2> QED BY <1>1, <2>1 DEF DocumentRefuses
<1>3. [offered EXCEPT !.skip = kept] = other
  <2> DEFINE w == again.params.password
  <2> HIDE DEF again, w, kept
  <2>1. CASE Carries(via, ep)
    BY <2>1
  <2>2. CASE ~Carries(via, ep)
    <3>1. offered = [ep EXCEPT !.params = [p EXCEPT !.password = w]]
      BY <2>2 DEF w
    <3>2. r = [p EXCEPT !.password = w]
      BY <2>2 DEF w
    <3> QED BY <3>1, <3>2
  <2> QED BY <2>1, <2>2
<1>4. /\ again.protocol = protocol
      /\ Mode(protocol, again.params) = mode
      /\ mode = "reality" => PublicKey(again.params) = PublicKey(p) /\ again.params.short_id = p.short_id
      /\ again.params.server_name =
             IF protocol = "shadowsocks" \/ (mode = "none" /\ via # "link") THEN "" ELSE Sni(via, mode, p)
      /\ again.skip = IF via = "singbox" \/ via = "link" \/ mode # "tls" THEN "unset"
                      ELSE IF skip = "yes" THEN "yes" ELSE "no"
  <2>1. ep = [protocol |-> protocol, params |-> p, skip |-> skip] /\ again = Parse(via, Render(via, ep))
    OBVIOUS
  <2> HIDE DEF ep, again
  <2>2. ReadsBack(protocol, p, skip, via, again)
    BY <2>1, ReadBack
  <2> QED BY <2>2 DEF ReadsBack
<1>5. /\ r.method = p.method /\ r.uuid = p.uuid /\ r.tls_mode = p.tls_mode
      /\ r.private_key = p.private_key /\ r.public_key = p.public_key
      /\ r.short_id = p.short_id /\ r.server_name = p.server_name
      /\ r.password = again.params.password \/ (r.password = p.password /\ Carries(via, ep))
  <2> HIDE DEF again, ep
  <2> QED BY DEF OfferParams
<1>6. SecretsInOrder(protocol, again.params) = SecretsInOrder(protocol, r)
  <2>1. ep.protocol = protocol /\ ep.params = p /\ again = Parse(via, Render(via, ep))
    OBVIOUS
  <2> HIDE DEF ep, again, r
  <2>2. SecretsInOrder(ep.protocol, Parse(via, Render(via, ep)).params) = SecretsInOrder(ep.protocol, r)
    BY <1>5, <2>1, SecretsReadBack
  <2> QED BY <2>1, <2>2
<1>7. /\ Mode(protocol, r) = mode /\ PublicKey(r) = PublicKey(p)
      /\ \A f \in Formats : Sni(f, mode, r) = Sni(f, mode, p)
  <2> HIDE DEF r
  <2>1. Mode(protocol, r) = Mode(protocol, p) /\ PublicKey(r) = PublicKey(p)
    BY <1>5 DEF Mode, PublicKey
  <2> QED BY <1>5, <2>1 DEF Sni
<1> HIDE DEF ep, again, offered
<1>9. Incomplete(again) => ~Carries(via, ep)
  <2>1. Carries(via, ep) => r = p
    OBVIOUS
  <2> HIDE DEF r
  <2> QED BY <1>2, <1>4, <1>6, <2>1 DEF Incomplete, Secrets
<1>10. ~Incomplete(again) => ~Refuses(format, again)
  <2> HIDE DEF mode
  <2> QED BY <1>2, <1>4 DEF Refuses, DocumentRefuses, Incomplete
<1>11. ASSUME mode # "reality" \/ p.server_name # "" \/ via = "link" \/ format # "link"
       PROVE  Connection(Render(format, again)) = Connection(Render(format, other))
  <2> DEFINE public == IF mode = "reality" THEN PublicKey(p) ELSE 0
             short == IF mode = "reality" THEN p.short_id ELSE ""
             secrets == SecretsInOrder(protocol, r)
             sniA == Asked(format, protocol, mode, again.params)
             sniB == Asked(format, protocol, mode, p)
             toldA == Told(format, mode, again.skip)
             toldB == Told(format, mode, kept)
  <2>0. other.protocol = protocol /\ other.params = r /\ other.skip = kept
    OBVIOUS
  <2> HIDE DEF mode, r, other, kept
  <2>1. Render(format, again) = Entry(protocol, secrets, mode, public, short, sniA, toldA)
    <3>1. Render(format, again) =
              Entry(protocol, SecretsInOrder(protocol, again.params), mode,
                    IF mode = "reality" THEN PublicKey(again.params) ELSE 0,
                    IF mode = "reality" THEN again.params.short_id ELSE "", sniA, toldA)
      BY <1>2, <1>4, EntryWritten
    <3> HIDE DEF sniA, toldA
    <3> QED BY <1>4, <1>6, <3>1
  <2>2. Render(format, other) = Entry(protocol, secrets, mode, public, short, sniB, toldB)
    <3>1. Render(format, other) =
              Entry(protocol, SecretsInOrder(protocol, r), mode,
                    IF mode = "reality" THEN PublicKey(r) ELSE 0,
                    IF mode = "reality" THEN r.short_id ELSE "", Asked(format, protocol, mode, r), toldB)
      BY <1>2, <1>7, <2>0, EntryWritten
    <3>2. Asked(format, protocol, mode, r) = sniB
      BY <1>7 DEF Asked
    <3> HIDE DEF sniB, toldB
    <3> QED BY <1>5, <1>7, <3>1, <3>2
  <2>3. toldA = toldB
    BY <1>2, <1>4 DEF Formats, Told, kept
  <2>4. Called(sniA, mode) = Called(sniB, mode)
    <3>1. CASE mode = "none"
      BY <3>1 DEF Called
    <3>2. CASE mode = "tls"
      BY <1>4, <3>2 DEF Sni, Called, Asked
    <3>3. CASE mode = "reality"
      BY <1>2, <1>4, <1>11, <3>3 DEF Sni, Called, Formats, Asked
    <3> QED BY <1>2, <3>1, <3>2, <3>3
  <2> HIDE DEF public, short, sniA, sniB, toldA, toldB, secrets
  <2> QED BY <2>1, <2>2, <2>3, <2>4, EntryConnects
<1>12. Mode(ep.protocol, ep.params) = mode /\ ep.params.server_name = p.server_name
  BY <1>1
<1>13. kept = IF via = "clash" THEN ep.skip ELSE "unset"
  BY <1>1
<1> HIDE DEF mode, other, kept, r
<1> QED BY <1>3, <1>9, <1>10, <1>11, <1>12, <1>13 DEF again, offered

(***************************************************************************)
(* The rows of inbounds. What Fill returns is known protocol by protocol,  *)
(* so a row filled for its protocol meets the clients whatever a series of *)
(* requests left in it.                                                    *)
(***************************************************************************)

InboundSpec == InboundInit /\ [][InboundNext]_inboundVars

\* Parameters a row can hold: keys are generated without end.
Params == [port : Values.port, method : {"", "aead", "2022"}, password : PasswordForms,
           uuid : {"", "uuid", "other"}, tls_mode : {"", "none", "tls", "reality", "other"},
           tls : SUBSET (PemPair \cup PathPair), private_key : Nat, public_key : Nat,
           short_id : {"", "sid"}, server_name : {"", "name", "microsoft"}, congestion : {"", "cubic", "other"}]

InboundRow == [at : {"none", "live"}, protocol : Protocols \cup {""}, params : Params, skipped : BOOLEAN]

\* A row of a protocol, and filled for it unless its protocol was changed alone.
RowGood(row) ==
    row.at = "live" => /\ row.protocol \in Protocols
                       /\ row.skipped \/ Meets(row.protocol, row.params)

InboundInv ==
    /\ inbound \in InboundRow /\ RowGood(inbound)
    /\ update \in [on : BOOLEAN, row : InboundRow, overlapped : BOOLEAN]
    /\ update.on => update.row.at = "live" /\ RowGood(update.row)
    /\ chainUse \in {"none", "disabled", "enabled"}
    /\ chainUse # "none" => inbound.at = "live"
    /\ chainUse = "enabled" => inbound = deployedRow /\ (update.on => update.overlapped)
    /\ inboundOps \in 0 .. MaxInboundOps

LEMMA ValuesKnown ==
    /\ {0, 1} \subseteq Values.port /\ Values.port \subseteq Nat
    /\ Values.method = {"", "aead", "2022"} /\ Values.password = PasswordForms
    /\ Values.uuid = {"", "uuid", "other"} /\ Values.tls_mode = {"", "none", "tls", "reality", "other"}
    /\ Values.tls = {{}, {"cert_pem"}, PathPair, PemPair}
    /\ Values.private_key = {0, 1} /\ Values.public_key = {0, 1, 2}
    /\ Values.short_id = {"", "sid"} /\ Values.server_name = {"", "name"}
    /\ Values.congestion = {"", "cubic", "other"}
    /\ DOMAIN Values = {"port", "method", "password", "uuid", "tls_mode", "tls", "private_key", "public_key",
                        "short_id", "server_name", "congestion"}
BY DEF Values

LEMMA MergeTyped ==
    ASSUME NEW p \in Params, NEW given \in Given \cup {Nothing}
    PROVE  Merge(given, p) \in Params
<1> DEFINE m == Merge(given, p)
<1>1. ASSUME NEW f \in DOMAIN given PROVE f \in DOMAIN Values /\ given[f] \in Values[f]
  BY <1>1 DEF Given, Nothing
<1>2. DOMAIN p = DOMAIN Values
  BY ValuesKnown DEF Params
<1>3. \A f \in DOMAIN p : m[f] \in Values[f] \/ m[f] = p[f]
  BY <1>1 DEF Merge
<1>4. DOMAIN m = DOMAIN Values /\ m = [f \in DOMAIN Values |-> m[f]]
  BY <1>2 DEF Merge
<1> HIDE DEF m
<1>5. /\ m.port \in Values.port /\ m.method \in Values.method /\ m.password \in Values.password
      /\ m.uuid \in Values.uuid /\ m.tls_mode \in Values.tls_mode
  BY <1>2, <1>3, ValuesKnown DEF Params
<1>6. /\ m.short_id \in Values.short_id /\ m.server_name \in Values.server_name \cup {"microsoft"}
      /\ m.congestion \in Values.congestion
  BY <1>2, <1>3, ValuesKnown DEF Params
<1>7. m.private_key \in Nat /\ m.public_key \in Nat /\ m.tls \in SUBSET (PemPair \cup PathPair)
  <2>1. Values.private_key \subseteq Nat /\ Values.public_key \subseteq Nat
    <3>1. Values.private_key = {0, 1} /\ Values.public_key = {0, 1, 2}
      BY ValuesKnown
    <3> QED BY <3>1
  <2>2. Values.tls \subseteq SUBSET (PemPair \cup PathPair)
    <3>1. Values.tls = {{}, {"cert_pem"}, PathPair, PemPair}
      BY ValuesKnown
    <3>2. "cert_pem" \in PemPair
      BY DEF PemPair
    <3> QED BY <3>1, <3>2
  <2>3. /\ m.private_key \in Values.private_key \/ m.private_key = p.private_key
        /\ m.public_key \in Values.public_key \/ m.public_key = p.public_key
        /\ m.tls \in Values.tls \/ m.tls = p.tls
    BY <1>2, <1>3, ValuesKnown
  <2>4. p.private_key \in Nat /\ p.public_key \in Nat /\ p.tls \in SUBSET (PemPair \cup PathPair)
    BY DEF Params
  <2> QED BY <2>1, <2>2, <2>3, <2>4
<1>8. m \in Params
  BY <1>4, <1>5, <1>6, <1>7, ValuesKnown DEF Params
<1> QED BY <1>8 DEF m

\* What the steps of Fill leave and what they give.
LEMMA PasswordFilled ==
    ASSUME NEW p \in Params
    PROVE  /\ FillPassword(p) \in Params /\ FillPassword(p).password # ""
           /\ p.password # "" => FillPassword(p).password = p.password
           /\ FillPassword(p).port = p.port /\ FillPassword(p).method = p.method
           /\ FillPassword(p).uuid = p.uuid /\ FillPassword(p).congestion = p.congestion
           /\ FillPassword(p).tls = p.tls
BY ValuesKnown DEF Params, FillPassword, Or, PasswordForms

LEMMA UuidFilled ==
    ASSUME NEW p \in Params
    PROVE  /\ FillUuid(p) \in Params /\ FillUuid(p).uuid # ""
           /\ FillUuid(p).port = p.port /\ FillUuid(p).tls_mode = p.tls_mode
           /\ FillUuid(p).congestion = p.congestion
BY ValuesKnown DEF Params, FillUuid, Or

LEMMA TlsFilled ==
    ASSUME NEW p \in Params
    PROVE  /\ FillTls(p) \in Params /\ HasTls(FillTls(p))
           /\ FillTls(p).port = p.port /\ FillTls(p).uuid = p.uuid /\ FillTls(p).tls_mode = p.tls_mode
           /\ FillTls(p).password = p.password /\ FillTls(p).congestion = p.congestion
<1>1. CASE HasTls(p)
  BY <1>1 DEF FillTls
<1>2. CASE ~HasTls(p)
  <2> DEFINE both == p.tls \cup PemPair
  <2>1. both \in SUBSET (PemPair \cup PathPair) /\ PemPair \subseteq both
    BY DEF Params
  <2>2. FillTls(p) = [p EXCEPT !.tls = both]
    BY <1>2 DEF FillTls
  <2> HIDE DEF both
  <2>3. FillTls(p) \in Params /\ FillTls(p).tls = both
    BY <2>1, <2>2 DEF Params
  <2> QED BY <2>1, <2>2, <2>3 DEF Params, HasTls
<1> QED BY <1>1, <1>2

LEMMA RealityFilled ==
    ASSUME NEW p \in Params, NEW key \in Nat \ {0}
    PROVE  /\ FillReality(p, key) \in Params
           /\ FillReality(p, key).private_key # 0
           /\ FillReality(p, key).short_id # "" /\ FillReality(p, key).server_name # ""
           /\ FillReality(p, key).port = p.port /\ FillReality(p, key).uuid = p.uuid
           /\ FillReality(p, key).tls_mode = p.tls_mode
<1> DEFINE private == IF p.private_key = 0 THEN key ELSE p.private_key
           short == Or(p.short_id, "sid")
           name == Or(p.server_name, "microsoft")
<1>1. /\ private \in Nat /\ private # 0
      /\ short # "" /\ short \in {"", "sid"}
      /\ name # "" /\ name \in {"", "name", "microsoft"}
  BY DEF Params, Or
<1>2. FillReality(p, key) = [p EXCEPT !.private_key = private, !.short_id = short, !.server_name = name]
  BY DEF FillReality
<1> HIDE DEF private, short, name
<1> QED BY <1>1, <1>2 DEF Params

LEMMA ModeFilled ==
    ASSUME NEW p \in Params, NEW protocol
    PROVE  /\ FillMode(protocol, p) \in Params
           /\ FillMode(protocol, p).port = p.port
           /\ FillMode(protocol, p).tls_mode # ""
           /\ FillMode(protocol, p).uuid = p.uuid
BY ValuesKnown DEF Params, FillMode, Or

\* The entry of a client agrees with a listener that converts, in each format.
LEMMA EntriesMeet ==
    ASSUME NEW protocol \in AllProtocols, NEW p, Converts(protocol, p), NEW format \in Formats
    PROVE  LET ep == [protocol |-> protocol, params |-> p, skip |-> "unset"]
               entry == Render(format, ep)
           IN
           /\ Carries(format, ep) =>
                  SecretsInOrder(protocol, Parse(format, entry).params) = SecretsInOrder(protocol, p)
           /\ entry.mode = Mode(protocol, p)
           /\ entry.mode = "reality" =>
                  /\ p.public_key \in {0, ListenerKey(p)} => entry.public = ListenerKey(p)
                  /\ entry.short = p.short_id /\ entry.sni = p.server_name
<1> DEFINE ep == [protocol |-> protocol, params |-> p, skip |-> "unset"]
           entry == Render(format, ep)
           mode == Mode(protocol, p)
<1>1. ep.protocol = protocol /\ ep.params = p
  OBVIOUS
<1>2. /\ mode \in {"none", "tls", "reality"}
      /\ mode = "reality" => protocol = "vless"
  BY DEF Converts, TlsComplete, ModesOf
<1>3. EntryMode(format, ep) = mode
  <2>1. EntryMode(format, ep) = IF format # "link" THEN mode
                                ELSE IF mode = "tls" \/ (mode = "reality" /\ protocol = "vless") THEN mode ELSE "none"
    BY <1>1 DEF EntryMode
  <2> HIDE DEF mode
  <2> QED BY <1>2, <2>1
<1> HIDE DEF ep
<1>4. /\ entry.mode = mode
      /\ mode = "reality" => entry.public = PublicKey(p) /\ entry.short = p.short_id
      /\ entry.sni = IF protocol = "shadowsocks" \/ (mode = "none" /\ format # "link") THEN "" ELSE Sni(format, mode, p)
  <2> HIDE DEF mode
  <2> QED BY <1>1, <1>3 DEF Render
<1>5. ASSUME mode = "reality"
      PROVE  /\ p.public_key \in {0, ListenerKey(p)} => PublicKey(p) = ListenerKey(p)
             /\ p.server_name # ""
  BY <1>5 DEF Converts, TlsComplete, PublicKey, ListenerKey
<1>6. mode = "reality" => entry.sni = p.server_name
  <2> HIDE DEF mode, entry
  <2> QED BY <1>2, <1>4, <1>5 DEF Sni
<1>8. Carries(format, ep) => SecretsInOrder(protocol, Parse(format, entry).params) = SecretsInOrder(protocol, p)
  <2>1. Carries(format, ep) =>
            SecretsInOrder(ep.protocol, Parse(format, Render(format, ep)).params) = SecretsInOrder(ep.protocol, p)
    BY <1>1, SecretsReadBack
  <2> QED BY <1>1, <2>1
<1> HIDE DEF mode, entry
<1>7. /\ Carries(format, ep) => SecretsInOrder(protocol, Parse(format, entry).params) = SecretsInOrder(protocol, p)
      /\ entry.mode = mode
      /\ entry.mode = "reality" =>
             /\ p.public_key \in {0, ListenerKey(p)} => entry.public = ListenerKey(p)
             /\ entry.short = p.short_id /\ entry.sni = p.server_name
  BY <1>4, <1>5, <1>6, <1>8
<1> QED BY <1>7 DEF entry, ep, mode

\* Fill, protocol by protocol.
LEMMA SecretsKnown ==
    ASSUME NEW p
    PROVE  /\ Secrets("shadowsocks", p) = {p.method, p.password}
           /\ \A protocol \in PasswordTls : Secrets(protocol, p) = {p.password}
           /\ Secrets("tuic", p) = {p.uuid, p.password}
           /\ \A protocol \in {"vless", "vmess"} : Secrets(protocol, p) = {p.uuid}
<1>1. \A a : {<<a>>[i] : i \in DOMAIN <<a>>} = {a}
  OBVIOUS
<1>2. \A a, b : {<<a, b>>[i] : i \in DOMAIN <<a, b>>} = {a, b}
  OBVIOUS
<1>3. /\ SecretsInOrder("shadowsocks", p) = <<p.method, p.password>>
      /\ \A protocol \in PasswordTls : SecretsInOrder(protocol, p) = <<p.password>>
      /\ SecretsInOrder("tuic", p) = <<p.uuid, p.password>>
      /\ \A protocol \in {"vless", "vmess"} : SecretsInOrder(protocol, p) = <<p.uuid>>
  BY DEF SecretsInOrder, PasswordTls
<1> QED BY <1>1, <1>2, <1>3 DEF Secrets

LEMMA ShadowsocksFilled ==
    ASSUME NEW p \in Params, NEW key, NEW psk \in Psks
    PROVE  LET q == Fill("shadowsocks", p, key, psk) IN
           q \in Params /\ (WellGiven("shadowsocks", q) => Converts("shadowsocks", q))
<1> DEFINE r == [p EXCEPT !.method = Or(@, "aead")]
           q == Repaired(r, psk)
<1>1. r \in Params /\ r.method # ""
  BY ValuesKnown DEF Params, Or
<1> HIDE DEF r
<1>2. /\ q \in Params /\ q.method = r.method /\ q.password # ""
      /\ q.method = "2022" => q.password \in Psks
  <2>0. Psks \subseteq Values.password /\ "" \notin Psks
    BY ValuesKnown DEF Psks, PasswordForms
  <2>1. CASE r.method = "2022" /\ r.password \notin Psks
    BY <1>1, <2>0, <2>1, ValuesKnown DEF Repaired, Params
  <2>3. CASE r.method = "2022" /\ r.password \in Psks
    BY <1>1, <2>0, <2>3 DEF Repaired
  <2>2. CASE r.method # "2022"
    BY <1>1, <2>2, PasswordFilled DEF Repaired
  <2> QED BY <2>1, <2>2, <2>3
<1>3. q = Fill("shadowsocks", p, key, psk)
  BY DEF Fill, PasswordTls, r
<1> HIDE DEF q
<1>4. "" \notin Secrets("shadowsocks", q)
  BY <1>1, <1>2, SecretsKnown
<1>5. Mode("shadowsocks", q) = "none"
  BY DEF Mode, PasswordTls
<1>6. WellGiven("shadowsocks", q) => Converts("shadowsocks", q)
  BY <1>2, <1>4, <1>5 DEF WellGiven, Converts, SecretsGiven, TlsComplete
<1> QED BY <1>2, <1>3, <1>6

LEMMA PasswordTlsFilled ==
    ASSUME NEW p \in Params, NEW key, NEW psk, NEW protocol \in PasswordTls
    PROVE  LET q == Fill(protocol, p, key, psk) IN
           q \in Params /\ (WellGiven(protocol, q) => Converts(protocol, q))
<1> DEFINE q == FillTls(FillPassword(p))
<1>1. q \in Params /\ q.password # "" /\ HasTls(q)
  BY PasswordFilled, TlsFilled
<1>2. q = Fill(protocol, p, key, psk)
  BY DEF Fill, PasswordTls
<1> HIDE DEF q
<1>3. "" \notin Secrets(protocol, q)
  BY <1>1, SecretsKnown
<1>4. Mode(protocol, q) = "tls"
  BY DEF Mode, PasswordTls
<1>5. WellGiven(protocol, q) => Converts(protocol, q)
  BY <1>1, <1>3, <1>4 DEF WellGiven, Converts, SecretsGiven, TlsComplete, PasswordTls
<1> QED BY <1>1, <1>2, <1>5

LEMMA TuicFilled ==
    ASSUME NEW p \in Params, NEW key, NEW psk
    PROVE  LET q == Fill("tuic", p, key, psk) IN
           q \in Params /\ (WellGiven("tuic", q) => Converts("tuic", q))
<1> DEFINE r == [p EXCEPT !.congestion = Or(@, "cubic")]
           q == FillTls(FillPassword(FillUuid(r)))
<1>1. r \in Params /\ r.congestion \in {"cubic", "other"}
  BY ValuesKnown DEF Params, Or
<1> HIDE DEF r
<1>2. /\ q \in Params /\ q.password # "" /\ q.uuid # "" /\ HasTls(q)
      /\ q.congestion \in {"cubic", "other"}
  <2>1. FillUuid(r) \in Params /\ FillUuid(r).uuid # "" /\ FillUuid(r).congestion = r.congestion
    BY <1>1, UuidFilled
  <2>2. /\ FillPassword(FillUuid(r)) \in Params /\ FillPassword(FillUuid(r)).password # ""
        /\ FillPassword(FillUuid(r)).uuid = FillUuid(r).uuid
        /\ FillPassword(FillUuid(r)).congestion = FillUuid(r).congestion
    BY <2>1, PasswordFilled
  <2> QED BY <1>1, <2>1, <2>2, TlsFilled
<1>3. q = Fill("tuic", p, key, psk)
  BY DEF Fill, PasswordTls, r
<1> HIDE DEF q
<1>4. "" \notin Secrets("tuic", q)
  BY <1>2, SecretsKnown
<1>5. Mode("tuic", q) = "tls"
  BY DEF Mode, PasswordTls
<1>6. WellGiven("tuic", q) => Converts("tuic", q)
  BY <1>2, <1>4, <1>5 DEF WellGiven, Converts, SecretsGiven, TlsComplete
<1> QED BY <1>2, <1>3, <1>6

LEMMA UuidOnlyFilled ==
    ASSUME NEW p \in Params, NEW key \in Nat \ {0}, NEW psk, NEW protocol \in {"vless", "vmess"},
           ~FillRefuses(protocol, p)
    PROVE  LET q == Fill(protocol, p, key, psk) IN
           q \in Params /\ (WellGiven(protocol, q) => Converts(protocol, q))
<1> DEFINE r == FillUuid(FillMode(protocol, p))
           q == FillByMode(r, key)
<1>1. /\ r \in Params /\ r.uuid # ""
      /\ r.tls_mode \in ModesOf(protocol) /\ r.tls_mode # ""
  <2>1. /\ FillMode(protocol, p) \in Params /\ FillMode(protocol, p).tls_mode # ""
        /\ FillMode(protocol, p).tls_mode \in ModesOf(protocol)
    BY ModeFilled DEF FillRefuses
  <2> QED BY <2>1, UuidFilled
<1>2. r.tls_mode \in {"none", "tls", "reality"}
  BY <1>1 DEF ModesOf
<1> HIDE DEF r
<1>3. /\ q \in Params /\ q.uuid # "" /\ q.tls_mode = r.tls_mode
      /\ q.tls_mode = "tls" => HasTls(q)
      /\ q.tls_mode = "reality" => q.private_key # 0 /\ q.short_id # "" /\ q.server_name # ""
  BY <1>1, <1>2, TlsFilled, RealityFilled DEF FillByMode
<1>4. q = Fill(protocol, p, key, psk)
  BY DEF Fill, PasswordTls, r
<1> HIDE DEF q
<1>5. "" \notin Secrets(protocol, q)
  BY <1>3, SecretsKnown
<1>6. Mode(protocol, q) = q.tls_mode
  BY <1>1, <1>3 DEF Mode, PasswordTls
<1>7. WellGiven(protocol, q) => Converts(protocol, q)
  BY <1>1, <1>3, <1>5, <1>6 DEF WellGiven, Converts, SecretsGiven, TlsComplete
<1> QED BY <1>3, <1>4, <1>7

\* Whatever parameters a request gives for a protocol: if Fill does not refuse them, what it
\* leaves is a listener that the clients of every format can connect to (fill.go, converter.go).
THEOREM FilledMeets ==
    ASSUME NEW protocol \in AllProtocols, NEW p \in Params, NEW key \in Nat \ {0}, NEW psk \in Psks,
           ~FillRefuses(protocol, p)
    PROVE  Fill(protocol, p, key, psk) \in Params /\ Meets(protocol, Fill(protocol, p, key, psk))
<1> DEFINE q == Fill(protocol, p, key, psk)
<1>1. q \in Params /\ (WellGiven(protocol, q) => Converts(protocol, q))
  BY ShadowsocksFilled, PasswordTlsFilled, TuicFilled, UuidOnlyFilled DEF AllProtocols
<1> HIDE DEF q
<1>2. Meets(protocol, q)
  BY <1>1, EntriesMeet DEF Meets
<1> QED BY <1>1, <1>2 DEF q

LEMMA BlankTyped == Blank \in Params /\ [Blank EXCEPT !.port = 1] \in Params /\ NoRow \in InboundRow
<1>1. Blank \in Params
  BY ValuesKnown DEF Blank, Params, PasswordForms
<1>2. [Blank EXCEPT !.port = 1] \in Params
  BY <1>1, ValuesKnown DEF Params
<1> QED BY <1>1, <1>2 DEF NoRow, InboundRow

LEMMA InboundStarts == InboundInit => InboundInv
<1> SUFFICES ASSUME InboundInit PROVE InboundInv
  OBVIOUS
<1>1. NoRow.at = "none" /\ NoUpdate.on = FALSE
  BY DEF NoRow, NoUpdate
<1>2. NoUpdate \in [on : BOOLEAN, row : InboundRow, overlapped : BOOLEAN]
  BY BlankTyped DEF NoUpdate
<1> QED BY <1>1, <1>2, BlankTyped, InboundAssumption DEF InboundInit, InboundInv, RowGood

\* A row written from a request with parameters.
LEMMA RowFilled ==
    ASSUME NEW protocol \in Protocols, NEW p \in Params, NEW psk \in Psks, InboundInv, ~FillRefuses(protocol, p)
    PROVE  Fill(protocol, p, FreshKey, psk) \in Params /\ Meets(protocol, Fill(protocol, p, FreshKey, psk))
<1>1. protocol \in AllProtocols
  BY InboundAssumption DEF AllProtocols
<1>2. FreshKey \in Nat \ {0}
  BY InboundAssumption DEF FreshKey, InboundInv
<1> QED BY <1>1, <1>2, FilledMeets

LEMMA RequestCounted ==
    ASSUME InboundInv, Request
    PROVE  inboundOps' \in 0 .. MaxInboundOps
BY InboundAssumption DEF InboundInv, Request

LEMMA InboundCreated ==
    ASSUME InboundInv, NEW protocol \in Protocols, NEW given \in Given \cup {Nothing}, NEW psk \in Psks,
           CreateInbound(protocol, given, psk)
    PROVE  InboundInv'
<1> DEFINE p == Merge(given, [Blank EXCEPT !.port = 1])
           q == Fill(protocol, p, FreshKey, psk)
           row == [at |-> "live", protocol |-> protocol, params |-> q, skipped |-> FALSE]
<1>1. p \in Params
  BY BlankTyped, MergeTyped
<1>2. q \in Params /\ Meets(protocol, q)
  BY <1>1, RowFilled DEF CreateInbound
<1>3. /\ inbound.at = "none" /\ inboundOps' \in 0 .. MaxInboundOps
      /\ inbound' = row /\ UNCHANGED <<update, chainUse, deployedRow>>
  BY RequestCounted DEF CreateInbound
<1> HIDE DEF p, q
<1>4. row \in InboundRow /\ RowGood(row) /\ row.at = "live"
  BY <1>2 DEF InboundRow, RowGood
<1> HIDE DEF row
<1>5. chainUse = "none"
  BY <1>3 DEF InboundInv
<1> QED BY <1>3, <1>4, <1>5 DEF InboundInv, RowGood

LEMMA UpdateChecked ==
    ASSUME InboundInv, NEW protocol \in Protocols, NEW given \in Given \cup {Nothing}, NEW psk \in Psks,
           UpdateChecks(protocol, given, psk)
    PROVE  InboundInv'
<1> DEFINE p == Merge(given, inbound.params)
           q == Fill(protocol, p, FreshKey, psk)
           kept == [inbound EXCEPT !.protocol = protocol, !.skipped = @ \/ protocol # inbound.protocol]
           filled == [inbound EXCEPT !.protocol = protocol, !.params = q, !.skipped = FALSE]
           row == IF given = Nothing THEN kept ELSE filled
<1>1. inbound \in InboundRow /\ inbound.at = "live" /\ RowGood(inbound) /\ chainUse # "enabled"
  BY DEF InboundInv, UpdateChecks
<1>2. inboundOps' \in 0 .. MaxInboundOps /\ UNCHANGED <<inbound, chainUse, deployedRow>>
  BY RequestCounted DEF UpdateChecks
<1>3. update' = [on |-> TRUE, row |-> row, overlapped |-> FALSE]
  BY DEF UpdateChecks
<1>4. kept \in InboundRow /\ kept.at = "live" /\ RowGood(kept)
  <2> DEFINE changed == inbound.skipped \/ protocol # inbound.protocol
  <2>1. kept = [inbound EXCEPT !.protocol = protocol, !.skipped = changed]
    OBVIOUS
  <2>2. changed \in BOOLEAN
    BY Zenon
  <2>3. changed \/ (protocol = inbound.protocol /\ ~inbound.skipped)
    BY Zenon
  <2> HIDE DEF changed, kept
  <2>4. /\ kept \in InboundRow /\ kept.at = "live" /\ kept.protocol = protocol
        /\ kept.skipped = changed /\ kept.params = inbound.params
    BY <1>1, <2>1, <2>2 DEF InboundRow
  <2> QED BY <1>1, <2>3, <2>4 DEF RowGood
<1>5. ASSUME given # Nothing PROVE filled \in InboundRow /\ filled.at = "live" /\ RowGood(filled)
  <2>1. p \in Params
    BY <1>1, MergeTyped DEF InboundRow
  <2>2. q \in Params /\ Meets(protocol, q)
    BY <1>5, <2>1, RowFilled DEF UpdateChecks
  <2> HIDE DEF p, q
  <2> QED BY <1>1, <2>2 DEF InboundRow, RowGood
<1> HIDE DEF kept, filled
<1>6. row \in InboundRow /\ row.at = "live" /\ RowGood(row)
  BY <1>4, <1>5
<1> HIDE DEF row
<1>7. update' \in [on : BOOLEAN, row : InboundRow, overlapped : BOOLEAN] /\ update'.row = row /\ update'.on
  BY <1>3, <1>6
<1> QED BY <1>1, <1>2, <1>6, <1>7 DEF InboundInv, RowGood

LEMMA UpdateWritten ==
    ASSUME InboundInv, UpdateWrites
    PROVE  InboundInv'
<1>1. /\ update.on /\ update \in [on : BOOLEAN, row : InboundRow, overlapped : BOOLEAN]
      /\ inbound' = (IF inbound.at = "live" THEN update.row ELSE inbound)
      /\ update' = NoUpdate /\ deployedRow' = (IF update.overlapped THEN inbound' ELSE deployedRow)
      /\ UNCHANGED <<chainUse, inboundOps>>
  BY DEF UpdateWrites, InboundInv
<1>2. NoUpdate \in [on : BOOLEAN, row : InboundRow, overlapped : BOOLEAN] /\ NoUpdate.on = FALSE
  BY BlankTyped DEF NoUpdate
<1>3. inbound' \in InboundRow /\ RowGood(inbound') /\ (inbound.at = "live" => inbound'.at = "live")
  BY <1>1 DEF InboundInv
<1>4. chainUse = "enabled" => inbound' = deployedRow'
  BY <1>1 DEF InboundInv
<1> QED BY <1>1, <1>2, <1>3, <1>4 DEF InboundInv, RowGood

LEMMA InboundDeleted ==
    ASSUME InboundInv, DeleteInbound
    PROVE  InboundInv'
<1>1. NoRow.at = "none"
  BY DEF NoRow
<1> QED BY <1>1, BlankTyped DEF InboundInv, DeleteInbound, RowGood

LEMMA ChainChanged ==
    ASSUME InboundInv, NEW use \in {"none", "disabled", "enabled"}, ChainChanges(use)
    PROVE  InboundInv'
<1>1. /\ inbound.at = "live" /\ chainUse' = use /\ deployedRow' = (IF use = "enabled" THEN inbound ELSE NoRow)
      /\ update' = (IF update.on /\ use = "enabled" THEN [update EXCEPT !.overlapped = TRUE] ELSE update)
      /\ UNCHANGED <<inbound, inboundOps>>
  BY DEF ChainChanges
<1>2. /\ update' \in [on : BOOLEAN, row : InboundRow, overlapped : BOOLEAN]
      /\ update'.on = update.on /\ update'.row = update.row
      /\ use = "enabled" /\ update.on => update'.overlapped
  BY <1>1 DEF InboundInv
<1> QED BY <1>1, <1>2 DEF InboundInv, RowGood

LEMMA InboundStep ==
    ASSUME InboundInv, [InboundNext]_inboundVars
    PROVE  InboundInv'
<1>1. CASE UNCHANGED inboundVars
  BY <1>1 DEF inboundVars, InboundInv, RowGood
<1>2. CASE InboundNext
  BY <1>2, InboundCreated, UpdateChecked, UpdateWritten, InboundDeleted, ChainChanged DEF InboundNext
<1> QED BY <1>1, <1>2

LEMMA InboundSafe == InboundInv => InboundTypeOK /\ ListenerMeetsClients /\ ChainKeepsRow
<1> SUFFICES ASSUME InboundInv PROVE InboundTypeOK /\ ListenerMeetsClients /\ ChainKeepsRow
  OBVIOUS
<1>1. inbound.params \in Params /\ inbound.protocol \in Protocols \cup {""} /\ inbound.at \in {"none", "live"}
  BY DEF InboundInv, InboundRow
<1>2. inbound.params.tls_mode \in Values.tls_mode /\ inbound.params.port \in Values.port
  BY <1>1, ValuesKnown DEF Params
<1>3. InboundTypeOK
  BY <1>1, <1>2 DEF InboundInv, InboundTypeOK
<1> QED BY <1>3 DEF InboundInv, RowGood, ListenerMeetsClients, ChainKeepsRow

LEMMA InboundAlways == InboundSpec => []InboundInv
BY InboundStarts, InboundStep, PTL DEF InboundSpec

\* Whatever a series of requests gave, emptied or left over from another protocol: the listener
\* of a row that was filled for its protocol meets the clients of every format (fill.go,
\* converter.go, render.go).
THEOREM ListenersAlwaysMeetClients == InboundSpec => []ListenerMeetsClients
BY InboundAlways, InboundSafe, PTL

\* Parameters do not change under an enabled chain, unless the request overlapped the enabling
\* (handleUpdateInbound).
THEOREM ChainAlwaysKeepsRow == InboundSpec => []ChainKeepsRow
BY InboundAlways, InboundSafe, PTL

(***************************************************************************)
(* The order of versions. Whatever is compared place by place, the first   *)
(* place that tells a difference decides; and where each place is ordered, *)
(* so is the whole.                                                        *)
(***************************************************************************)

Places == Nat \ {0}
Signs == {-1, 0, 1}

\* v is the first place of f that is not 0.
FirstTold(v, f) ==
    \/ v = 0 /\ \A i \in Places : f[i] = 0
    \/ v # 0 /\ \E i \in Places : f[i] = v /\ \A j \in Places : j < i => f[j] = 0

\* How a to b, b to c and a to c compare, when what is compared is ordered.
Ordered(ab, bc, ac) ==
    /\ ab <= 0 /\ bc <= 0 => ac <= 0
    /\ ab <= 0 /\ bc <= 0 /\ (ab < 0 \/ bc < 0) => ac < 0
    /\ ab = 0 /\ bc = 0 => ac = 0

LEMMA LeastPlace ==
    ASSUME NEW T \in SUBSET Nat, T # {}
    PROVE  \E x \in T : \A y \in T : x <= y
<1> DEFINE R == OpToRel(<, Nat)
<1>1. IsWellFoundedOn(R, Nat)
  BY NatLessThanWellFounded
<1> HIDE DEF R
<1>2. PICK x \in T : \A y \in T : ~(<<y, x>> \in R)
  BY <1>1, WFMin
<1>3. \A y, z \in Nat : y < z => <<y, z>> \in R
  BY DEF R, OpToRel
<1>4. ASSUME NEW y \in T PROVE x <= y
  <2>1. x \in Nat /\ y \in Nat
    OBVIOUS
  <2>2. ~(y < x)
    BY <1>2, <1>3, <2>1
  <2> QED BY <2>1, <2>2
<1> QED BY <1>4

\* Decide returns the first place that tells a difference.
LEMMA DecideFirst ==
    ASSUME NEW n \in Nat, NEW results, DOMAIN results = 1 .. n, \A i \in 1 .. n : results[i] \in Signs,
           NEW f, \A i \in Places : f[i] = IF i <= n THEN results[i] ELSE 0
    PROVE  Decide(results) \in Signs /\ FirstTold(Decide(results), f)
<1> DEFINE telling == {i \in DOMAIN results : results[i] # 0}
<1>1. CASE telling = {}
  <2>1. Decide(results) = 0
    BY <1>1 DEF Decide
  <2>2. \A i \in Places : f[i] = 0
    BY <1>1 DEF Places
  <2> QED BY <2>1, <2>2 DEF FirstTold, Signs
<1>2. CASE telling # {}
  <2> DEFINE k == CHOOSE i \in telling : \A j \in telling : i <= j
  <2>3. Decide(results) = results[k]
    <3>1. Decide(results) = IF telling = {} THEN 0 ELSE results[k]
      BY Zenon DEF Decide
    <3> QED BY Zenon, <1>2, <3>1
  <2>1. \E i \in telling : \A j \in telling : i <= j
    <3>1. telling \in SUBSET Nat
      OBVIOUS
    <3> QED BY <1>2, <3>1, LeastPlace
  <2> HIDE DEF telling
  <2>2. k \in telling /\ \A j \in telling : k <= j
    BY <2>1
  <2> HIDE DEF k
  <2>4. k \in 1 .. n /\ results[k] # 0 /\ \A j \in 1 .. n : results[j] # 0 => k <= j
    BY <2>2 DEF telling
  <2>5. ASSUME NEW j \in Places, j < k PROVE f[j] = 0
    BY <2>4, <2>5 DEF Places
  <2>6. k \in Places /\ f[k] = results[k]
    BY <2>4 DEF Places
  <2> QED BY <2>3, <2>4, <2>5, <2>6 DEF FirstTold
<1> QED BY <1>1, <1>2

\* The first place told is negated with the places.
LEMMA FirstNegated ==
    ASSUME NEW u \in Signs, NEW v \in Signs, NEW f, NEW g,
           \A i \in Places : f[i] \in Signs /\ g[i] = -f[i],
           FirstTold(u, f), FirstTold(v, g)
    PROVE  v = -u
<1>1. CASE u = 0
  BY <1>1 DEF FirstTold, Signs
<1>2. CASE u # 0
  <2>1. PICK i \in Places : f[i] = u /\ \A j \in Places : j < i => f[j] = 0
    BY <1>2 DEF FirstTold
  <2>2. v # 0
    BY <1>2, <2>1 DEF FirstTold, Signs
  <2>3. PICK k \in Places : g[k] = v /\ \A j \in Places : j < k => g[j] = 0
    BY <2>2 DEF FirstTold
  <2>4. f[k] # 0 /\ g[i] # 0
    BY <1>2, <2>1, <2>2, <2>3 DEF Signs
  <2>5. i = k
    BY <2>1, <2>3, <2>4 DEF Places
  <2> QED BY <2>1, <2>3, <2>5
<1> QED BY <1>1, <1>2

\* Places in order give a whole in order.
LEMMA FirstOrdered ==
    ASSUME NEW u \in Signs, NEW v \in Signs, NEW w \in Signs, NEW f, NEW g, NEW h,
           \A i \in Places : f[i] \in Signs /\ g[i] \in Signs /\ h[i] \in Signs /\ Ordered(f[i], g[i], h[i]),
           FirstTold(u, f), FirstTold(v, g), FirstTold(w, h)
    PROVE  Ordered(u, v, w)
<1>0. \A i \in Places : /\ f[i] = 0 /\ g[i] = 0 => h[i] = 0
                        /\ f[i] < 0 /\ g[i] = 0 => h[i] < 0
                        /\ f[i] = 0 /\ g[i] < 0 => h[i] < 0
                        /\ f[i] < 0 /\ g[i] < 0 => h[i] < 0
  BY DEF Ordered, Signs
<1>1. ASSUME NEW k \in Places, h[k] < 0, \A j \in Places : j < k => h[j] = 0 PROVE w < 0
  <2>1. w # 0
    BY <1>1 DEF FirstTold
  <2>2. PICK i \in Places : h[i] = w /\ \A j \in Places : j < i => h[j] = 0
    BY <2>1 DEF FirstTold
  <2>3. i = k
    BY <1>1, <2>1, <2>2 DEF Places
  <2> QED BY <1>1, <2>2, <2>3
<1>2. ASSUME u = 0, v = 0 PROVE w = 0
  <2>1. \A i \in Places : h[i] = 0
    BY <1>2 DEF FirstTold, Ordered
  <2> QED BY <2>1 DEF FirstTold
<1>3. ASSUME u < 0, v = 0 PROVE w < 0
  <2>1. PICK i \in Places : f[i] = u /\ \A j \in Places : j < i => f[j] = 0
    BY <1>3 DEF FirstTold, Signs
  <2>2. \A j \in Places : g[j] = 0
    BY <1>3 DEF FirstTold
  <2>3. f[i] < 0
    BY <1>3, <2>1
  <2>4. h[i] < 0
    BY Zenon, <1>0, <2>1, <2>2, <2>3
  <2>5. ASSUME NEW j \in Places, j < i PROVE h[j] = 0
    BY Zenon, <1>0, <2>1, <2>2, <2>5
  <2> QED BY <1>1, <2>1, <2>4, <2>5
<1>4. ASSUME u = 0, v < 0 PROVE w < 0
  <2>1. PICK i \in Places : g[i] = v /\ \A j \in Places : j < i => g[j] = 0
    BY <1>4 DEF FirstTold, Signs
  <2>2. \A j \in Places : f[j] = 0
    BY <1>4 DEF FirstTold
  <2>3. g[i] < 0
    BY <1>4, <2>1
  <2>4. h[i] < 0
    BY Zenon, <1>0, <2>1, <2>2, <2>3
  <2>5. ASSUME NEW j \in Places, j < i PROVE h[j] = 0
    BY Zenon, <1>0, <2>1, <2>2, <2>5
  <2> QED BY <1>1, <2>1, <2>4, <2>5
<1>5. ASSUME u < 0, v < 0 PROVE w < 0
  <2>1. PICK i \in Places : f[i] = u /\ \A j \in Places : j < i => f[j] = 0
    BY <1>5 DEF FirstTold, Signs
  <2>2. PICK k \in Places : g[k] = v /\ \A j \in Places : j < k => g[j] = 0
    BY <1>5 DEF FirstTold, Signs
  <2>3. f[i] < 0 /\ g[k] < 0
    BY <1>5, <2>1, <2>2
  <2>4. i \in Nat /\ k \in Nat /\ \A j \in Places : j \in Nat
    BY DEF Places
  <2>5. CASE i = k
    <3>1. h[i] < 0
      BY Zenon, <1>0, <2>1, <2>2, <2>3, <2>5
    <3>2. ASSUME NEW j \in Places, j < i PROVE h[j] = 0
      BY Zenon, <1>0, <2>1, <2>2, <2>5, <3>2
    <3> QED BY <1>1, <2>1, <2>2, <3>1, <3>2
  <2>6. CASE i < k
    <3>1. h[i] < 0
      BY Zenon, <1>0, <2>1, <2>2, <2>3, <2>6
    <3>2. ASSUME NEW j \in Places, j < i PROVE h[j] = 0
      <4>1. j < k
        BY <2>1, <2>2, <2>4, <2>6, <3>2
      <4> QED BY Zenon, <1>0, <2>1, <2>2, <3>2, <4>1
    <3> QED BY <1>1, <2>1, <2>2, <3>1, <3>2
  <2>7. CASE k < i
    <3>1. h[k] < 0
      BY Zenon, <1>0, <2>1, <2>2, <2>3, <2>7
    <3>2. ASSUME NEW j \in Places, j < k PROVE h[j] = 0
      <4>1. j < i
        BY <2>1, <2>2, <2>4, <2>7, <3>2
      <4> QED BY Zenon, <1>0, <2>1, <2>2, <3>2, <4>1
    <3> QED BY <1>1, <2>1, <2>2, <3>1, <3>2
  <2> QED BY <2>4, <2>5, <2>6, <2>7
<1> QED BY <1>2, <1>3, <1>4, <1>5 DEF Ordered, Signs

VersionPart == [word : BOOLEAN, value : Int]

LEMMA CmpInOrder ==
    ASSUME NEW a \in Int, NEW b \in Int, NEW c \in Int
    PROVE  /\ Cmp(a, b) \in Signs /\ Cmp(b, a) = -Cmp(a, b)
           /\ Ordered(Cmp(a, b), Cmp(b, c), Cmp(a, c))
<1>1. ASSUME NEW x \in Int, NEW y \in Int
      PROVE  /\ (x < y /\ Cmp(x, y) = -1) \/ (x = y /\ Cmp(x, y) = 0) \/ (y < x /\ Cmp(x, y) = 1)
             /\ Cmp(x, y) \in Int
  <2>1. x < y \/ x = y \/ y < x
    OBVIOUS
  <2>2. CASE x < y
    <3>1. Cmp(x, y) = -1
      BY <2>2 DEF Cmp
    <3> QED BY <2>2, <3>1
  <2>3. CASE x = y
    <3>1. Cmp(x, y) = 0
      BY <2>3 DEF Cmp
    <3> QED BY <2>3, <3>1
  <2>4. CASE y < x
    <3>1. Cmp(x, y) = 1
      BY <2>4 DEF Cmp
    <3> QED BY <2>4, <3>1
  <2> QED BY <2>1, <2>2, <2>3, <2>4
<1>2. /\ (a < b /\ Cmp(a, b) = -1) \/ (a = b /\ Cmp(a, b) = 0) \/ (b < a /\ Cmp(a, b) = 1)
      /\ (b < a /\ Cmp(b, a) = -1) \/ (a = b /\ Cmp(b, a) = 0) \/ (a < b /\ Cmp(b, a) = 1)
      /\ (b < c /\ Cmp(b, c) = -1) \/ (b = c /\ Cmp(b, c) = 0) \/ (c < b /\ Cmp(b, c) = 1)
      /\ (a < c /\ Cmp(a, c) = -1) \/ (a = c /\ Cmp(a, c) = 0) \/ (c < a /\ Cmp(a, c) = 1)
  BY <1>1
<1> QED BY <1>2 DEF Signs, Ordered

LEMMA PartInOrder ==
    ASSUME NEW a \in VersionPart, NEW b \in VersionPart, NEW c \in VersionPart
    PROVE  /\ ComparePart(a, b) \in Signs /\ ComparePart(b, a) = -ComparePart(a, b)
           /\ Ordered(ComparePart(a, b), ComparePart(b, c), ComparePart(a, c))
<1>1. ASSUME NEW x \in VersionPart, NEW y \in VersionPart
      PROVE  /\ ~x.word /\ y.word => ComparePart(x, y) = -1
             /\ x.word /\ ~y.word => ComparePart(x, y) = 1
             /\ x.word /\ y.word => ComparePart(x, y) = Cmp(x.value, y.value)
             /\ ~x.word /\ ~y.word => ComparePart(x, y) = Cmp(x.value, y.value)
  BY DEF ComparePart
<1>2. /\ Cmp(a.value, b.value) \in Signs /\ Cmp(b.value, a.value) = -Cmp(a.value, b.value)
      /\ Cmp(b.value, c.value) \in Signs /\ Cmp(a.value, c.value) \in Signs
      /\ Ordered(Cmp(a.value, b.value), Cmp(b.value, c.value), Cmp(a.value, c.value))
  <2>1. a.value \in Int /\ b.value \in Int /\ c.value \in Int
    BY DEF VersionPart
  <2> QED BY <2>1, CmpInOrder
<1>3. /\ a.word /\ b.word => ComparePart(b, a) = Cmp(b.value, a.value)
      /\ ~a.word /\ ~b.word => ComparePart(b, a) = Cmp(b.value, a.value)
      /\ ~b.word /\ a.word => ComparePart(b, a) = -1
      /\ b.word /\ ~a.word => ComparePart(b, a) = 1
  BY <1>1
<1>4. ComparePart(a, b) \in Signs /\ ComparePart(b, a) = -ComparePart(a, b)
  <2>1. CASE a.word /\ b.word
    BY <1>1, <1>2, <1>3, <2>1
  <2>2. CASE ~a.word /\ ~b.word
    BY <1>1, <1>2, <1>3, <2>2
  <2>3. CASE a.word /\ ~b.word
    BY <1>1, <1>3, <2>3 DEF Signs
  <2>4. CASE ~a.word /\ b.word
    BY <1>1, <1>3, <2>4 DEF Signs
  <2> QED BY <2>1, <2>2, <2>3, <2>4
<1>5. Ordered(ComparePart(a, b), ComparePart(b, c), ComparePart(a, c))
  <2>1. CASE a.word /\ b.word /\ c.word
    BY <1>1, <1>2, <2>1
  <2>2. CASE ~a.word /\ ~b.word /\ ~c.word
    BY <1>1, <1>2, <2>2
  <2>3. CASE (a.word /\ ~b.word) \/ (b.word /\ ~c.word)
    <3>1. ComparePart(a, b) = 1 \/ ComparePart(b, c) = 1
      BY <1>1, <2>3
    <3> QED BY <3>1 DEF Ordered
  <2>4. CASE ~a.word /\ c.word
    <3>1. ComparePart(a, c) = -1
      BY <1>1, <2>4
    <3>2. ComparePart(a, b) = -1 \/ ComparePart(b, c) = -1
      BY <1>1, <2>4
    <3> QED BY <3>1, <3>2 DEF Ordered
  <2> QED BY <2>1, <2>2, <2>3, <2>4
<1> QED BY <1>4, <1>5

\* What two prereleases say at a place; one that has ended comes first.
Lasts(a, i) == IF i <= Len(a) THEN 1 ELSE 0
PreAt(a, b) == [i \in Places |-> IF i <= Len(a) /\ i <= Len(b) THEN ComparePart(a[i], b[i])
                                 ELSE Cmp(Lasts(a, i), Lasts(b, i))]

LEMMA PreAtOrdered ==
    ASSUME NEW a \in Seq(VersionPart), NEW b \in Seq(VersionPart), NEW c \in Seq(VersionPart), NEW i \in Places
    PROVE  /\ PreAt(a, b)[i] \in Signs /\ PreAt(b, a)[i] = -PreAt(a, b)[i]
           /\ Ordered(PreAt(a, b)[i], PreAt(b, c)[i], PreAt(a, c)[i])
<1>1. Len(a) \in Nat /\ Len(b) \in Nat /\ Len(c) \in Nat /\ i \in Nat /\ 1 <= i
  BY LenProperties DEF Places
<1>2. /\ i <= Len(a) => a[i] \in VersionPart
      /\ i <= Len(b) => b[i] \in VersionPart
      /\ i <= Len(c) => c[i] \in VersionPart
  BY <1>1, ElementOfSeq
<1>3. ASSUME NEW x \in Seq(VersionPart), NEW y \in Seq(VersionPart)
      PROVE  /\ i <= Len(x) /\ i <= Len(y) => PreAt(x, y)[i] = ComparePart(x[i], y[i])
             /\ ~(i <= Len(x)) /\ i <= Len(y) => PreAt(x, y)[i] = -1
             /\ i <= Len(x) /\ ~(i <= Len(y)) => PreAt(x, y)[i] = 1
             /\ ~(i <= Len(x)) /\ ~(i <= Len(y)) => PreAt(x, y)[i] = 0
  BY DEF PreAt, Lasts, Cmp
<1>4. PreAt(a, b)[i] \in Signs /\ PreAt(b, a)[i] = -PreAt(a, b)[i]
  <2>1. CASE i <= Len(a) /\ i <= Len(b)
    BY <1>2, <1>3, <2>1, PartInOrder
  <2>2. CASE ~(i <= Len(a) /\ i <= Len(b))
    BY <1>3, <2>2 DEF Signs
  <2> QED BY <2>1, <2>2
<1>5. Ordered(PreAt(a, b)[i], PreAt(b, c)[i], PreAt(a, c)[i])
  <2>1. CASE i <= Len(a) /\ i <= Len(b) /\ i <= Len(c)
    BY <1>2, <1>3, <2>1, PartInOrder
  <2>2. CASE ~(i <= Len(a)) /\ ~(i <= Len(b)) /\ ~(i <= Len(c))
    BY <1>3, <2>2 DEF Ordered
  <2>3. CASE (i <= Len(a) /\ ~(i <= Len(b))) \/ (i <= Len(b) /\ ~(i <= Len(c)))
    <3>1. PreAt(a, b)[i] = 1 \/ PreAt(b, c)[i] = 1
      BY <1>3, <2>3
    <3> QED BY <3>1 DEF Ordered
  <2>4. CASE ~(i <= Len(a)) /\ i <= Len(c)
    <3>1. PreAt(a, c)[i] = -1
      BY <1>3, <2>4
    <3>2. PreAt(a, b)[i] = -1 \/ PreAt(b, c)[i] = -1
      BY <1>3, <2>4
    <3> QED BY <3>1, <3>2 DEF Ordered
  <2> QED BY <2>1, <2>2, <2>3, <2>4
<1> QED BY <1>4, <1>5

\* A sequence of signs with one more at its end.
LEMMA SignsAppended ==
    ASSUME NEW n \in Nat, NEW f \in [1 .. n -> Signs], NEW s \in Signs
    PROVE  /\ DOMAIN (f \o <<s>>) = 1 .. n + 1
           /\ \A i \in 1 .. n : (f \o <<s>>)[i] = f[i]
           /\ (f \o <<s>>)[n + 1] = s
<1>1. f \in Seq(Signs) /\ Len(f) = n
  BY SeqDef
<1>2. <<s>> \in Seq(Signs) /\ Len(<<s>>) = 1 /\ <<s>>[1] = s
  OBVIOUS
<1>3. /\ f \o <<s>> \in Seq(Signs) /\ Len(f \o <<s>>) = n + 1
      /\ \A i \in 1 .. n + 1 : (f \o <<s>>)[i] = IF i <= n THEN f[i] ELSE <<s>>[i - n]
  BY <1>1, <1>2, ConcatProperties
<1>4. DOMAIN (f \o <<s>>) = 1 .. n + 1
  BY <1>3, LenProperties
<1>5. (f \o <<s>>)[n + 1] = <<s>>[(n + 1) - n] /\ (n + 1) - n = 1
  BY <1>3
<1>6. \A i \in 1 .. n : (f \o <<s>>)[i] = f[i]
  BY <1>3
<1> QED BY <1>2, <1>4, <1>5, <1>6

\* Places behind the one that settles the matter do not count.
LEMMA FirstCarried ==
    ASSUME NEW m \in Places, NEW v, NEW f, NEW g, FirstTold(v, f),
           \A i \in Places : i <= m => f[i] = g[i],
           \A i \in Places : m < i => f[i] = 0 /\ (f[m] = 0 => g[i] = 0)
    PROVE  FirstTold(v, g)
<1>0. m \in Nat /\ \A i \in Places : i \in Nat
  BY DEF Places
<1>1. CASE v = 0 /\ \A i \in Places : f[i] = 0
  <2>1. ASSUME NEW i \in Places PROVE g[i] = 0
    <3>1. i <= m \/ m < i
      BY <1>0
    <3> QED BY <1>1, <3>1
  <2> QED BY <1>1, <2>1 DEF FirstTold
<1>2. ASSUME v # 0, NEW i \in Places, f[i] = v, \A j \in Places : j < i => f[j] = 0
      PROVE  FirstTold(v, g)
  <2>1. ~(m < i)
    BY <1>2
  <2>2. i <= m
    BY <1>0, <2>1
  <2>3. ASSUME NEW j \in Places, j < i PROVE g[j] = 0
    <3>1. j <= m
      BY <1>0, <2>2, <2>3
    <3> QED BY <1>2, <2>3, <3>1
  <2> QED BY <1>2, <2>2, <2>3 DEF FirstTold
<1> QED BY <1>1, <1>2 DEF FirstTold

LEMMA PreFirst ==
    ASSUME NEW a \in Seq(VersionPart), NEW b \in Seq(VersionPart)
    PROVE  ComparePre(a, b) \in Signs /\ FirstTold(ComparePre(a, b), PreAt(a, b))
<1> DEFINE n == IF Len(a) < Len(b) THEN Len(a) ELSE Len(b)
           parts == [i \in 1 .. n |-> ComparePart(a[i], b[i])]
           last == Cmp(Len(a), Len(b))
           results == parts \o <<last>>
           f == [i \in Places |-> IF i <= n + 1 THEN results[i] ELSE 0]
           g == PreAt(a, b)
<1>1. Len(a) \in Nat /\ Len(b) \in Nat
  BY LenProperties
<1>2. n \in Nat /\ n <= Len(a) /\ n <= Len(b) /\ (n = Len(a) \/ n = Len(b))
  BY <1>1
<1>3. ComparePre(a, b) = Decide(results)
  BY DEF ComparePre
<1> HIDE DEF n
<1>4. \A i \in 1 .. n : a[i] \in VersionPart /\ b[i] \in VersionPart
  <2>1. \A i \in 1 .. n : i \in 1 .. Len(a) /\ i \in 1 .. Len(b)
    BY <1>1, <1>2
  <2> QED BY <2>1, ElementOfSeq
<1>5. parts \in [1 .. n -> Signs] /\ \A i \in 1 .. n : parts[i] = ComparePart(a[i], b[i])
  BY <1>4, PartInOrder
<1>6. last \in Signs
  BY <1>1, CmpInOrder
<1> HIDE DEF parts, last
<1>7. /\ DOMAIN results = 1 .. n + 1 /\ \A i \in 1 .. n : results[i] = parts[i]
      /\ results[n + 1] = last
  BY <1>2, <1>5, <1>6, SignsAppended
<1> HIDE DEF results
<1>8. \A i \in 1 .. n + 1 : results[i] \in Signs
  <2>1. \A i \in 1 .. n + 1 : i \in 1 .. n \/ i = n + 1
    BY <1>2
  <2> QED BY <1>5, <1>6, <1>7, <2>1
<1>9. n + 1 \in Nat /\ n + 1 \in Places /\ \A i \in Places : i \in Nat /\ 1 <= i
  BY <1>2 DEF Places
<1>10. Decide(results) \in Signs /\ FirstTold(Decide(results), f)
  BY <1>7, <1>8, <1>9, DecideFirst
<1>11. ASSUME NEW i \in Places, i <= n + 1 PROVE f[i] = g[i]
  <2>1. f[i] = results[i]
    BY <1>11
  <2>2. CASE i <= n
    <3>1. i <= Len(a) /\ i <= Len(b) /\ i \in 1 .. n
      BY <1>1, <1>2, <1>9, <2>2
    <3>2. g[i] = ComparePart(a[i], b[i])
      BY <3>1 DEF PreAt
    <3> QED BY <1>5, <1>7, <2>1, <3>1, <3>2
  <2>3. CASE i = n + 1
    <3>1. g[i] = Cmp(Lasts(a, i), Lasts(b, i))
      BY <1>1, <1>2, <2>3 DEF PreAt
    <3>2. Cmp(Lasts(a, i), Lasts(b, i)) = Cmp(Len(a), Len(b))
      <4>1. CASE Len(a) < Len(b)
        <5>1. Lasts(a, i) = 0 /\ Lasts(b, i) = 1
          BY <1>1, <1>2, <2>3, <4>1 DEF Lasts, n
        <5> QED BY <4>1, <5>1 DEF Cmp
      <4>2. CASE Len(a) = Len(b)
        <5>1. Lasts(a, i) = Lasts(b, i) /\ Lasts(a, i) \in Int
          BY <4>2 DEF Lasts
        <5> QED BY <1>1, <4>2, <5>1 DEF Cmp
      <4>3. CASE Len(b) < Len(a)
        <5>1. Lasts(a, i) = 1 /\ Lasts(b, i) = 0
          BY <1>1, <1>2, <2>3, <4>3 DEF Lasts, n
        <5> QED BY <1>1, <4>3, <5>1 DEF Cmp
      <4> QED BY <1>1, <4>1, <4>2, <4>3
    <3> QED BY <1>7, <2>1, <2>3, <3>1, <3>2 DEF last
  <2> QED BY <1>2, <1>9, <1>11, <2>2, <2>3
<1>12. ASSUME NEW i \in Places, n + 1 < i PROVE f[i] = 0 /\ (f[n + 1] = 0 => g[i] = 0)
  <2>1. f[i] = 0
    BY <1>2, <1>9, <1>12
  <2>2. ASSUME f[n + 1] = 0 PROVE g[i] = 0
    <3>1. Cmp(Len(a), Len(b)) = 0
      BY <1>2, <1>7, <1>9, <2>2 DEF last
    <3>2. Len(a) = Len(b)
      BY <1>1, <3>1 DEF Cmp
    <3>3. ~(i <= Len(a)) /\ ~(i <= Len(b))
      BY <1>1, <1>2, <1>9, <1>12, <3>2
    <3> QED BY <3>3 DEF PreAt, Lasts, Cmp
  <2> QED BY <2>1, <2>2
<1> HIDE DEF f, g
<1>13. FirstTold(Decide(results), g)
  BY <1>9, <1>10, <1>11, <1>12, FirstCarried
<1> QED BY <1>3, <1>10, <1>13 DEF g

\* What two versions say at a place: three numbers, then the prereleases.
PreOrder(a, b) ==
    CASE a = <<>> /\ b = <<>> -> 0
      [] a = <<>> /\ b # <<>> -> 1
      [] a # <<>> /\ b = <<>> -> -1
      [] OTHER -> ComparePre(a, b)

VersionAt(a, b) == [i \in Places |-> IF i <= 3 THEN Cmp(a.core[i], b.core[i])
                                     ELSE IF i <= 4 THEN PreOrder(a.pre, b.pre) ELSE 0]

IsVersion(a) == a.core \in [1 .. 3 -> Int] /\ a.pre \in Seq(VersionPart)

LEMMA PreInOrder ==
    ASSUME NEW a \in Seq(VersionPart), NEW b \in Seq(VersionPart), NEW c \in Seq(VersionPart)
    PROVE  /\ PreOrder(a, b) \in Signs /\ PreOrder(b, a) = -PreOrder(a, b)
           /\ Ordered(PreOrder(a, b), PreOrder(b, c), PreOrder(a, c))
<1>1. /\ ComparePre(a, b) \in Signs /\ ComparePre(b, a) \in Signs
      /\ ComparePre(b, c) \in Signs /\ ComparePre(a, c) \in Signs
      /\ FirstTold(ComparePre(a, b), PreAt(a, b)) /\ FirstTold(ComparePre(b, a), PreAt(b, a))
      /\ FirstTold(ComparePre(b, c), PreAt(b, c)) /\ FirstTold(ComparePre(a, c), PreAt(a, c))
  BY PreFirst
<1>2. \A i \in Places : /\ PreAt(a, b)[i] \in Signs /\ PreAt(b, c)[i] \in Signs /\ PreAt(a, c)[i] \in Signs
                        /\ PreAt(b, a)[i] = -PreAt(a, b)[i]
                        /\ Ordered(PreAt(a, b)[i], PreAt(b, c)[i], PreAt(a, c)[i])
  BY PreAtOrdered
<1>3. ComparePre(b, a) = -ComparePre(a, b)
  BY <1>1, <1>2, FirstNegated
<1>4. Ordered(ComparePre(a, b), ComparePre(b, c), ComparePre(a, c))
  BY <1>1, <1>2, FirstOrdered
<1>5. ASSUME NEW x, NEW y
      PROVE  /\ x = <<>> /\ y = <<>> => PreOrder(x, y) = 0
             /\ x = <<>> /\ y # <<>> => PreOrder(x, y) = 1
             /\ x # <<>> /\ y = <<>> => PreOrder(x, y) = -1
             /\ x # <<>> /\ y # <<>> => PreOrder(x, y) = ComparePre(x, y)
  <2>1. CASE x = <<>> /\ y = <<>>
    BY <2>1 DEF PreOrder
  <2>2. CASE x = <<>> /\ y # <<>>
    BY <2>2 DEF PreOrder
  <2>3. CASE x # <<>> /\ y = <<>>
    BY <2>3 DEF PreOrder
  <2>4. CASE x # <<>> /\ y # <<>>
    BY <2>4 DEF PreOrder
  <2> QED BY <2>1, <2>2, <2>3, <2>4
<1>6. PreOrder(a, b) \in Signs /\ PreOrder(b, a) = -PreOrder(a, b)
  <2>1. CASE a # <<>> /\ b # <<>>
    BY <1>1, <1>3, <1>5, <2>1
  <2>2. CASE a = <<>> \/ b = <<>>
    BY <1>5, <2>2 DEF Signs
  <2> QED BY <2>1, <2>2
<1>7. Ordered(PreOrder(a, b), PreOrder(b, c), PreOrder(a, c))
  <2>1. CASE a # <<>> /\ b # <<>> /\ c # <<>>
    BY <1>4, <1>5, <2>1
  <2>2. CASE a = <<>> /\ b = <<>> /\ c = <<>>
    BY <1>5, <2>2 DEF Ordered
  <2>3. CASE (a = <<>> /\ b # <<>>) \/ (b = <<>> /\ c # <<>>)
    <3>1. PreOrder(a, b) = 1 \/ PreOrder(b, c) = 1
      BY <1>5, <2>3
    <3> QED BY <3>1 DEF Ordered
  <2>4. CASE a # <<>> /\ c = <<>>
    <3>1. PreOrder(a, c) = -1
      BY <1>5, <2>4
    <3>2. PreOrder(a, b) = -1 \/ PreOrder(b, c) = -1
      BY <1>5, <2>4
    <3> QED BY <3>1, <3>2 DEF Ordered
  <2> QED BY <2>1, <2>2, <2>3, <2>4
<1> QED BY <1>6, <1>7

LEMMA VersionFirst ==
    ASSUME NEW a, NEW b, IsVersion(a), IsVersion(b)
    PROVE  Compare(a, b) \in Signs /\ FirstTold(Compare(a, b), VersionAt(a, b))
<1> DEFINE core == [i \in 1 .. 3 |-> Cmp(a.core[i], b.core[i])]
           last == PreOrder(a.pre, b.pre)
           results == core \o <<last>>
<1>1. Compare(a, b) = Decide(results)
  BY Zenon DEF Compare, PreOrder
<1>2. core \in [1 .. 3 -> Signs] /\ \A i \in 1 .. 3 : core[i] = Cmp(a.core[i], b.core[i])
  <2>1. \A i \in 1 .. 3 : a.core[i] \in Int /\ b.core[i] \in Int
    BY DEF IsVersion
  <2> QED BY <2>1, CmpInOrder
<1>3. last \in Signs
  BY PreInOrder DEF IsVersion
<1> HIDE DEF core, last
<1>4. /\ DOMAIN results = 1 .. 3 + 1 /\ \A i \in 1 .. 3 : results[i] = core[i]
      /\ results[3 + 1] = last
  <2>1. PICK n \in Nat : n = 3
    OBVIOUS
  <2>2. core \in [1 .. n -> Signs]
    BY <1>2, <2>1
  <2>3. /\ DOMAIN results = 1 .. n + 1 /\ \A i \in 1 .. n : results[i] = core[i]
        /\ results[n + 1] = last
    BY <1>3, <2>2, SignsAppended
  <2> HIDE DEF results
  <2> QED BY <2>1, <2>3
<1> HIDE DEF results
<1>5. DOMAIN results = 1 .. 4 /\ results[4] = last
  <2>1. 3 + 1 = 4
    OBVIOUS
  <2> QED BY <1>4, <2>1
<1>6. \A i \in 1 .. 4 : results[i] \in Signs
  <2>1. \A i \in 1 .. 4 : i \in 1 .. 3 \/ i = 4
    OBVIOUS
  <2> QED BY <1>2, <1>3, <1>4, <1>5, <2>1
<1>7. ASSUME NEW i \in Places PROVE VersionAt(a, b)[i] = IF i <= 4 THEN results[i] ELSE 0
  <2>1. i \in Nat /\ 1 <= i
    BY DEF Places
  <2>2. CASE i <= 3
    <3>1. i \in 1 .. 3 /\ i <= 4
      BY <2>1, <2>2
    <3> QED BY <1>2, <1>4, <2>2, <3>1 DEF VersionAt
  <2>3. CASE i = 4
    BY <1>5, <2>3 DEF VersionAt, last
  <2>4. CASE 4 < i
    BY <2>1, <2>4 DEF VersionAt
  <2> QED BY <2>1, <2>2, <2>3, <2>4
<1>8. Decide(results) \in Signs /\ FirstTold(Decide(results), VersionAt(a, b))
  BY <1>5, <1>6, <1>7, DecideFirst
<1> QED BY <1>1, <1>8

\* Versions of any numbers and any prereleases are ordered.
LEMMA VersionsInOrder ==
    ASSUME NEW a, NEW b, NEW c, IsVersion(a), IsVersion(b), IsVersion(c)
    PROVE  /\ Compare(a, b) \in Signs /\ Compare(b, a) = -Compare(a, b)
           /\ Ordered(Compare(a, b), Compare(b, c), Compare(a, c))
<1>1. /\ Compare(a, b) \in Signs /\ Compare(b, a) \in Signs
      /\ Compare(b, c) \in Signs /\ Compare(a, c) \in Signs
      /\ FirstTold(Compare(a, b), VersionAt(a, b)) /\ FirstTold(Compare(b, a), VersionAt(b, a))
      /\ FirstTold(Compare(b, c), VersionAt(b, c)) /\ FirstTold(Compare(a, c), VersionAt(a, c))
  <2>1. \A x, y : IsVersion(x) /\ IsVersion(y) =>
                   Compare(x, y) \in Signs /\ FirstTold(Compare(x, y), VersionAt(x, y))
    BY VersionFirst
  <2> QED BY <2>1
<1>2. ASSUME NEW i \in Places
      PROVE  /\ VersionAt(a, b)[i] \in Signs /\ VersionAt(b, c)[i] \in Signs /\ VersionAt(a, c)[i] \in Signs
             /\ VersionAt(b, a)[i] = -VersionAt(a, b)[i]
             /\ Ordered(VersionAt(a, b)[i], VersionAt(b, c)[i], VersionAt(a, c)[i])
  <2>1. i \in Nat /\ 1 <= i
    BY DEF Places
  <2>2. CASE i <= 3
    <3>0. i \in 1 .. 3
      BY <2>1, <2>2
    <3>1. a.core[i] \in Int /\ b.core[i] \in Int /\ c.core[i] \in Int
      <4>1. a.core \in [1 .. 3 -> Int] /\ b.core \in [1 .. 3 -> Int] /\ c.core \in [1 .. 3 -> Int]
        BY DEF IsVersion
      <4> QED BY <3>0, <4>1
    <3>2. \A x, y : VersionAt(x, y)[i] = Cmp(x.core[i], y.core[i])
      BY <2>2 DEF VersionAt
    <3> QED BY <3>1, <3>2, CmpInOrder
  <2>3. CASE i = 4
    <3>1. a.pre \in Seq(VersionPart) /\ b.pre \in Seq(VersionPart) /\ c.pre \in Seq(VersionPart)
      BY DEF IsVersion
    <3>2. \A x, y : VersionAt(x, y)[i] = PreOrder(x.pre, y.pre)
      BY <2>3 DEF VersionAt
    <3> QED BY <3>1, <3>2, PreInOrder
  <2>4. CASE 4 < i
    <3>1. \A x, y : VersionAt(x, y)[i] = 0
      BY <2>1, <2>4 DEF VersionAt
    <3> QED BY <3>1 DEF Signs, Ordered
  <2> QED BY <2>1, <2>2, <2>3, <2>4
<1>3. Compare(b, a) = -Compare(a, b)
  BY <1>1, <1>2, FirstNegated
<1>4. Ordered(Compare(a, b), Compare(b, c), Compare(a, c))
  BY <1>1, <1>2, FirstOrdered
<1> QED BY <1>1, <1>3, <1>4

\* Upgrades come to an end, whatever versions an Agent has and the Panel recommends: no two
\* of them are upgrades of each other, and what is recommended settles an Agent that has it,
\* "dev" aside (semver.go, IsOutdated).
THEOREM UpgradesAlwaysEnd ==
    ASSUME NEW a, NEW b, NEW c, IsVersion(a), IsVersion(b), IsVersion(c)
    PROVE  UpgradesEnd(a, b, c)
<1>1. /\ Compare(a, b) \in Signs /\ Compare(b, a) = -Compare(a, b)
      /\ Compare(b, c) \in Signs /\ Compare(a, c) \in Signs
      /\ Ordered(Compare(a, b), Compare(b, c), Compare(a, c))
  BY VersionsInOrder
<1>2. Compare(a, a) = 0
  <2>1. Compare(a, a) \in Signs /\ Compare(a, a) = -Compare(a, a)
    BY VersionsInOrder
  <2> QED BY <2>1 DEF Signs
<1>3. /\ Compare(a, b) = -Compare(b, a)
      /\ Compare(a, b) <= 0 /\ Compare(b, c) <= 0 => Compare(a, c) <= 0
      /\ ~(Compare(a, b) < 0 /\ Compare(b, a) < 0) /\ ~(Compare(a, a) < 0)
  BY <1>1, <1>2 DEF Ordered, Signs
<1>4. IsOutdated(a, b) /\ IsOutdated(b, a) => "version" \notin {a.kind, b.kind} \/ "bare" \in {a.kind, b.kind}
  BY <1>3 DEF IsOutdated
<1>5. a.kind # "bare" => ~IsOutdated(a, a)
  BY <1>3 DEF IsOutdated
<1> QED BY <1>3, <1>4, <1>5 DEF UpgradesEnd

(***************************************************************************)
(* All services beside each other: each takes its steps or stands still.   *)
(***************************************************************************)

ServicesSpec == Init /\ [][Next]_vars

ServicesInv == SourcesInv /\ AdminInv /\ UpgradeInv /\ PkiFilesInv /\ InboundInv

LEMMA EachStepsOrStands ==
    ASSUME [Next]_vars
    PROVE  /\ [SourcesNext]_sourceVars /\ [AdminNext]_adminVars /\ [UpgradeNext]_upgradeVars
           /\ [PkiFilesNext]_pkiVars /\ [InboundNext]_inboundVars
<1>1. CASE Next
  BY <1>1 DEF Next
<1>2. CASE UNCHANGED vars
  BY <1>2 DEF vars
<1> QED BY <1>1, <1>2

LEMMA ServicesStart == Init => ServicesInv
<1>1. Init => SourcesInit /\ AdminInit /\ PkiFilesInit /\ InboundInit /\ UpgradeInit
  BY DEF Init
<1> QED BY <1>1, SourcesStart, AdminStarts, FilesStart, InboundStarts, UpgradeStarts DEF ServicesInv

LEMMA ServicesStep ==
    ASSUME ServicesInv, [Next]_vars
    PROVE  ServicesInv'
<1>1. SourcesInv'
  BY EachStepsOrStands, SourcesStep DEF ServicesInv
<1>2. AdminInv'
  BY EachStepsOrStands, AdminStep DEF ServicesInv
<1>3. UpgradeInv'
  BY EachStepsOrStands, UpgradeStep DEF ServicesInv
<1>4. PkiFilesInv'
  BY EachStepsOrStands, PkiFilesStep DEF ServicesInv
<1>5. InboundInv'
  BY EachStepsOrStands, InboundStep DEF ServicesInv
<1> QED BY <1>1, <1>2, <1>3, <1>4, <1>5 DEF ServicesInv

LEMMA ServicesAlways == ServicesSpec => []ServicesInv
<1>1. ServicesInv /\ [Next]_vars => ServicesInv'
  BY ServicesStep
<1> QED BY ServicesStart, <1>1, PTL DEF ServicesSpec

\* The rows, files, requests and copies of all services keep their types.
THEOREM ServicesTypeCorrect == ServicesSpec => []TypeOK
<1>1. ServicesInv => TypeOK
  BY SourcesTyped, AdminTyped, FilesSafe, InboundSafe DEF ServicesInv, UpgradeInv, TypeOK
<1> QED BY ServicesAlways, <1>1, PTL

\* Files that belong together stay together: what the root helper installs was verified, a
\* Panel that runs can prove who it is, and a stop between two files leaves what can be opened.
THEOREM FilesAlwaysConsistent == ServicesSpec => []FilesConsistent
<1>1. ServicesInv => FilesConsistent
  BY UpgradeSafe, FilesSafe DEF ServicesInv, FilesConsistent
<1> QED BY ServicesAlways, <1>1, PTL

\* No step loses the last good body of a source or replaces the root certificate.
THEOREM GoodAlwaysKept == ServicesSpec => GoodKept
<1>1. ASSUME ServicesInv, [Next]_vars
      PROVE  /\ [GoodStep]_sourceVars
             /\ [Has("root.crt") => file'["root.crt"] = file["root.crt"]]_pkiVars
  <2>1. SourcesInv /\ PkiFilesInv
    BY <1>1 DEF ServicesInv
  <2>2. [SourcesNext]_sourceVars /\ [PkiFilesNext]_pkiVars
    BY <1>1, EachStepsOrStands
  <2> QED BY <2>1, <2>2, GoodSteps, PkiFilesStep
<1>2. ServicesSpec => [][GoodStep]_sourceVars /\ [][Has("root.crt") => file'["root.crt"] = file["root.crt"]]_pkiVars
  BY ServicesAlways, <1>1, PTL DEF ServicesSpec
<1> QED BY <1>2 DEF GoodStep, LastGoodKept, RootKept, GoodKept

(***************************************************************************)
(* Merging and normalising: passes over a sequence.                        *)
(***************************************************************************)

\* Induction up to a number, over a set instead of a predicate.
LEMMA Inductive ==
    ASSUME NEW m \in Nat, NEW S, 0 \in S, \A i \in 1 .. m : i - 1 \in S => i \in S
    PROVE  0 .. m \subseteq S
<1> DEFINE T == (0 .. m) \ S
<1> SUFFICES ASSUME T # {} PROVE FALSE
  OBVIOUS
<1>1. T \in SUBSET Nat
  OBVIOUS
<1> HIDE DEF T
<1>2. PICK x \in T : \A y \in T : x <= y
  BY <1>1, LeastPlace
<1> USE DEF T
<1>3. x \in 1 .. m
  OBVIOUS
<1>4. x - 1 \in 0 .. m /\ x - 1 \in S
  BY <1>2, <1>3
<1> QED BY <1>3, <1>4

\* A pass over a sequence: g[i] is what next has made of base and the first i elements.
Passes(g, S, base, next, seq) ==
    /\ g \in [0 .. Len(seq) -> S]
    /\ g[0] = base
    /\ \A i \in 1 .. Len(seq) : g[i] = next[<<g[i - 1], seq[i]>>]

LEMMA PassExists ==
    ASSUME NEW S, NEW E, NEW seq \in Seq(E), NEW base \in S, NEW next \in [S \X E -> S]
    PROVE  \E g : Passes(g, S, base, next, seq)
<1> DEFINE n == Len(seq)
           UpTo(g, m) == /\ g \in [0 .. m -> S] /\ g[0] = base
                         /\ \A i \in 1 .. m : g[i] = next[<<g[i - 1], seq[i]>>]
           I == {m \in 0 .. n : \E g : UpTo(g, m)}
<1>0. n \in Nat /\ \A i \in 1 .. n : seq[i] \in E
  OBVIOUS
<1>1. 0 \in I
  <2>1. UpTo([i \in 0 .. 0 |-> base], 0)
    OBVIOUS
  <2> HIDE DEF UpTo
  <2> QED BY <1>0, <2>1
<1>2. ASSUME NEW m \in 1 .. n, m - 1 \in I PROVE m \in I
  <2>1. PICK g : UpTo(g, m - 1)
    BY <1>2
  <2> DEFINE h == [i \in 0 .. m |-> IF i = m THEN next[<<g[m - 1], seq[m]>>] ELSE g[i]]
  <2>2. next[<<g[m - 1], seq[m]>>] \in S
    <3>1. m - 1 \in 0 .. m - 1 /\ seq[m] \in E
      BY <1>0
    <3>2. <<g[m - 1], seq[m]>> \in S \X E
      BY <2>1, <3>1
    <3> QED BY <3>2
  <2>3. h \in [0 .. m -> S]
    <3>1. \A i \in 0 .. m : i # m => i \in 0 .. m - 1
      BY <1>0
    <3> QED BY <2>1, <2>2, <3>1
  <2>4. h[0] = base
    BY <1>0, <2>1
  <2>5. ASSUME NEW i \in 1 .. m PROVE h[i] = next[<<h[i - 1], seq[i]>>]
    <3>1. i \in 0 .. m /\ i - 1 \in 0 .. m /\ i - 1 # m /\ (i # m => i \in 1 .. m - 1)
      BY <1>0
    <3>2. h[i - 1] = g[i - 1]
      BY <3>1
    <3>3. CASE i = m
      BY <3>1, <3>2, <3>3
    <3>4. CASE i # m
      <4>1. h[i] = g[i] /\ g[i] = next[<<g[i - 1], seq[i]>>]
        BY <2>1, <3>1, <3>4
      <4> QED BY <3>2, <4>1
    <3> QED BY <3>3, <3>4
  <2>6. UpTo(h, m)
    BY <2>3, <2>4, <2>5
  <2> HIDE DEF UpTo, h
  <2> QED BY <1>0, <2>6
<1> HIDE DEF I, UpTo
<1>3. 0 .. n \subseteq I
  BY <1>0, <1>1, <1>2, Inductive
<1>4. PICK g : UpTo(g, n)
  BY <1>0, <1>3 DEF I
<1> QED BY <1>4 DEF UpTo, Passes

\* The function a recursive definition chooses is such a pass.
LEMMA PassChosen ==
    ASSUME NEW S, NEW E, NEW seq \in Seq(E), NEW base \in S, NEW next \in [S \X E -> S],
           NEW f, f = [i \in 0 .. Len(seq) |-> f[i]], f[0] = base,
           \A i \in 1 .. Len(seq) : f[i - 1] \in S => f[i] = next[<<f[i - 1], seq[i]>>]
    PROVE  Passes(f, S, base, next, seq)
<1> DEFINE n == Len(seq)
           I == {m \in 0 .. n : f[m] \in S}
<1>0. n \in Nat /\ \A i \in 1 .. n : seq[i] \in E
  OBVIOUS
<1>1. 0 \in I
  BY <1>0
<1>2. ASSUME NEW m \in 1 .. n, m - 1 \in I PROVE m \in I
  <2>1. <<f[m - 1], seq[m]>> \in S \X E
    BY <1>0, <1>2
  <2>2. m \in 0 .. n /\ f[m] = next[<<f[m - 1], seq[m]>>]
    <3>1. m \in 0 .. n /\ f[m - 1] \in S
      BY <1>0, <1>2
    <3> QED BY <3>1, Zenon
  <2>3. next[<<f[m - 1], seq[m]>>] \in S
    BY <2>1
  <2> QED BY <2>2, <2>3
<1> HIDE DEF I
<1>3. 0 .. n \subseteq I
  BY <1>0, <1>1, <1>2, Inductive
<1>4. \A m \in 0 .. n : f[m] \in S
  BY <1>3 DEF I
<1>5. f \in [0 .. n -> S]
  BY <1>4
<1>6. \A i \in 1 .. n : i - 1 \in 0 .. n
  BY <1>0
<1> QED BY <1>4, <1>5, <1>6 DEF Passes

LEMMA Appended ==
    ASSUME NEW S, NEW s \in Seq(S), NEW e \in S
    PROVE  /\ Append(s, e) \in Seq(S) /\ Len(Append(s, e)) = Len(s) + 1
           /\ DOMAIN Append(s, e) = 1 .. Len(s) + 1
           /\ Append(s, e)[Len(s) + 1] = e
           /\ \A i \in 1 .. Len(s) : Append(s, e)[i] = s[i]
OBVIOUS

LEMMA FirstIs ==
    ASSUME NEW T \in SUBSET Nat, T # {}
    PROVE  First(T) \in T /\ \A i \in T : First(T) <= i
BY LeastPlace DEF First

\* The i-th element taken out of a sequence.
LEMMA Removed ==
    ASSUME NEW S, NEW s \in Seq(S), NEW i \in 1 .. Len(s)
    PROVE  /\ RemoveAt(s, i) \in Seq(S) /\ Len(RemoveAt(s, i)) = Len(s) - 1
           /\ \A j \in 1 .. Len(s) - 1 : RemoveAt(s, i)[j] = IF j < i THEN s[j] ELSE s[j + 1]
<1> DEFINE l == SubSeq(s, 1, i - 1)
           r == SubSeq(s, i + 1, Len(s))
<1>0. Len(s) \in Nat /\ i \in Nat /\ \A j \in 1 .. Len(s) : s[j] \in S
  OBVIOUS
<1>1. l \in Seq(S) /\ Len(l) = i - 1 /\ \A j \in 1 .. i - 1 : l[j] = s[j]
  <2>1. i - 1 \in Int /\ 1 \in Int /\ (\A j \in 1 .. i - 1 : s[j] \in S) /\ i - 1 - 1 + 1 = i - 1
        /\ (\A j \in 1 .. i - 1 : 1 + j - 1 = j) /\ (1 <= i - 1 \/ i - 1 = 0)
    BY <1>0
  <2> QED BY <2>1, SubSeqProperties
<1>2. r \in Seq(S) /\ Len(r) = Len(s) - i /\ \A j \in 1 .. Len(s) - i : r[j] = s[i + j]
  <2>1. i + 1 \in Int /\ Len(s) \in Int /\ (\A j \in i + 1 .. Len(s) : s[j] \in S)
    BY <1>0
  <2>2. /\ r \in Seq(S) /\ Len(r) = IF i + 1 <= Len(s) THEN Len(s) - (i + 1) + 1 ELSE 0
        /\ \A j \in 1 .. Len(s) - (i + 1) + 1 : r[j] = s[i + 1 + j - 1]
    BY <2>1, SubSeqProperties
  <2> HIDE DEF r
  <2>3. Len(r) = Len(s) - i
    BY <1>0, <2>2
  <2>4. ASSUME NEW j \in 1 .. Len(s) - i PROVE r[j] = s[i + j]
    <3>1. j \in 1 .. Len(s) - (i + 1) + 1 /\ i + 1 + j - 1 = i + j
      BY <1>0
    <3> QED BY <2>2, <3>1
  <2> QED BY <2>2, <2>3, <2>4
<1> HIDE DEF l, r
<1>3. /\ l \o r \in Seq(S) /\ Len(l \o r) = Len(l) + Len(r)
      /\ \A j \in 1 .. Len(l) + Len(r) : (l \o r)[j] = IF j <= Len(l) THEN l[j] ELSE r[j - Len(l)]
  BY <1>1, <1>2, ConcatProperties
<1>4. ASSUME NEW j \in 1 .. Len(s) - 1 PROVE (l \o r)[j] = IF j < i THEN s[j] ELSE s[j + 1]
  <2>1. j \in 1 .. Len(l) + Len(r)
    BY <1>0, <1>1, <1>2
  <2>2. CASE j < i
    <3>1. j \in 1 .. i - 1 /\ j <= Len(l)
      BY <1>0, <1>1, <2>2
    <3> QED BY <1>1, <1>3, <2>1, <2>2, <3>1
  <2>3. CASE ~(j < i)
    <3>1. ~(j <= Len(l)) /\ j - Len(l) \in 1 .. Len(s) - i /\ i + (j - Len(l)) = j + 1
      BY <1>0, <1>1, <2>3
    <3> QED BY <1>2, <1>3, <2>1, <2>3, <3>1
  <2> QED BY <2>2, <2>3
<1>5. RemoveAt(s, i) = l \o r
  BY Zenon DEF RemoveAt, l, r
<1>6. l \o r \in Seq(S) /\ Len(l \o r) = Len(s) - 1
  <2>1. Len(l) + Len(r) = Len(s) - 1
    BY <1>0, <1>1, <1>2
  <2> QED BY <1>3, <2>1
<1> QED BY <1>4, <1>5, <1>6, Zenon

Mapping(L, P) == [listen : L, public : P]

MapsPort(m) == m.public \in DialPorts /\ m.public # m.listen

\* What the rows so far come to: one row for a listen port, and it maps that port.
MapsOnce(acc) ==
    /\ \A i \in DOMAIN acc : acc[i].listen \in DialPorts /\ MapsPort(acc[i])
    /\ \A i, j \in DOMAIN acc : i # j => acc[i].listen # acc[j].listen

LEMMA WithMappingIs ==
    ASSUME NEW L, NEW P, NEW acc \in Seq(Mapping(L, P)), NEW m \in Mapping(L, P)
    PROVE  /\ WithMapping(acc, m) \in Seq(Mapping(L, P))
           /\ MapsOnce(acc) =>
                 /\ MapsOnce(WithMapping(acc, m))
                 /\ m.listen \notin DialPorts => WithMapping(acc, m) = acc
                 /\ m.listen \in DialPorts =>
                       ToSet(WithMapping(acc, m)) =
                           {x \in ToSet(acc) : x.listen # m.listen} \cup {x \in {m} : MapsPort(x)}
<1> DEFINE R == Mapping(L, P)
           at == {i \in DOMAIN acc : acc[i].listen = m.listen}
           out == WithMapping(acc, m)
<1>0. Len(acc) \in Nat /\ DOMAIN acc = 1 .. Len(acc) /\ \A i \in 1 .. Len(acc) : acc[i] \in R
  OBVIOUS
<1>1. out = IF m.listen \notin DialPorts THEN acc
            ELSE IF m.public \notin DialPorts \/ m.public = m.listen
                 THEN IF at = {} THEN acc ELSE RemoveAt(acc, First(at))
            ELSE IF at = {} THEN Append(acc, m) ELSE [acc EXCEPT ![First(at)] = m]
  BY DEF WithMapping
<1>2. ASSUME at # {} PROVE First(at) \in 1 .. Len(acc) /\ acc[First(at)].listen = m.listen
  <2>1. at \in SUBSET Nat
    BY <1>0
  <2>2. First(at) \in at
    <3> HIDE DEF at
    <3> QED BY <1>2, <2>1, FirstIs
  <2> QED BY <1>0, <2>2
<1> HIDE DEF out, R
<1>3. CASE m.listen \notin DialPorts
  <2>1. out = acc
    BY <1>1, <1>3
  <2> QED BY <1>3, <2>1 DEF out
<1>4. CASE m.listen \in DialPorts /\ ~MapsPort(m) /\ at = {}
  <2>1. out = acc
    BY <1>1, <1>4 DEF MapsPort
  <2>2. ToSet(acc) = {x \in ToSet(acc) : x.listen # m.listen} \cup {x \in {m} : MapsPort(x)}
    BY <1>4 DEF ToSet
  <2> QED BY <1>4, <2>1, <2>2 DEF out
<1>5. CASE m.listen \in DialPorts /\ ~MapsPort(m) /\ at # {}
  <2> DEFINE k == First(at)
  <2>1. out = RemoveAt(acc, k)
    BY <1>1, <1>5 DEF MapsPort
  <2>2. k \in 1 .. Len(acc) /\ acc[k].listen = m.listen
    BY <1>2, <1>5
  <2> HIDE DEF k, at
  <2>3. /\ out \in Seq(R) /\ Len(out) = Len(acc) - 1
        /\ \A j \in 1 .. Len(acc) - 1 : out[j] = IF j < k THEN acc[j] ELSE acc[j + 1]
    BY <2>1, <2>2, Removed DEF R
  <2>4. DOMAIN out = 1 .. Len(acc) - 1
    BY <2>3
  <2> DEFINE from(j) == IF j < k THEN j ELSE j + 1
  <2>5. \A j \in 1 .. Len(acc) - 1 : from(j) \in 1 .. Len(acc) /\ from(j) # k /\ out[j] = acc[from(j)]
    BY <1>0, <2>2, <2>3
  <2>6. \A j, h \in 1 .. Len(acc) - 1 : j # h => from(j) # from(h)
    BY <1>0, <2>2
  <2>7. \A i \in 1 .. Len(acc) : i # k => \E j \in 1 .. Len(acc) - 1 : from(j) = i
    <3>1. ASSUME NEW i \in 1 .. Len(acc), i # k PROVE \E j \in 1 .. Len(acc) - 1 : from(j) = i
      <4>1. CASE i < k
        <5>1. i \in 1 .. Len(acc) - 1 /\ from(i) = i
          BY <1>0, <2>2, <4>1
        <5> QED BY <5>1
      <4>2. CASE ~(i < k)
        <5>1. i - 1 \in 1 .. Len(acc) - 1 /\ from(i - 1) = i
          BY <1>0, <2>2, <3>1, <4>2
        <5> QED BY <5>1
      <4> QED BY <4>1, <4>2
    <3> QED BY <3>1
  <2> HIDE DEF from
  <2>8. ASSUME MapsOnce(acc) PROVE MapsOnce(out)
    BY <1>0, <2>4, <2>5, <2>6, <2>8 DEF MapsOnce
  <2>9. ASSUME MapsOnce(acc)
        PROVE  ToSet(out) = {x \in ToSet(acc) : x.listen # m.listen} \cup {x \in {m} : MapsPort(x)}
    <3>1. ToSet(out) = {out[j] : j \in 1 .. Len(acc) - 1} /\ ToSet(acc) = {acc[j] : j \in 1 .. Len(acc)}
      BY <1>0, <2>4 DEF ToSet
    <3>2. \A i \in 1 .. Len(acc) : i # k => acc[i].listen # m.listen
      BY <1>0, <2>2, <2>9 DEF MapsOnce
    <3>3. \A j \in 1 .. Len(acc) - 1 : out[j] \in ToSet(acc) /\ out[j].listen # m.listen
      BY <2>5, <3>1, <3>2
    <3>4. \A i \in 1 .. Len(acc) : acc[i].listen # m.listen => acc[i] \in ToSet(out)
      BY <2>2, <2>5, <2>7, <3>1
    <3> QED BY <1>5, <3>1, <3>3, <3>4
  <2> QED BY <1>5, <2>3, <2>8, <2>9 DEF out, R
<1>6. CASE m.listen \in DialPorts /\ MapsPort(m) /\ at = {}
  <2>1. out = Append(acc, m)
    BY <1>1, <1>6 DEF MapsPort
  <2>2. /\ out \in Seq(R) /\ DOMAIN out = 1 .. Len(acc) + 1 /\ out[Len(acc) + 1] = m
        /\ \A i \in 1 .. Len(acc) : out[i] = acc[i]
    BY <2>1, Appended DEF R
  <2>3. \A i \in 1 .. Len(acc) : acc[i].listen # m.listen
    BY <1>0, <1>6
  <2> HIDE DEF at
  <2>4. \A i \in 1 .. Len(acc) + 1 : i \in 1 .. Len(acc) \/ i = Len(acc) + 1
    BY <1>0
  <2>5. ASSUME MapsOnce(acc) PROVE MapsOnce(out)
    BY <1>0, <1>6, <2>2, <2>3, <2>4, <2>5 DEF MapsOnce
  <2>6. ToSet(out) = {x \in ToSet(acc) : x.listen # m.listen} \cup {x \in {m} : MapsPort(x)}
    <3>1. ToSet(out) = {out[j] : j \in 1 .. Len(acc) + 1} /\ ToSet(acc) = {acc[j] : j \in 1 .. Len(acc)}
      BY <1>0, <2>2 DEF ToSet
    <3>2. \A j \in 1 .. Len(acc) + 1 : out[j] = m \/ (out[j] \in ToSet(acc) /\ out[j].listen # m.listen)
      BY <2>2, <2>3, <2>4, <3>1
    <3>3. \A j \in 1 .. Len(acc) : acc[j] \in ToSet(out)
      BY <1>0, <2>2, <3>1
    <3>4. m \in ToSet(out)
      BY <1>0, <2>2, <3>1
    <3> QED BY <1>6, <3>1, <3>2, <3>3, <3>4
  <2> QED BY <1>6, <2>2, <2>5, <2>6 DEF out, R
<1>7. CASE m.listen \in DialPorts /\ MapsPort(m) /\ at # {}
  <2> DEFINE k == First(at)
  <2>1. out = [acc EXCEPT ![k] = m]
    BY <1>1, <1>7 DEF MapsPort
  <2>2. k \in 1 .. Len(acc) /\ acc[k].listen = m.listen
    BY <1>2, <1>7
  <2> HIDE DEF k, at
  <2>3. /\ out \in Seq(R) /\ DOMAIN out = 1 .. Len(acc) /\ out[k] = m
        /\ \A i \in 1 .. Len(acc) : i # k => out[i] = acc[i]
    BY <1>0, <2>1, <2>2 DEF R
  <2>4. ASSUME MapsOnce(acc) PROVE MapsOnce(out)
    BY <1>0, <1>7, <2>2, <2>3, <2>4 DEF MapsOnce
  <2>5. ASSUME MapsOnce(acc)
        PROVE  ToSet(out) = {x \in ToSet(acc) : x.listen # m.listen} \cup {x \in {m} : MapsPort(x)}
    <3>1. ToSet(out) = {out[j] : j \in 1 .. Len(acc)} /\ ToSet(acc) = {acc[j] : j \in 1 .. Len(acc)}
      BY <1>0, <2>3 DEF ToSet
    <3>2. \A i \in 1 .. Len(acc) : i # k => acc[i].listen # m.listen
      BY <1>0, <2>2, <2>5 DEF MapsOnce
    <3>3. \A j \in 1 .. Len(acc) : out[j] = m \/ (out[j] \in ToSet(acc) /\ out[j].listen # m.listen)
      BY <2>3, <3>1, <3>2
    <3>4. \A j \in 1 .. Len(acc) : acc[j].listen # m.listen => acc[j] \in ToSet(out)
      BY <2>2, <2>3, <3>1
    <3>5. m \in ToSet(out)
      BY <2>2, <2>3, <3>1
    <3> QED BY <1>7, <3>1, <3>3, <3>4, <3>5
  <2> QED BY <1>7, <2>3, <2>4, <2>5 DEF out, R
<1> QED BY <1>3, <1>4, <1>5, <1>6, <1>7

LEMMA MappingsPass ==
    ASSUME NEW L, NEW P, NEW rows \in Seq(Mapping(L, P))
    PROVE  \E g : /\ g \in [0 .. Len(rows) -> Seq(Mapping(L, P))]
                  /\ g[0] = <<>> /\ NormalizePortMappings(rows) = g[Len(rows)]
                  /\ \A i \in 1 .. Len(rows) : g[i] = WithMapping(g[i - 1], rows[i])
<1> DEFINE n == Len(rows)
           R == Mapping(L, P)
           S == Seq(R)
           next == [p \in S \X R |-> WithMapping(p[1], p[2])]
           Step(h, i) == IF i = 0 THEN <<>> ELSE WithMapping(h[i - 1], rows[i])
           f == CHOOSE h : h = [i \in 0 .. n |-> Step(h, i)]
<1>0. n \in Nat /\ (\A i \in 1 .. n : rows[i] \in R) /\ <<>> \in S
  OBVIOUS
<1>1. NormalizePortMappings(rows) = f[n]
  BY DEF NormalizePortMappings
<1>2. next \in [S \X R -> S]
  <2>1. \A p \in S \X R : WithMapping(p[1], p[2]) \in S
    BY WithMappingIs
  <2> QED BY <2>1
<1>3. \A s \in S, r \in R : next[<<s, r>>] = WithMapping(s, r)
  OBVIOUS
<1> HIDE DEF next, R, S
<1>4. PICK g : Passes(g, S, <<>>, next, rows)
  BY <1>0, <1>2, PassExists DEF R
<1>5. g = [i \in 0 .. n |-> Step(g, i)]
  <2>1. g \in [0 .. n -> S] /\ g[0] = <<>>
    BY <1>4 DEF Passes
  <2>2. ASSUME NEW i \in 0 .. n PROVE g[i] = Step(g, i)
    <3>1. CASE i = 0
      BY <2>1, <3>1
    <3>2. CASE i # 0
      <4>1. i \in 1 .. n /\ i - 1 \in 0 .. n
        BY <1>0, <3>2
      <4>2. g[i - 1] \in S /\ rows[i] \in R /\ g[i] = next[<<g[i - 1], rows[i]>>]
        BY <1>0, <1>4, <2>1, <4>1 DEF Passes
      <4> QED BY <1>3, <3>2, <4>2
    <3> QED BY <3>1, <3>2
  <2> HIDE DEF Step
  <2> QED BY <2>1, <2>2
<1>6. f = [i \in 0 .. n |-> Step(f, i)]
  BY <1>5
<1> HIDE DEF f
<1>7. /\ f = [i \in 0 .. n |-> f[i]] /\ f[0] = <<>>
      /\ \A i \in 1 .. n : f[i] = WithMapping(f[i - 1], rows[i])
  <2>1. \A i \in 0 .. n : f[i] = Step(f, i)
    BY <1>6, Zenon
  <2>2. f = [i \in 0 .. n |-> f[i]]
    BY <1>6, <2>1, Zenon
  <2>3. 0 \in 0 .. n /\ \A i \in 1 .. n : i \in 0 .. n /\ i # 0
    BY <1>0
  <2> QED BY <2>1, <2>2, <2>3, Zenon
<1>8. Passes(f, S, <<>>, next, rows)
  <2>1. \A i \in 1 .. n : f[i - 1] \in S => f[i] = next[<<f[i - 1], rows[i]>>]
    BY <1>0, <1>3, <1>7, Zenon
  <2> QED BY <1>0, <1>2, <1>7, <2>1, PassChosen DEF R
<1>9. f \in [0 .. n -> S]
  BY <1>8 DEF Passes
<1> QED BY <1>1, <1>7, <1>9 DEF S, R

\* The rows up to the i-th that count: the last of their listen port, and they map it.
Settled(rows, i) ==
    {rows[k] : k \in {h \in 1 .. i : /\ rows[h].listen \in DialPorts /\ MapsPort(rows[h])
                                      /\ \A j \in h + 1 .. i : rows[j].listen # rows[h].listen}}

LEMMA SettledNext ==
    ASSUME NEW L, NEW P, NEW rows \in Seq(Mapping(L, P)), NEW i \in 1 .. Len(rows)
    PROVE  /\ rows[i].listen \notin DialPorts => Settled(rows, i) = Settled(rows, i - 1)
           /\ rows[i].listen \in DialPorts =>
                 Settled(rows, i) = {x \in Settled(rows, i - 1) : x.listen # rows[i].listen}
                                    \cup {x \in {rows[i]} : MapsPort(x)}
<1> DEFINE T(m) == {h \in 1 .. m : /\ rows[h].listen \in DialPorts /\ MapsPort(rows[h])
                                    /\ \A j \in h + 1 .. m : rows[j].listen # rows[h].listen}
<1>0. i \in Nat /\ i # 0 /\ Settled(rows, i) = {rows[k] : k \in T(i)}
      /\ Settled(rows, i - 1) = {rows[k] : k \in T(i - 1)}
  BY DEF Settled
<1>1. ASSUME NEW k \in 1 .. i - 1
      PROVE  k \in T(i) <=> k \in T(i - 1) /\ rows[i].listen # rows[k].listen
  <2>1. k \in 1 .. i /\ \A j \in k + 1 .. i : j = i \/ j \in k + 1 .. i - 1
    BY <1>0
  <2>2. i \in k + 1 .. i /\ \A j \in k + 1 .. i - 1 : j \in k + 1 .. i
    BY <1>0
  <2> QED BY <2>1, <2>2
<1>2. i \in T(i) <=> rows[i].listen \in DialPorts /\ MapsPort(rows[i])
  BY <1>0
<1>3. T(i) \subseteq (1 .. i - 1) \cup {i} /\ T(i - 1) \subseteq 1 .. i - 1
  BY <1>0
<1>4. \A k \in T(i - 1) : rows[k].listen \in DialPorts
  OBVIOUS
<1> HIDE DEF T
<1>5. CASE rows[i].listen \notin DialPorts
  <2>1. T(i) = T(i - 1)
    BY <1>1, <1>2, <1>3, <1>4, <1>5
  <2> QED BY <1>0, <1>5, <2>1
<1>6. CASE rows[i].listen \in DialPorts
  <2>1. T(i) = {k \in T(i - 1) : rows[k].listen # rows[i].listen} \cup {k \in {i} : MapsPort(rows[k])}
    BY <1>1, <1>2, <1>3, <1>6
  <2> DEFINE grown == {rows[k] : k \in T(i)}
             was == {rows[k] : k \in T(i - 1)}
  <2>3. grown \subseteq {x \in was : x.listen # rows[i].listen} \cup {x \in {rows[i]} : MapsPort(x)}
    <3>1. ASSUME NEW k \in T(i)
          PROVE  rows[k] \in {x \in was : x.listen # rows[i].listen} \cup {x \in {rows[i]} : MapsPort(x)}
      BY <2>1
    <3> QED BY <3>1
  <2>4. {x \in was : x.listen # rows[i].listen} \subseteq grown
    BY <2>1
  <2>5. {x \in {rows[i]} : MapsPort(x)} \subseteq grown
    BY <2>1
  <2>2. grown = {x \in was : x.listen # rows[i].listen} \cup {x \in {rows[i]} : MapsPort(x)}
    BY <2>3, <2>4, <2>5, Zenon
  <2> QED BY <1>0, <1>6, <2>2
<1> QED BY <1>5, <1>6

\* NormalizePortMappings leaves exactly the rows that count, one for a listen port.
LEMMA NormalizedSettled ==
    ASSUME NEW L, NEW P, NEW rows \in Seq(Mapping(L, P))
    PROVE  /\ NormalizePortMappings(rows) \in Seq(Mapping(L, P))
           /\ MapsOnce(NormalizePortMappings(rows))
           /\ ToSet(NormalizePortMappings(rows)) = Settled(rows, Len(rows))
<1> DEFINE n == Len(rows)
           R == Mapping(L, P)
<1>0. n \in Nat /\ (\A i \in 1 .. n : rows[i] \in R)
  OBVIOUS
<1> HIDE DEF R
<1>1. PICK g : /\ g \in [0 .. n -> Seq(R)] /\ g[0] = <<>> /\ NormalizePortMappings(rows) = g[n]
               /\ \A i \in 1 .. n : g[i] = WithMapping(g[i - 1], rows[i])
  BY MappingsPass DEF R
<1> DEFINE I == {i \in 0 .. n : MapsOnce(g[i]) /\ ToSet(g[i]) = Settled(rows, i)}
<1>2. 0 \in I
  <2>1. MapsOnce(<<>>) /\ ToSet(<<>>) = {}
    <3>1. DOMAIN <<>> = {}
      OBVIOUS
    <3>2. ToSet(<<>>) = {<<>>[i] : i \in DOMAIN <<>>}
      BY Zenon DEF ToSet
    <3>3. MapsOnce(<<>>)
      BY <3>1 DEF MapsOnce
    <3> QED BY <3>1, <3>2, <3>3, Zenon
  <2>2. Settled(rows, 0) = {}
    <3>1. 1 .. 0 = {}
      OBVIOUS
    <3> QED BY <3>1 DEF Settled
  <2>3. MapsOnce(g[0]) /\ ToSet(g[0]) = Settled(rows, 0)
    BY <1>1, <2>1, <2>2, Zenon
  <2>4. 0 \in 0 .. n
    BY <1>0
  <2> QED BY <2>3, <2>4, Zenon
<1>3. ASSUME NEW i \in 1 .. n, i - 1 \in I PROVE i \in I
  <2>1. i \in 0 .. n /\ i - 1 \in 0 .. n /\ g[i - 1] \in Seq(R) /\ rows[i] \in R
    BY <1>0, <1>1
  <2>2. MapsOnce(g[i - 1]) /\ ToSet(g[i - 1]) = Settled(rows, i - 1) /\ g[i] = WithMapping(g[i - 1], rows[i])
    BY <1>1, <1>3
  <2>3. CASE rows[i].listen \notin DialPorts
    <3>1. MapsOnce(g[i]) /\ g[i] = g[i - 1]
      BY <2>1, <2>2, <2>3, WithMappingIs DEF R
    <3>2. Settled(rows, i) = Settled(rows, i - 1)
      BY <2>3, SettledNext
    <3> QED BY <2>1, <2>2, <3>1, <3>2
  <2>4. CASE rows[i].listen \in DialPorts
    <3>1. MapsOnce(g[i]) /\ ToSet(g[i]) = {x \in ToSet(g[i - 1]) : x.listen # rows[i].listen}
                                             \cup {x \in {rows[i]} : MapsPort(x)}
      BY <2>1, <2>2, <2>4, WithMappingIs DEF R
    <3>2. Settled(rows, i) = {x \in Settled(rows, i - 1) : x.listen # rows[i].listen}
                                 \cup {x \in {rows[i]} : MapsPort(x)}
      BY <2>4, SettledNext
    <3> QED BY <2>1, <2>2, <3>1, <3>2
  <2> QED BY <2>3, <2>4
<1> HIDE DEF I
<1>4. 0 .. n \subseteq I
  BY <1>0, <1>2, <1>3, Inductive
<1>5. n \in I /\ g[n] \in Seq(R)
  BY <1>0, <1>1, <1>4
<1> QED BY <1>1, <1>5 DEF I, R

\* For any rows: the last row of a listen port counts, and one that maps nothing removes it
\* (NormalizePortMappings and MapPublicPort).
THEOREM LastMappingCounts ==
    ASSUME NEW L, NEW P, NEW rows \in Seq(Mapping(L, P)), NEW listen \in DialPorts
    PROVE  MappingsSound(rows, listen)
<1> DEFINE n == Len(rows)
           R == Mapping(L, P)
           mine == {i \in DOMAIN rows : rows[i].listen = listen}
           at == CHOOSE i \in mine : \A j \in mine : j <= i
           last == rows[at]
           out == NormalizePortMappings(rows)
           hits == {i \in DOMAIN out : out[i].listen = listen /\ out[i].public \in DialPorts}
<1>0. n \in Nat /\ DOMAIN rows = 1 .. n /\ mine = {i \in 1 .. n : rows[i].listen = listen}
  OBVIOUS
<1>1. MappingsSound(rows, listen) <=>
          (IF hits = {} THEN listen ELSE out[First(hits)].public)
              = IF mine # {} /\ last.public \in DialPorts THEN last.public ELSE listen
  BY Zenon DEF MappingsSound, MapPublicPort
<1>2. out \in Seq(R) /\ MapsOnce(out) /\ ToSet(out) = Settled(rows, n)
  BY NormalizedSettled
<1>3. mine # {} => at \in mine /\ \A j \in mine : j <= at
  <2> DEFINE T == {n - i : i \in mine}
  <2> SUFFICES ASSUME mine # {} PROVE \E i \in mine : \A j \in mine : j <= i
    OBVIOUS
  <2>1. T \in SUBSET Nat /\ T # {}
    BY <1>0
  <2>2. PICK t \in T : \A u \in T : t <= u
    <3> HIDE DEF T
    <3> QED BY <2>1, LeastPlace
  <2>3. PICK i \in mine : t = n - i
    OBVIOUS
  <2>4. ASSUME NEW j \in mine PROVE j <= i
    <3>1. n - i <= n - j /\ i \in Nat /\ j \in Nat
      BY <1>0, <2>2, <2>3
    <3> QED BY <1>0, <3>1
  <2> QED BY <2>4
<1> HIDE DEF at, out
<1>4. hits # {} => First(hits) \in hits
  <2>1. hits \in SUBSET Nat
    BY <1>2
  <2> HIDE DEF hits
  <2> QED BY <2>1, FirstIs
<1>5. ASSUME NEW i \in hits PROVE mine # {} /\ out[i] = last /\ MapsPort(last)
  <2>1. out[i] \in Settled(rows, n) /\ out[i].listen = listen
    BY <1>2, <1>5 DEF ToSet
  <2>2. PICK k \in 1 .. n : /\ out[i] = rows[k] /\ MapsPort(rows[k])
                            /\ \A j \in k + 1 .. n : rows[j].listen # rows[k].listen
    BY <2>1 DEF Settled
  <2>3. k \in mine
    BY <1>0, <2>1, <2>2
  <2>4. k = at
    <3>1. at \in mine /\ k <= at
      BY <1>3, <2>3
    <3>2. at \in 1 .. n /\ rows[at].listen = listen /\ rows[k].listen = listen
      BY <1>0, <2>3, <3>1
    <3>3. ~(at \in k + 1 .. n)
      BY <2>2, <3>2
    <3> QED BY <1>0, <3>1, <3>2, <3>3
  <2> QED BY <2>2, <2>3, <2>4
<1>6. ASSUME mine # {}, MapsPort(last) PROVE hits # {}
  <2>1. at \in mine /\ (\A j \in mine : j <= at) /\ at \in 1 .. n /\ rows[at].listen = listen
    BY <1>0, <1>3, <1>6
  <2>2. \A j \in at + 1 .. n : rows[j].listen # listen
    BY <1>0, <2>1
  <2>3. rows[at] \in Settled(rows, n)
    BY <1>6, <2>1, <2>2 DEF Settled
  <2>4. PICK i \in DOMAIN out : out[i] = rows[at]
    BY <1>2, <2>3 DEF ToSet
  <2> QED BY <1>6, <2>1, <2>4 DEF MapsPort
<1>9. mine # {} => last.listen = listen
  BY <1>3
<1> HIDE DEF mine, hits, last
<1>7. CASE hits = {}
  BY <1>1, <1>6, <1>7, <1>9 DEF MapsPort
<1>8. CASE hits # {}
  <2>1. mine # {} /\ out[First(hits)] = last /\ MapsPort(last)
    BY <1>4, <1>5, <1>8
  <2> QED BY <1>1, <1>8, <2>1 DEF MapsPort
<1> QED BY <1>7, <1>8

EndpointsOf(B, H, P) ==
    [name : [base : B, upper : BOOLEAN, tail : Seq(Nat)], host : H, port : P]

LEMMA DialablePass ==
    ASSUME NEW E, NEW eps \in Seq(E)
    PROVE  \E g : /\ g \in [0 .. Len(eps) -> Seq(E)]
                  /\ g[0] = <<>> /\ DialableOnes(eps) = g[Len(eps)]
                  /\ \A i \in 1 .. Len(eps) :
                         g[i] = IF Dialable(eps[i]) THEN Append(g[i - 1], eps[i]) ELSE g[i - 1]
<1> DEFINE n == Len(eps)
           S == Seq(E)
           next == [p \in S \X E |-> IF Dialable(p[2]) THEN Append(p[1], p[2]) ELSE p[1]]
           Step(h, i) == IF i = 0 THEN <<>>
                         ELSE IF Dialable(eps[i]) THEN Append(h[i - 1], eps[i]) ELSE h[i - 1]
           f == CHOOSE h : h = [i \in 0 .. n |-> Step(h, i)]
<1>0. n \in Nat /\ (\A i \in 1 .. n : eps[i] \in E) /\ <<>> \in S
  OBVIOUS
<1>1. DialableOnes(eps) = f[n]
  BY DEF DialableOnes
<1>2. next \in [S \X E -> S]
  <2>1. \A s \in S, e \in E : Append(s, e) \in S
    OBVIOUS
  <2> HIDE DEF S
  <2> QED BY <2>1
<1>3. \A s \in S, e \in E : next[<<s, e>>] = IF Dialable(e) THEN Append(s, e) ELSE s
  <2> HIDE DEF S
  <2> QED OBVIOUS
<1> HIDE DEF next, S
<1>4. PICK g : Passes(g, S, <<>>, next, eps)
  BY <1>0, <1>2, PassExists
<1>5. g = [i \in 0 .. n |-> Step(g, i)]
  <2>1. g \in [0 .. n -> S] /\ g[0] = <<>>
    BY <1>4 DEF Passes
  <2>2. ASSUME NEW i \in 0 .. n PROVE g[i] = Step(g, i)
    <3>1. CASE i = 0
      BY <2>1, <3>1
    <3>2. CASE i # 0
      <4>1. i \in 1 .. n /\ i - 1 \in 0 .. n
        BY <1>0, <3>2
      <4>2. g[i - 1] \in S /\ eps[i] \in E /\ g[i] = next[<<g[i - 1], eps[i]>>]
        BY <1>0, <1>4, <2>1, <4>1 DEF Passes
      <4> QED BY <1>3, <3>2, <4>2
    <3> QED BY <3>1, <3>2
  <2> HIDE DEF Step
  <2> QED BY <2>1, <2>2
<1>6. f = [i \in 0 .. n |-> Step(f, i)]
  BY <1>5
<1> HIDE DEF f
<1>7. /\ f = [i \in 0 .. n |-> f[i]] /\ f[0] = <<>>
      /\ \A i \in 1 .. n : f[i] = IF Dialable(eps[i]) THEN Append(f[i - 1], eps[i]) ELSE f[i - 1]
  <2>1. \A i \in 0 .. n : f[i] = Step(f, i)
    BY <1>6, Zenon
  <2>2. f = [i \in 0 .. n |-> f[i]]
    BY <1>6, <2>1, Zenon
  <2>3. 0 \in 0 .. n /\ \A i \in 1 .. n : i \in 0 .. n /\ i # 0
    BY <1>0
  <2> QED BY <2>1, <2>2, <2>3, Zenon
<1>8. Passes(f, S, <<>>, next, eps)
  <2>1. \A i \in 1 .. n : f[i - 1] \in S => f[i] = next[<<f[i - 1], eps[i]>>]
    BY <1>0, <1>3, <1>7, Zenon
  <2> QED BY <1>0, <1>2, <1>7, <2>1, PassChosen
<1>9. f \in [0 .. n -> S]
  BY <1>8 DEF Passes
<1> QED BY <1>1, <1>7, <1>9 DEF S

LEMMA KeptPass ==
    ASSUME NEW E, NEW eps \in Seq(E)
    PROVE  \E g : /\ g \in [0 .. Len(eps) -> Seq(E)]
                  /\ g[0] = <<>> /\ Kept(eps) = g[Len(eps)]
                  /\ \A i \in 1 .. Len(eps) :
                         g[i] = IF Taken(eps[i], g[i - 1]) THEN g[i - 1] ELSE Append(g[i - 1], eps[i])
<1> DEFINE n == Len(eps)
           S == Seq(E)
           next == [p \in S \X E |-> IF Taken(p[2], p[1]) THEN p[1] ELSE Append(p[1], p[2])]
           Step(h, i) == IF i = 0 THEN <<>>
                         ELSE IF Taken(eps[i], h[i - 1]) THEN h[i - 1] ELSE Append(h[i - 1], eps[i])
           f == CHOOSE h : h = [i \in 0 .. n |-> Step(h, i)]
<1>0. n \in Nat /\ (\A i \in 1 .. n : eps[i] \in E) /\ <<>> \in S
  OBVIOUS
<1>1. Kept(eps) = f[n]
  BY DEF Kept
<1>2. next \in [S \X E -> S]
  <2>1. \A s \in S, e \in E : Append(s, e) \in S
    OBVIOUS
  <2> HIDE DEF S
  <2> QED BY <2>1
<1>3. \A s \in S, e \in E : next[<<s, e>>] = IF Taken(e, s) THEN s ELSE Append(s, e)
  <2> HIDE DEF S
  <2> QED OBVIOUS
<1> HIDE DEF next, S
<1>4. PICK g : Passes(g, S, <<>>, next, eps)
  BY <1>0, <1>2, PassExists
<1>5. g = [i \in 0 .. n |-> Step(g, i)]
  <2>1. g \in [0 .. n -> S] /\ g[0] = <<>>
    BY <1>4 DEF Passes
  <2>2. ASSUME NEW i \in 0 .. n PROVE g[i] = Step(g, i)
    <3>1. CASE i = 0
      BY <2>1, <3>1
    <3>2. CASE i # 0
      <4>1. i \in 1 .. n /\ i - 1 \in 0 .. n
        BY <1>0, <3>2
      <4>2. g[i - 1] \in S /\ eps[i] \in E /\ g[i] = next[<<g[i - 1], eps[i]>>]
        BY <1>0, <1>4, <2>1, <4>1 DEF Passes
      <4> QED BY <1>3, <3>2, <4>2
    <3> QED BY <3>1, <3>2
  <2> HIDE DEF Step
  <2> QED BY <2>1, <2>2
<1>6. f = [i \in 0 .. n |-> Step(f, i)]
  BY <1>5
<1> HIDE DEF f
<1>7. /\ f = [i \in 0 .. n |-> f[i]] /\ f[0] = <<>>
      /\ \A i \in 1 .. n : f[i] = IF Taken(eps[i], f[i - 1]) THEN f[i - 1] ELSE Append(f[i - 1], eps[i])
  <2>1. \A i \in 0 .. n : f[i] = Step(f, i)
    BY <1>6, Zenon
  <2>2. f = [i \in 0 .. n |-> f[i]]
    BY <1>6, <2>1, Zenon
  <2>3. 0 \in 0 .. n /\ \A i \in 1 .. n : i \in 0 .. n /\ i # 0
    BY <1>0
  <2> QED BY <2>1, <2>2, <2>3, Zenon
<1>8. Passes(f, S, <<>>, next, eps)
  <2>1. \A i \in 1 .. n : f[i - 1] \in S => f[i] = next[<<f[i - 1], eps[i]>>]
    BY <1>0, <1>3, <1>7, Zenon
  <2> QED BY <1>0, <1>2, <1>7, <2>1, PassChosen
<1>9. f \in [0 .. n -> S]
  BY <1>8 DEF Passes
<1> QED BY <1>1, <1>7, <1>9 DEF S

\* filterDialableEndpoints keeps exactly what can be dialled, in its order.
DialedFrom(out, eps) ==
    /\ \A l \in 1 .. Len(out) : Dialable(out[l])
    /\ \A h \in 1 .. Len(eps) : Dialable(eps[h]) =>
           \E m \in 1 .. Len(out) : /\ out[m] = eps[h]
                                    /\ \A l \in 1 .. m : \E k \in 1 .. h : out[l] = eps[k]

LEMMA DialedInOrder ==
    ASSUME NEW E, NEW eps \in Seq(E)
    PROVE  DialableOnes(eps) \in Seq(E) /\ DialedFrom(DialableOnes(eps), eps)
<1> DEFINE n == Len(eps)
<1>0. n \in Nat /\ \A i \in 1 .. n : eps[i] \in E
  OBVIOUS
<1>1. PICK g : /\ g \in [0 .. n -> Seq(E)] /\ g[0] = <<>> /\ DialableOnes(eps) = g[n]
               /\ \A i \in 1 .. n : g[i] = IF Dialable(eps[i]) THEN Append(g[i - 1], eps[i]) ELSE g[i - 1]
  BY DialablePass
<1> DEFINE From(acc, i) ==
               \A l \in 1 .. Len(acc) : Dialable(acc[l]) /\ \E k \in 1 .. i : acc[l] = eps[k]
           Shows(acc, i) ==
               \A h \in 1 .. i : Dialable(eps[h]) =>
                   \E m \in 1 .. Len(acc) : /\ acc[m] = eps[h]
                                            /\ \A l \in 1 .. m : \E k \in 1 .. h : acc[l] = eps[k]
           I == {i \in 0 .. n : From(g[i], i) /\ Shows(g[i], i)}
<1>2. 0 \in I
  <2>1. Len(g[0]) = 0 /\ 1 .. 0 = {} /\ 0 \in 0 .. n
    BY <1>0, <1>1
  <2> QED BY <2>1
<1> HIDE DEF From, Shows
<1>3. ASSUME NEW i \in 1 .. n, i - 1 \in I PROVE i \in I
  <2> DEFINE was == g[i - 1]
             grown == g[i]
  <2>1. /\ i \in 0 .. n /\ i - 1 \in 0 .. n /\ was \in Seq(E) /\ eps[i] \in E /\ i \in Nat
        /\ 1 .. i - 1 \subseteq 1 .. i /\ i \in 1 .. i /\ \A h \in 1 .. i : h = i \/ h \in 1 .. i - 1
    <3>1. /\ i \in 0 .. n /\ i - 1 \in 0 .. n /\ eps[i] \in E /\ i \in Nat
          /\ 1 .. i - 1 \subseteq 1 .. i /\ i \in 1 .. i /\ \A h \in 1 .. i : h = i \/ h \in 1 .. i - 1
      BY <1>0
    <3>2. was \in Seq(E)
      BY <1>1, <3>1
    <3> QED BY <3>1, <3>2
  <2>2. From(was, i - 1) /\ Shows(was, i - 1)
    BY <1>3
  <2>3. grown = IF Dialable(eps[i]) THEN Append(was, eps[i]) ELSE was
    BY <1>1
  <2> HIDE DEF was, grown
  <2>4. CASE ~Dialable(eps[i])
    <3>1. grown = was
      BY <2>3, <2>4
    <3>2. From(was, i)
      BY <2>1, <2>2 DEF From
    <3>3. Shows(was, i)
      BY <2>1, <2>2, <2>4 DEF Shows
    <3> QED BY <2>1, <3>1, <3>2, <3>3 DEF grown
  <2>5. CASE Dialable(eps[i])
    <3>1. /\ grown \in Seq(E) /\ Len(grown) = Len(was) + 1 /\ grown[Len(was) + 1] = eps[i]
          /\ \A l \in 1 .. Len(was) : grown[l] = was[l]
      BY <2>1, <2>3, <2>5, Appended
    <3>2. /\ Len(was) \in Nat /\ 1 .. Len(was) \subseteq 1 .. Len(grown)
          /\ \A l \in 1 .. Len(grown) : l \in 1 .. Len(was) \/ l = Len(was) + 1
      BY <2>1, <3>1
    <3>3. ASSUME NEW l \in 1 .. Len(grown) PROVE Dialable(grown[l]) /\ \E k \in 1 .. i : grown[l] = eps[k]
      <4>1. CASE l \in 1 .. Len(was)
        <5>1. PICK k \in 1 .. i - 1 : was[l] = eps[k]
          BY <2>2, <4>1 DEF From
        <5>2. Dialable(was[l]) /\ grown[l] = was[l] /\ k \in 1 .. i
          BY <2>1, <2>2, <3>1, <4>1 DEF From
        <5> QED BY <5>1, <5>2
      <4>2. CASE l = Len(was) + 1
        BY <2>1, <2>5, <3>1, <4>2
      <4> QED BY <3>2, <4>1, <4>2
    <3>4. ASSUME NEW h \in 1 .. i, Dialable(eps[h])
          PROVE  \E m \in 1 .. Len(grown) : /\ grown[m] = eps[h]
                                          /\ \A l \in 1 .. m : \E k \in 1 .. h : grown[l] = eps[k]
      <4>1. CASE h \in 1 .. i - 1
        <5>1. PICK m \in 1 .. Len(was) : /\ was[m] = eps[h]
                                         /\ \A l \in 1 .. m : \E k \in 1 .. h : was[l] = eps[k]
          BY <2>2, <3>4, <4>1 DEF Shows
        <5>2. m \in 1 .. Len(grown) /\ 1 .. m \subseteq 1 .. Len(was)
          BY <3>2
        <5> QED BY <3>1, <5>1, <5>2
      <4>2. CASE h = i
        <5>1. Len(grown) \in 1 .. Len(grown) /\ grown[Len(grown)] = eps[h]
          BY <3>1, <3>2, <4>2
        <5> QED BY <3>3, <4>2, <5>1
      <4> QED BY <2>1, <4>1, <4>2
    <3>5. From(grown, i) /\ Shows(grown, i)
      BY <3>3, <3>4 DEF From, Shows
    <3> QED BY <2>1, <3>5 DEF grown
  <2> QED BY <2>4, <2>5
<1> HIDE DEF I
<1>4. 0 .. n \subseteq I
  BY <1>0, <1>2, <1>3, Inductive
<1>5. n \in I /\ g[n] \in Seq(E)
  BY <1>0, <1>1, <1>4
<1>6. From(g[n], n) /\ Shows(g[n], n)
  BY <1>5 DEF I
<1>7. g[n] \in Seq(E) /\ DialedFrom(g[n], eps)
  BY <1>5, <1>6 DEF From, Shows, DialedFrom
<1> QED BY <1>1, <1>7, Zenon

\* Every endpoint can be reached at something.
LEMMA IdentityGiven ==
    ASSUME NEW ep
    PROVE  Identity(ep) # {}
BY DEF Identity

\* dedupeByHost: no two of what is kept share an address, and what is dropped shares one with
\* an earlier endpoint that is kept.
KeptFrom(out, eps) ==
    /\ \A l \in 1 .. Len(out) : \E k \in 1 .. Len(eps) : out[l] = eps[k]
    /\ \A l, m \in 1 .. Len(out) : l # m => Identity(out[l]) \cap Identity(out[m]) = {}
    /\ \A h \in 1 .. Len(eps) : \E j \in 1 .. Len(out) :
           /\ Identity(out[j]) \cap Identity(eps[h]) # {}
           /\ \E k \in 1 .. h : out[j] = eps[k]

LEMMA KeptApart ==
    ASSUME NEW E, NEW eps \in Seq(E)
    PROVE  Kept(eps) \in Seq(E) /\ KeptFrom(Kept(eps), eps)
<1> DEFINE n == Len(eps)
<1>0. n \in Nat /\ \A i \in 1 .. n : eps[i] \in E
  OBVIOUS
<1>1. PICK g : /\ g \in [0 .. n -> Seq(E)] /\ g[0] = <<>> /\ Kept(eps) = g[n]
               /\ \A i \in 1 .. n : g[i] = IF Taken(eps[i], g[i - 1]) THEN g[i - 1] ELSE Append(g[i - 1], eps[i])
  BY KeptPass
<1> DEFINE From(acc, i) == \A l \in 1 .. Len(acc) : \E k \in 1 .. i : acc[l] = eps[k]
           Apart(acc) == \A l, m \in 1 .. Len(acc) : l # m => Identity(acc[l]) \cap Identity(acc[m]) = {}
           Shows(acc, i) ==
               \A h \in 1 .. i : \E j \in 1 .. Len(acc) :
                   /\ Identity(acc[j]) \cap Identity(eps[h]) # {}
                   /\ \E k \in 1 .. h : acc[j] = eps[k]
           I == {i \in 0 .. n : From(g[i], i) /\ Apart(g[i]) /\ Shows(g[i], i)}
<1>2. 0 \in I
  <2>1. Len(g[0]) = 0 /\ 1 .. 0 = {} /\ 0 \in 0 .. n
    BY <1>0, <1>1
  <2> QED BY <2>1
<1> HIDE DEF From, Apart, Shows
<1>3. ASSUME NEW i \in 1 .. n, i - 1 \in I PROVE i \in I
  <2> DEFINE was == g[i - 1]
             grown == g[i]
  <2>1. /\ i \in 0 .. n /\ i - 1 \in 0 .. n /\ was \in Seq(E) /\ eps[i] \in E /\ i \in Nat
        /\ 1 .. i - 1 \subseteq 1 .. i /\ i \in 1 .. i /\ \A h \in 1 .. i : h = i \/ h \in 1 .. i - 1
    <3>1. /\ i \in 0 .. n /\ i - 1 \in 0 .. n /\ eps[i] \in E /\ i \in Nat
          /\ 1 .. i - 1 \subseteq 1 .. i /\ i \in 1 .. i /\ \A h \in 1 .. i : h = i \/ h \in 1 .. i - 1
      BY <1>0
    <3>2. was \in Seq(E)
      BY <1>1, <3>1
    <3> QED BY <3>1, <3>2
  <2>2. From(was, i - 1) /\ Apart(was) /\ Shows(was, i - 1)
    BY <1>3
  <2>3. grown = IF Taken(eps[i], was) THEN was ELSE Append(was, eps[i])
    BY <1>1
  <2> HIDE DEF was, grown
  <2>0. DOMAIN was = 1 .. Len(was) /\ Len(was) \in Nat
    BY <2>1
  <2>4. CASE Taken(eps[i], was)
    <3>1. grown = was
      BY <2>3, <2>4
    <3>2. From(was, i)
      BY <2>1, <2>2 DEF From
    <3>3. PICK j \in 1 .. Len(was) : Identity(was[j]) \cap Identity(eps[i]) # {}
      BY <2>0, <2>4 DEF Taken, Seen
    <3>4. \E k \in 1 .. i : was[j] = eps[k]
      BY <3>2, <3>3 DEF From
    <3>5. ASSUME NEW h \in 1 .. i
          PROVE  \E m \in 1 .. Len(was) : /\ Identity(was[m]) \cap Identity(eps[h]) # {}
                                          /\ \E k \in 1 .. h : was[m] = eps[k]
      <4>1. CASE h = i
        BY <3>3, <3>4, <4>1
      <4>2. CASE h \in 1 .. i - 1
        BY <2>2, <4>2 DEF Shows
      <4> QED BY <2>1, <4>1, <4>2
    <3>6. From(grown, i) /\ Apart(grown) /\ Shows(grown, i)
      <4>1. Shows(was, i)
        BY <3>5 DEF Shows
      <4> QED BY <2>2, <3>1, <3>2, <4>1
    <3> QED BY <2>1, <3>6 DEF grown
  <2>5. CASE ~Taken(eps[i], was)
    <3>1. /\ grown \in Seq(E) /\ Len(grown) = Len(was) + 1 /\ grown[Len(was) + 1] = eps[i]
          /\ \A l \in 1 .. Len(was) : grown[l] = was[l]
      BY <2>1, <2>3, <2>5, Appended
    <3>2. /\ 1 .. Len(was) \subseteq 1 .. Len(grown) /\ Len(was) + 1 \in 1 .. Len(grown)
          /\ \A l \in 1 .. Len(grown) : l \in 1 .. Len(was) \/ l = Len(was) + 1
      BY <2>0, <3>1
    <3>3. From(grown, i)
      <4>1. ASSUME NEW l \in 1 .. Len(grown) PROVE \E k \in 1 .. i : grown[l] = eps[k]
        <5>1. CASE l \in 1 .. Len(was)
          <6>1. PICK k \in 1 .. i - 1 : was[l] = eps[k]
            BY <2>2, <5>1 DEF From
          <6>2. grown[l] = was[l] /\ k \in 1 .. i
            BY <2>1, <3>1, <5>1
          <6> QED BY <6>1, <6>2
        <5>2. CASE l = Len(was) + 1
          BY <2>1, <3>1, <5>2
        <5> QED BY <3>2, <5>1, <5>2
      <4> QED BY <4>1 DEF From
    <3>4. \A l \in 1 .. Len(was) : Identity(was[l]) \cap Identity(eps[i]) = {}
      BY <2>0, <2>5 DEF Taken, Seen
    <3>5. Apart(grown)
      <4>1. ASSUME NEW l \in 1 .. Len(grown), NEW m \in 1 .. Len(grown), l # m
            PROVE  Identity(grown[l]) \cap Identity(grown[m]) = {}
        <5>1. CASE l \in 1 .. Len(was) /\ m \in 1 .. Len(was)
          BY <2>2, <3>1, <4>1, <5>1 DEF Apart
        <5>2. CASE l \in 1 .. Len(was) /\ m = Len(was) + 1
          BY <3>1, <3>4, <5>2
        <5>3. CASE m \in 1 .. Len(was) /\ l = Len(was) + 1
          BY <3>1, <3>4, <5>3
        <5> QED BY <3>2, <4>1, <5>1, <5>2, <5>3
      <4> QED BY <4>1 DEF Apart
    <3>6. ASSUME NEW h \in 1 .. i
          PROVE  \E m \in 1 .. Len(grown) : /\ Identity(grown[m]) \cap Identity(eps[h]) # {}
                                          /\ \E k \in 1 .. h : grown[m] = eps[k]
      <4>1. CASE h = i
        <5>1. grown[Len(was) + 1] = eps[h] /\ Identity(eps[h]) \cap Identity(eps[h]) # {}
          BY <3>1, <4>1, IdentityGiven
        <5> QED BY <2>1, <3>2, <4>1, <5>1
      <4>2. CASE h \in 1 .. i - 1
        <5>1. PICK m \in 1 .. Len(was) : /\ Identity(was[m]) \cap Identity(eps[h]) # {}
                                         /\ \E k \in 1 .. h : was[m] = eps[k]
          BY <2>2, <4>2 DEF Shows
        <5> QED BY <3>1, <3>2, <5>1
      <4> QED BY <2>1, <4>1, <4>2
    <3>7. From(grown, i) /\ Apart(grown) /\ Shows(grown, i)
      BY <3>3, <3>5, <3>6 DEF Shows
    <3> QED BY <2>1, <3>7 DEF grown
  <2> QED BY <2>4, <2>5
<1> HIDE DEF I
<1>4. 0 .. n \subseteq I
  BY <1>0, <1>2, <1>3, Inductive
<1>5. n \in I /\ g[n] \in Seq(E)
  BY <1>0, <1>1, <1>4
<1>6. From(g[n], n) /\ Apart(g[n]) /\ Shows(g[n], n)
  BY <1>5 DEF I
<1>7. Kept(eps) = g[n]
  BY <1>1
<1>8. g[n] \in Seq(E) /\ KeptFrom(g[n], eps)
  BY <1>5, <1>6 DEF From, Apart, Shows, KeptFrom
<1> QED BY <1>7, <1>8, Zenon

NamesOf(B) == [base : B, upper : BOOLEAN, tail : Seq(Nat)]

LEMMA LowerIs ==
    ASSUME NEW B, NEW name \in NamesOf(B)
    PROVE  Lower(name) \in NamesOf(B) /\ Lower(name).tail = name.tail
BY DEF NamesOf, Lower

LEMMA NumberedIs ==
    ASSUME NEW B, NEW name \in NamesOf(B), NEW k \in Nat
    PROVE  /\ [name EXCEPT !.tail = Append(@, k)] \in NamesOf(B)
           /\ [name EXCEPT !.tail = Append(@, k)].tail = Append(name.tail, k)
BY DEF NamesOf

LEMMA RenamedIs ==
    ASSUME NEW B, NEW H, NEW P, NEW ep \in EndpointsOf(B, H, P), NEW name \in NamesOf(B)
    PROVE  /\ [ep EXCEPT !.name = name] \in EndpointsOf(B, H, P)
           /\ [ep EXCEPT !.name = name].name = name
           /\ [ep EXCEPT !.name = name].host = ep.host /\ [ep EXCEPT !.name = name].port = ep.port
BY DEF NamesOf, EndpointsOf

\* The search for a number ends, with a name nobody has.
LEMMA FreeNumberIs ==
    ASSUME NEW B, NEW name \in NamesOf(B), NEW n \in Nat, NEW names, IsFiniteSet(names)
    PROVE  /\ FreeNumber(name, n, names) \in Nat
           /\ Lower([name EXCEPT !.tail = Append(@, FreeNumber(name, n, names))]) \notin names
<1> DEFINE cand(k) == Lower([name EXCEPT !.tail = Append(@, k)])
           R == n + 1 .. n + 1 + Cardinality(names)
           T == {k \in R : cand(k) \notin names}
           Least(k) == cand(k) \notin names /\ \A j \in n + 1 .. k - 1 : ~(cand(j) \notin names)
<1>1. FreeNumber(name, n, names) = CHOOSE k \in R : Least(k)
  BY Zenon DEF FreeNumber
<1>2. \A k \in Nat : cand(k).tail = Append(name.tail, k)
  BY NumberedIs, LowerIs
<1>3. \A j, k \in Nat : cand(j) = cand(k) => j = k
  <2>1. ASSUME NEW j \in Nat, NEW k \in Nat, cand(j) = cand(k) PROVE j = k
    <3>1. Append(name.tail, j) = Append(name.tail, k)
      BY <1>2, <2>1
    <3>2. name.tail \in Seq(Nat)
      BY DEF NamesOf
    <3>3. Append(name.tail, j)[Len(name.tail) + 1] = j /\ Append(name.tail, k)[Len(name.tail) + 1] = k
      BY <3>2, Appended
    <3> QED BY <3>1, <3>3
  <2> QED BY <2>1
<1>4. Cardinality(names) \in Nat
  BY FS_CardinalityType
<1>5. R \subseteq Nat /\ IsFiniteSet(R) /\ Cardinality(R) = Cardinality(names) + 1
  <2> DEFINE a == n + 1
             b == n + 1 + Cardinality(names)
  <2>1. a \in Int /\ b \in Int /\ ~(a > b) /\ b - a + 1 = Cardinality(names) + 1 /\ a .. b \subseteq Nat
    BY <1>4
  <2>2. R = a .. b
    OBVIOUS
  <2> HIDE DEF a, b, R
  <2>3. IsFiniteSet(a .. b) /\ Cardinality(a .. b) = IF a > b THEN 0 ELSE b - a + 1
    BY <2>1, FS_Interval
  <2>4. Cardinality(R) = b - a + 1
    BY <2>1, <2>2, <2>3
  <2> QED BY <2>1, <2>2, <2>3, <2>4, Zenon
<1> HIDE DEF cand
<1>6. T # {}
  <2> SUFFICES ASSUME \A k \in R : cand(k) \in names PROVE FALSE
    OBVIOUS
  <2> DEFINE f == [k \in R |-> cand(k)]
  <2>1. f \in [R -> names]
    OBVIOUS
  <2>2. \A k \in R : f[k] = cand(k)
    OBVIOUS
  <2>3. Cardinality(names) < Cardinality(R)
    BY <1>4, <1>5
  <2> HIDE DEF f, R
  <2>4. PICK j, k \in R : j # k /\ f[j] = f[k]
    BY <1>5, <2>1, <2>3, FS_PigeonHole
  <2> QED BY <1>3, <1>5, <2>2, <2>4
<1>7. PICK k \in T : \A j \in T : k <= j
  <2>1. T \in SUBSET Nat
    BY <1>5
  <2> HIDE DEF T
  <2> QED BY <1>6, <2>1, LeastPlace
<1>8. k \in R /\ Least(k)
  <2>1. k \in R /\ cand(k) \notin names
    OBVIOUS
  <2>2. ASSUME NEW j \in n + 1 .. k - 1 PROVE cand(j) \in names
    <3>1. j \in R /\ ~(k <= j)
      BY <1>4, <2>1
    <3> QED BY <1>7, <3>1
  <2> QED BY <2>1, <2>2
<1> DEFINE c == CHOOSE h \in R : Least(h)
<1>9. c \in R /\ Least(c)
  <2> HIDE DEF R, Least
  <2> QED BY <1>8
<1> HIDE DEF c
<1>10. c \in Nat /\ cand(c) \notin names
  BY <1>5, <1>9
<1>11. FreeNumber(name, n, names) = c
  BY <1>1, Zenon DEF c
<1> QED BY <1>10, <1>11, Zenon DEF cand

\* What uniquifyNames has so far: endpoints, and the last number of each name.
NamedSoFar(B, H, P) ==
    [eps : Seq(EndpointsOf(B, H, P)), seen : UNION {[D -> Nat] : D \in {F \in SUBSET NamesOf(B) : IsFiniteSet(F)}}]

LEMMA SeenKnown ==
    ASSUME NEW B, NEW D \in SUBSET NamesOf(B), IsFiniteSet(D), NEW seen \in [D -> Nat]
    PROVE  seen \in UNION {[C -> Nat] : C \in {F \in SUBSET NamesOf(B) : IsFiniteSet(F)}}
OBVIOUS

\* An endpoint comes out with a name nobody has, its own unless somebody has that.
NamedAs(out, acc, ep, e) ==
    /\ out.eps = Append(acc.eps, e)
    /\ e.host = ep.host /\ e.port = ep.port
    /\ Lower(e.name) \notin DOMAIN acc.seen
    /\ DOMAIN out.seen = DOMAIN acc.seen \cup {Lower(e.name)}
    /\ ep.name.base # "" => e.name = ep.name \/ Lower(ep.name) \in DOMAIN acc.seen

LEMMA NamedIs ==
    ASSUME NEW B, NEW H, NEW P, "proxy" \in B,
           NEW acc \in NamedSoFar(B, H, P), NEW ep \in EndpointsOf(B, H, P)
    PROVE  /\ Named(acc, ep) \in NamedSoFar(B, H, P)
           /\ \E e \in EndpointsOf(B, H, P) : NamedAs(Named(acc, ep), acc, ep, e)
<1> DEFINE E == EndpointsOf(B, H, P)
           N == NamesOf(B)
           name == IF ep.name.base = "" THEN Plain("proxy") ELSE ep.name
           key == Lower(name)
           names == DOMAIN acc.seen
           number == FreeNumber(name, acc.seen[key], names)
           renamed == [name EXCEPT !.tail = Append(@, number)]
           fresh == [eps |-> Append(acc.eps, [ep EXCEPT !.name = name]),
                     seen |-> [k \in names \cup {key} |-> IF k = key THEN 1 ELSE acc.seen[k]]]
           numbered == [eps |-> Append(acc.eps, [ep EXCEPT !.name = renamed]),
                        seen |-> [k \in names \cup {Lower(renamed)} |->
                                     IF k = Lower(renamed) THEN 1 ELSE IF k = key THEN number ELSE acc.seen[k]]]
<1>1. Named(acc, ep) = IF key \notin names THEN fresh ELSE numbered
  BY Zenon DEF Named
<1>2. acc.eps \in Seq(E) /\ acc.seen \in UNION {[D -> Nat] : D \in {F \in SUBSET N : IsFiniteSet(F)}}
  BY DEF NamedSoFar
<1>3. names \in SUBSET N /\ IsFiniteSet(names) /\ acc.seen \in [names -> Nat]
  <2>1. PICK D \in {F \in SUBSET N : IsFiniteSet(F)} : acc.seen \in [D -> Nat]
    BY <1>2
  <2>2. names = D
    BY <2>1
  <2> QED BY <2>1, <2>2
<1>4. name \in N
  <2>1. ep.name \in N
    BY DEF EndpointsOf, NamesOf
  <2>2. Plain("proxy") \in N
    BY DEF Plain, Word, NamesOf
  <2> QED BY <2>1, <2>2
<1>5. ep.name.base # "" => name = ep.name
  OBVIOUS
<1>6. key \in N
  <2> HIDE DEF name
  <2> QED BY <1>4, LowerIs
<1> HIDE DEF name, fresh, numbered, N, E
<1>7. CASE key \notin names
  <2> DEFINE e == [ep EXCEPT !.name = name]
  <2>1. e \in E /\ e.name = name /\ e.host = ep.host /\ e.port = ep.port
    BY <1>4, RenamedIs DEF N, E
  <2> HIDE DEF e, key, names
  <2>2. Named(acc, ep) = fresh
    BY <1>1, <1>7
  <2>3. /\ fresh.eps = Append(acc.eps, e)
        /\ fresh.seen = [k \in names \cup {key} |-> IF k = key THEN 1 ELSE acc.seen[k]]
        /\ fresh = [eps |-> fresh.eps, seen |-> fresh.seen]
    BY DEF fresh, e
  <2>4. IsFiniteSet(names \cup {key}) /\ names \cup {key} \in SUBSET N
    BY <1>3, <1>6, FS_AddElement
  <2>5. fresh.seen \in [names \cup {key} -> Nat] /\ DOMAIN fresh.seen = names \cup {key}
    BY <1>3, <2>3
  <2>6. fresh.seen \in UNION {[D -> Nat] : D \in {F \in SUBSET N : IsFiniteSet(F)}}
    BY <2>4, <2>5
  <2>7. fresh.eps \in Seq(E)
    BY <1>2, <2>1, <2>3
  <2>8. fresh \in NamedSoFar(B, H, P)
    BY <2>3, <2>6, <2>7 DEF NamedSoFar, E, N
  <2>9. Lower(e.name) = key
    BY <2>1 DEF key
  <2>10. NamedAs(fresh, acc, ep, e)
    BY <1>5, <1>7, <2>1, <2>3, <2>5, <2>9 DEF NamedAs, names
  <2> QED BY <2>1, <2>2, <2>8, <2>10 DEF E
<1>8. CASE key \in names
  <2> DEFINE e == [ep EXCEPT !.name = renamed]
  <2>1. acc.seen[key] \in Nat
    BY <1>3, <1>8
  <2>2. number \in Nat /\ Lower(renamed) \notin names
    <3> HIDE DEF key, names
    <3> QED BY <1>3, <1>4, <2>1, FreeNumberIs DEF N
  <2> HIDE DEF number
  <2>3. renamed \in N
    BY <1>4, <2>2, NumberedIs DEF N
  <2> HIDE DEF renamed
  <2>4. Lower(renamed) \in N
    BY <2>3, LowerIs DEF N
  <2>5. e \in E /\ e.name = renamed /\ e.host = ep.host /\ e.port = ep.port
    BY <2>3, RenamedIs DEF N, E
  <2>6. ep.name.base # "" => Lower(ep.name) \in names
    BY <1>5, <1>8
  <2> HIDE DEF e, key, names
  <2>7. Named(acc, ep) = numbered
    BY <1>1, <1>8
  <2>8. /\ numbered.eps = Append(acc.eps, e)
        /\ numbered.seen = [k \in names \cup {Lower(renamed)} |->
                               IF k = Lower(renamed) THEN 1 ELSE IF k = key THEN number ELSE acc.seen[k]]
        /\ numbered = [eps |-> numbered.eps, seen |-> numbered.seen]
    BY DEF numbered, e
  <2>9. IsFiniteSet(names \cup {Lower(renamed)}) /\ names \cup {Lower(renamed)} \in SUBSET N
    BY <1>3, <2>4, FS_AddElement
  <2>10. /\ numbered.seen \in [names \cup {Lower(renamed)} -> Nat]
         /\ DOMAIN numbered.seen = names \cup {Lower(renamed)}
    BY <1>3, <2>2, <2>8
  <2>11. numbered.seen \in UNION {[D -> Nat] : D \in {F \in SUBSET N : IsFiniteSet(F)}}
    BY <2>9, <2>10
  <2>12. numbered.eps \in Seq(E)
    BY <1>2, <2>5, <2>8
  <2>13. numbered \in NamedSoFar(B, H, P)
    BY <2>8, <2>11, <2>12 DEF NamedSoFar, E, N
  <2>14. NamedAs(numbered, acc, ep, e)
    BY <2>2, <2>5, <2>6, <2>8, <2>10 DEF NamedAs, names
  <2> QED BY <2>5, <2>7, <2>13, <2>14 DEF E
<1> QED BY <1>7, <1>8

LEMMA NamedPass ==
    ASSUME NEW B, NEW H, NEW P, "proxy" \in B, NEW eps \in Seq(EndpointsOf(B, H, P))
    PROVE  \E g : /\ g \in [0 .. Len(eps) -> NamedSoFar(B, H, P)]
                  /\ g[0] = [eps |-> <<>>, seen |-> [k \in {} |-> 0]]
                  /\ UniquifyNames(eps) = g[Len(eps)].eps
                  /\ \A i \in 1 .. Len(eps) : g[i] = Named(g[i - 1], eps[i])
<1> DEFINE n == Len(eps)
           E == EndpointsOf(B, H, P)
           S == NamedSoFar(B, H, P)
           none == [eps |-> <<>>, seen |-> [k \in {} |-> 0]]
           next == [p \in S \X E |-> Named(p[1], p[2])]
           Step(h, i) == IF i = 0 THEN none ELSE Named(h[i - 1], eps[i])
           f == CHOOSE h : h = [i \in 0 .. n |-> Step(h, i)]
<1>0. n \in Nat /\ (\A i \in 1 .. n : eps[i] \in E) /\ none \in S /\ eps \in Seq(E)
  <2>1. n \in Nat /\ (\A i \in 1 .. n : eps[i] \in E) /\ eps \in Seq(E)
    OBVIOUS
  <2>2. none \in S
    <3>1. {} \in SUBSET NamesOf(B) /\ IsFiniteSet({}) /\ [k \in {} |-> 0] \in [{} -> Nat]
      BY FS_EmptySet
    <3>2. [k \in {} |-> 0] \in UNION {[D -> Nat] : D \in {F \in SUBSET NamesOf(B) : IsFiniteSet(F)}}
      BY <3>1, SeenKnown
    <3>3. <<>> \in Seq(EndpointsOf(B, H, P))
      OBVIOUS
    <3> QED BY <3>2, <3>3 DEF NamedSoFar
  <2> QED BY <2>1, <2>2
<1>1. UniquifyNames(eps) = f[n].eps
  BY DEF UniquifyNames
<1>2. next \in [S \X E -> S]
  <2>1. \A s \in S, e \in E : Named(s, e) \in S
    BY NamedIs
  <2> HIDE DEF S, E
  <2> QED BY <2>1
<1>3. \A s \in S, e \in E : next[<<s, e>>] = Named(s, e)
  <2> HIDE DEF S, E
  <2> QED OBVIOUS
<1> HIDE DEF next, S, E, none
<1>4. PICK g : Passes(g, S, none, next, eps)
  BY <1>0, <1>2, PassExists
<1>5. g = [i \in 0 .. n |-> Step(g, i)]
  <2>1. g \in [0 .. n -> S] /\ g[0] = none
    BY <1>4 DEF Passes
  <2>2. ASSUME NEW i \in 0 .. n PROVE g[i] = Step(g, i)
    <3>1. CASE i = 0
      BY <2>1, <3>1
    <3>2. CASE i # 0
      <4>1. i \in 1 .. n /\ i - 1 \in 0 .. n
        BY <1>0, <3>2
      <4>2. g[i - 1] \in S /\ eps[i] \in E /\ g[i] = next[<<g[i - 1], eps[i]>>]
        BY <1>0, <1>4, <2>1, <4>1 DEF Passes
      <4> QED BY <1>3, <3>2, <4>2
    <3> QED BY <3>1, <3>2
  <2> HIDE DEF Step
  <2> QED BY <2>1, <2>2
<1>6. f = [i \in 0 .. n |-> Step(f, i)]
  BY <1>5
<1> HIDE DEF f
<1>7. /\ f = [i \in 0 .. n |-> f[i]] /\ f[0] = none
      /\ \A i \in 1 .. n : f[i] = Named(f[i - 1], eps[i])
  <2>1. \A i \in 0 .. n : f[i] = Step(f, i)
    BY <1>6, Zenon
  <2>2. f = [i \in 0 .. n |-> f[i]]
    BY <1>6, <2>1, Zenon
  <2>3. 0 \in 0 .. n /\ \A i \in 1 .. n : i \in 0 .. n /\ i # 0
    BY <1>0
  <2> QED BY <2>1, <2>2, <2>3, Zenon
<1>8. Passes(f, S, none, next, eps)
  <2>1. \A i \in 1 .. n : f[i - 1] \in S => f[i] = next[<<f[i - 1], eps[i]>>]
    BY <1>0, <1>3, <1>7, Zenon
  <2> QED BY <1>0, <1>2, <1>7, <2>1, PassChosen
<1>9. f \in [0 .. n -> S]
  BY <1>8 DEF Passes
<1> QED BY <1>1, <1>7, <1>9 DEF S, none

\* uniquifyNames: the same endpoints, no two names alike, and whoever came first keeps its own.
NamedFrom(out, eps) ==
    /\ Len(out) = Len(eps)
    /\ \A j \in 1 .. Len(eps) : out[j].host = eps[j].host /\ out[j].port = eps[j].port
    /\ \A j, k \in 1 .. Len(eps) : j # k => Lower(out[j].name) # Lower(out[k].name)
    /\ \A j \in 1 .. Len(eps) : eps[j].name.base # "" =>
           \/ out[j].name = eps[j].name
           \/ \E k \in 1 .. j - 1 : Lower(out[k].name) = Lower(eps[j].name)

LEMMA NamesApart ==
    ASSUME NEW B, NEW H, NEW P, "proxy" \in B, NEW eps \in Seq(EndpointsOf(B, H, P))
    PROVE  UniquifyNames(eps) \in Seq(EndpointsOf(B, H, P)) /\ NamedFrom(UniquifyNames(eps), eps)
<1> DEFINE n == Len(eps)
           E == EndpointsOf(B, H, P)
           S == NamedSoFar(B, H, P)
<1>0. n \in Nat /\ \A i \in 1 .. n : eps[i] \in E
  OBVIOUS
<1>1. PICK g : /\ g \in [0 .. n -> S] /\ g[0] = [eps |-> <<>>, seen |-> [k \in {} |-> 0]]
               /\ UniquifyNames(eps) = g[n].eps
               /\ \A i \in 1 .. n : g[i] = Named(g[i - 1], eps[i])
  BY NamedPass
<1>2. \A s \in S : s.eps \in Seq(E)
  BY DEF NamedSoFar
<1> DEFINE Same(out, i) == \A j \in 1 .. i : out[j].host = eps[j].host /\ out[j].port = eps[j].port
           Taking(out, i) == {Lower(out[j].name) : j \in 1 .. i}
           Apart(out, i) == \A j, k \in 1 .. i : j # k => Lower(out[j].name) # Lower(out[k].name)
           Own(out, i) == \A j \in 1 .. i : eps[j].name.base # "" =>
                              \/ out[j].name = eps[j].name
                              \/ \E k \in 1 .. j - 1 : Lower(out[k].name) = Lower(eps[j].name)
           Sound(acc, i) == /\ Len(acc.eps) = i /\ DOMAIN acc.seen = Taking(acc.eps, i)
                           /\ Same(acc.eps, i) /\ Apart(acc.eps, i) /\ Own(acc.eps, i)
           I == {i \in 0 .. n : Sound(g[i], i)}
<1> HIDE DEF E, S, Same, Taking, Apart, Own
<1>3. 0 \in I
  <2>1. g[0].eps = <<>> /\ DOMAIN g[0].seen = {} /\ 1 .. 0 = {} /\ 0 \in 0 .. n
    BY <1>0, <1>1
  <2>2. Len(g[0].eps) = 0
    BY <2>1
  <2>3. Taking(g[0].eps, 0) = {} /\ Same(g[0].eps, 0) /\ Apart(g[0].eps, 0) /\ Own(g[0].eps, 0)
    BY <2>1 DEF Taking, Same, Apart, Own
  <2>4. Sound(g[0], 0)
    BY <2>1, <2>2, <2>3
  <2> HIDE DEF Sound
  <2> QED BY <2>1, <2>4
<1>4. ASSUME NEW i \in 1 .. n, i - 1 \in I PROVE i \in I
  <2> DEFINE was == g[i - 1].eps
             grown == g[i].eps
             names == DOMAIN g[i - 1].seen
  <2>1. /\ i \in 0 .. n /\ i - 1 \in 0 .. n /\ eps[i] \in E /\ i \in Nat /\ i - 1 + 1 = i
        /\ 1 .. i - 1 \subseteq 1 .. i /\ i \in 1 .. i /\ (\A j \in 1 .. i : j = i \/ j \in 1 .. i - 1)
        /\ (\A j \in 1 .. i : 1 .. j - 1 \subseteq 1 .. i - 1) /\ i \notin 1 .. i - 1
    BY <1>0
  <2>2. g[i - 1] \in S
    BY <1>1, <2>1
  <2>3. Sound(g[i - 1], i - 1)
    <3> HIDE DEF Sound
    <3> QED BY <1>4
  <2>4. was \in Seq(E)
    BY <1>2, <2>2
  <2>6. g[i] = Named(g[i - 1], eps[i])
    BY <1>1
  <2>16. PICK e \in E : NamedAs(g[i], g[i - 1], eps[i], e)
    <3>1. g[i - 1] \in NamedSoFar(B, H, P) /\ eps[i] \in EndpointsOf(B, H, P)
      BY <2>1, <2>2, Zenon DEF E, S
    <3>2. \E e \in EndpointsOf(B, H, P) : NamedAs(Named(g[i - 1], eps[i]), g[i - 1], eps[i], e)
      BY <3>1, NamedIs, Zenon
    <3> QED BY <2>6, <3>2, Zenon DEF E
  <2>5. /\ e.host = eps[i].host /\ e.port = eps[i].port
        /\ Lower(e.name) \notin names
        /\ eps[i].name.base # "" => e.name = eps[i].name \/ Lower(eps[i].name) \in names
    BY <2>16 DEF NamedAs
  <2>7. grown = Append(was, e) /\ DOMAIN g[i].seen = names \cup {Lower(e.name)}
    BY <2>16 DEF NamedAs
  <2>8. Len(was) = i - 1 /\ names = Taking(was, i - 1) /\ Same(was, i - 1) /\ Apart(was, i - 1) /\ Own(was, i - 1)
    BY <2>3
  <2> HIDE DEF was, grown, names
  <2>9. Len(grown) = i /\ grown[i] = e /\ \A j \in 1 .. i - 1 : grown[j] = was[j]
    BY <2>1, <2>4, <2>7, <2>8, Appended
  <2>10. Taking(grown, i) = names \cup {Lower(e.name)}
    BY <2>1, <2>8, <2>9 DEF Taking
  <2>11. Same(grown, i)
    BY <2>1, <2>5, <2>8, <2>9 DEF Same
  <2>12. \A j \in 1 .. i - 1 : Lower(grown[j].name) # Lower(e.name)
    BY <2>5, <2>8, <2>9 DEF Taking
  <2>13. Apart(grown, i)
    <3>1. ASSUME NEW j \in 1 .. i, NEW k \in 1 .. i, j # k PROVE Lower(grown[j].name) # Lower(grown[k].name)
      <4>1. CASE j \in 1 .. i - 1 /\ k \in 1 .. i - 1
        BY <2>8, <2>9, <3>1, <4>1 DEF Apart
      <4>2. CASE j = i /\ k \in 1 .. i - 1
        BY <2>9, <2>12, <4>2
      <4>3. CASE k = i /\ j \in 1 .. i - 1
        BY <2>9, <2>12, <4>3
      <4> QED BY <2>1, <3>1, <4>1, <4>2, <4>3
    <3> QED BY <3>1 DEF Apart
  <2>14. Own(grown, i)
    <3>1. ASSUME NEW j \in 1 .. i, eps[j].name.base # ""
          PROVE  \/ grown[j].name = eps[j].name
                 \/ \E k \in 1 .. j - 1 : Lower(grown[k].name) = Lower(eps[j].name)
      <4>1. CASE j \in 1 .. i - 1
        <5>1. \/ was[j].name = eps[j].name
              \/ \E k \in 1 .. j - 1 : Lower(was[k].name) = Lower(eps[j].name)
          BY <2>8, <3>1, <4>1 DEF Own
        <5>2. grown[j] = was[j] /\ \A k \in 1 .. j - 1 : grown[k] = was[k]
          BY <2>1, <2>9, <4>1
        <5> QED BY <5>1, <5>2
      <4>2. CASE j = i
        <5>1. e.name = eps[i].name \/ Lower(eps[i].name) \in Taking(was, i - 1)
          BY <2>5, <2>8, <3>1, <4>2
        <5>2. CASE e.name = eps[i].name
          BY <2>9, <4>2, <5>2
        <5>3. CASE Lower(eps[i].name) \in Taking(was, i - 1)
          <6>1. PICK k \in 1 .. i - 1 : Lower(was[k].name) = Lower(eps[i].name)
            BY <5>3 DEF Taking
          <6> QED BY <2>9, <4>2, <6>1
        <5> QED BY <5>1, <5>2, <5>3
      <4> QED BY <2>1, <4>1, <4>2
    <3> QED BY <3>1 DEF Own
  <2>15. Sound(g[i], i)
    BY <2>7, <2>9, <2>10, <2>11, <2>13, <2>14 DEF grown
  <2> HIDE DEF Sound
  <2> QED BY <2>1, <2>15
<1> HIDE DEF I
<1>5. 0 .. n \subseteq I
  BY <1>0, <1>3, <1>4, Inductive
<1>6. n \in I /\ g[n] \in S
  BY <1>0, <1>1, <1>5
<1>7. Sound(g[n], n) /\ g[n].eps \in Seq(E)
  BY <1>2, <1>6 DEF I
<1> DEFINE out == UniquifyNames(eps)
<1>8. out = g[n].eps
  BY <1>1
<1>9. out \in Seq(E) /\ Len(out) = n /\ Same(out, n) /\ Apart(out, n) /\ Own(out, n)
  BY <1>7, <1>8
<1> HIDE DEF out
<1>10. NamedFrom(out, eps)
  BY <1>9, Zenon DEF Same, Apart, Own, NamedFrom
<1> QED BY <1>9, <1>10, Zenon DEF out, E

\* Identities look at host and port only.
LEMMA IdentitySame ==
    ASSUME NEW a, NEW b, a.host = b.host, a.port = b.port
    PROVE  Identity(a) = Identity(b) /\ (Dialable(a) <=> Dialable(b))
BY DEF Identity, Dialable

\* For any endpoints of the Panel and of external sources: what is offered shares no address and
\* no name, nothing is dropped but for an earlier one that reaches the same address, and whoever
\* came first keeps its name (MergeEndpoints).
THEOREM MergeAlwaysSound ==
    ASSUME NEW B, NEW H, NEW P, "proxy" \in B,
           NEW local \in Seq(EndpointsOf(B, H, P)), NEW external \in Seq(EndpointsOf(B, H, P))
    PROVE  MergeSound(local, external)
<1> DEFINE E == EndpointsOf(B, H, P)
           all == local \o external
           dialed == DialableOnes(all)
           kept == Kept(dialed)
           out == UniquifyNames(kept)
<1>1. all \in Seq(E)
  BY ConcatProperties
<1> HIDE DEF all, E
<1>2. dialed \in Seq(E) /\ DialedFrom(dialed, all)
  BY <1>1, DialedInOrder
<1> HIDE DEF dialed
<1>3. kept \in Seq(E) /\ KeptFrom(kept, dialed)
  BY <1>2, KeptApart
<1> HIDE DEF kept
<1>4. out \in Seq(E) /\ NamedFrom(out, kept)
  <2>1. kept \in Seq(EndpointsOf(B, H, P))
    BY <1>3, Zenon DEF E
  <2> QED BY <2>1, NamesApart, Zenon DEF E
<1> HIDE DEF out
<1>5. DOMAIN out = 1 .. Len(kept) /\ DOMAIN kept = 1 .. Len(kept) /\ DOMAIN all = 1 .. Len(all)
  <2>1. Len(out) = Len(kept)
    BY <1>4 DEF NamedFrom
  <2> QED BY <1>1, <1>3, <1>4, <2>1
<1>6. \A i, j \in DOMAIN out : i # j => /\ Lower(out[i].name) # Lower(out[j].name)
                                        /\ Identity(out[i]) \cap Identity(out[j]) = {}
  <2>1. \A i \in 1 .. Len(kept) : Identity(out[i]) = Identity(kept[i])
    BY <1>4, IdentitySame DEF NamedFrom
  <2> QED BY <1>3, <1>4, <1>5, <2>1 DEF KeptFrom, NamedFrom
<1>7. ASSUME NEW i \in DOMAIN all, Dialable(all[i])
      PROVE  \E j \in DOMAIN kept : /\ Identity(kept[j]) \cap Identity(all[i]) # {}
                                    /\ \E k \in 1 .. i : kept[j] = all[k]
  <2>1. PICK m \in 1 .. Len(dialed) : /\ dialed[m] = all[i]
                                      /\ \A l \in 1 .. m : \E k \in 1 .. i : dialed[l] = all[k]
    BY <1>2, <1>5, <1>7 DEF DialedFrom
  <2>2. PICK j \in 1 .. Len(kept) : /\ Identity(kept[j]) \cap Identity(dialed[m]) # {}
                                    /\ \E k \in 1 .. m : kept[j] = dialed[k]
    BY <1>3 DEF KeptFrom
  <2> QED BY <1>5, <2>1, <2>2
<1>8. ASSUME NEW i \in DOMAIN out
      PROVE  /\ Dialable(out[i]) /\ out[i].host = kept[i].host /\ out[i].port = kept[i].port
             /\ kept[i].name.base # "" =>
                    \/ out[i].name = kept[i].name
                    \/ \E j \in 1 .. i - 1 : Lower(out[j].name) = Lower(kept[i].name)
  <2>1. i \in 1 .. Len(kept)
    BY <1>5
  <2>2. Dialable(kept[i])
    BY <1>2, <1>3, <2>1 DEF DialedFrom, KeptFrom
  <2> QED BY <1>4, <2>1, <2>2, IdentitySame DEF NamedFrom
<1>9. OfferedFrom(out, kept, all)
  BY <1>5, <1>6, <1>7, <1>8, Zenon DEF OfferedFrom
<1> QED BY <1>9, Zenon DEF MergeSound, MergeEndpoints, out, kept, dialed, all

(***************************************************************************)
(* The functions on the inputs of the runs.                                *)
(***************************************************************************)

\* The endpoints and mappings of the runs, among those of any size.
Offered == EndpointsOf({"", "n", "proxy"}, DOMAIN MCAddresses, Nat)
Mapped == Mapping({0, 1, 2}, {0, 2, 3})

\* The input of a function, as the initial state drew it.
InputKnown ==
    /\ part = "offers" => input \in Offers
    /\ part = "forms" => input \in Forms
    /\ part = "merge" => input.local \in Seq(Offered) /\ input.external \in Seq(Offered)
    /\ part = "mappings" => input \in Seq(Mapped)
    /\ part = "versions" => input \in Texts \X Texts \X Texts

LEMMA NamesKnown == MCNames \subseteq NamesOf({"", "n", "proxy"})
<1>1. <<>> \in Seq(Nat) /\ <<2>> \in Seq(Nat)
  OBVIOUS
<1> QED BY <1>1 DEF MCNames, Plain, Word, NamesOf

LEMMA EndpointsKnown == MCEndpoints \subseteq Offered
<1>1. ASSUME NEW ep \in MCEndpoints PROVE ep \in Offered
  <2>1. ep \in [name : MCNames, host : DOMAIN MCAddresses, port : 0 .. 2]
    BY DEF MCEndpoints
  <2>2. ep.name \in [base : {"", "n", "proxy"}, upper : BOOLEAN, tail : Seq(Nat)]
    <3>1. ep.name \in MCNames
      BY <2>1, Zenon
    <3> QED BY <3>1, NamesKnown, Zenon DEF NamesOf
  <2>4. ep.host \in DOMAIN MCAddresses /\ ep.port \in Nat
    BY <2>1
  <2>3. ep = [name |-> ep.name, host |-> ep.host, port |-> ep.port]
    BY <2>1
  <2> QED BY <2>2, <2>3, <2>4 DEF Offered, EndpointsOf
<1> QED BY <1>1

LEMMA ShortSequence ==
    ASSUME NEW S, NEW n \in Nat, NEW s \in [1 .. n -> S]
    PROVE  s \in Seq(S) /\ Len(s) = n
OBVIOUS

LEMMA MergesKnown ==
    ASSUME NEW eps \in [1 .. 3 -> MCEndpoints]
    PROVE  SubSeq(eps, 1, 1) \in Seq(Offered) /\ SubSeq(eps, 2, 3) \in Seq(Offered)
<1>1. eps \in [1 .. 3 -> Offered]
  BY EndpointsKnown
<1> HIDE DEF Offered
<1>2. \A i \in 1 .. 3 : eps[i] \in Offered
  BY <1>1
<1> QED BY <1>2, SubSeqProperties

LEMMA ManyNamesKnown ==
    ASSUME NEW names \in [1 .. 5 -> MCNames]
    PROVE  [i \in 1 .. 5 |-> [name |-> names[i], host |-> "h1", port |-> i]] \in Seq(Offered)
<1> DEFINE eps == [i \in 1 .. 5 |-> [name |-> names[i], host |-> "h1", port |-> i]]
<1>1. "h1" \in DOMAIN MCAddresses
  BY DEF MCAddresses
<1>2. ASSUME NEW i \in 1 .. 5 PROVE [name |-> names[i], host |-> "h1", port |-> i] \in Offered
  <2>1. names[i] \in [base : {"", "n", "proxy"}, upper : BOOLEAN, tail : Seq(Nat)]
    <3>1. names[i] \in MCNames
      OBVIOUS
    <3> QED BY <3>1, NamesKnown, Zenon DEF NamesOf
  <2>2. i \in Nat
    OBVIOUS
  <2> DEFINE M == [base : {"", "n", "proxy"}, upper : BOOLEAN, tail : Seq(Nat)]
             H == DOMAIN MCAddresses
  <2>3. Offered = [name : M, host : H, port : Nat]
    BY Zenon DEF Offered, EndpointsOf
  <2>4. names[i] \in M /\ "h1" \in H
    BY <1>1, <2>1
  <2> HIDE DEF M, H
  <2> QED BY <2>2, <2>3, <2>4
<1> HIDE DEF Offered
<1>3. eps \in [1 .. 5 -> Offered]
  BY <1>2
<1> HIDE DEF eps
<1>4. eps \in Seq(Offered)
  BY <1>3, ShortSequence
<1> QED BY <1>4, Zenon DEF eps

LEMMA MappingsKnown == Mappings \subseteq Seq(Mapped)
<1> DEFINE M == [listen : {0, 1, 2}, public : {0, 2, 3}]
<1>1. M = Mapped
  BY DEF Mapped, Mapping
<1>2. ASSUME NEW rows \in Mappings PROVE rows \in Seq(M)
  <2> HIDE DEF M
  <2>1. CASE rows = <<>>
    BY <2>1
  <2>2. CASE rows # <<>>
    <3>1. PICK n \in 1 .. 4 : rows \in [1 .. n -> M]
      BY <1>2, <2>2 DEF Mappings, M
    <3> QED BY <3>1, ShortSequence
  <2> QED BY <2>1, <2>2
<1> QED BY <1>1, <1>2

LEMMA InputStart == Init => InputKnown
<1> SUFFICES ASSUME Init PROVE InputKnown
  OBVIOUS
<1>1. part = "merge" => input.local \in Seq(Offered) /\ input.external \in Seq(Offered)
  <2> SUFFICES ASSUME part = "merge" PROVE input.local \in Seq(Offered) /\ input.external \in Seq(Offered)
    OBVIOUS
  <2>1. CASE \E eps \in [1 .. 3 -> MCEndpoints] :
                 input = [local |-> SubSeq(eps, 1, 1), external |-> SubSeq(eps, 2, 3)]
    BY <2>1, MergesKnown
  <2>2. CASE \E names \in [1 .. 5 -> MCNames] :
                 input = [local |-> [i \in 1 .. 5 |-> [name |-> names[i], host |-> "h1", port |-> i]],
                          external |-> <<>>]
    <3>1. PICK names \in [1 .. 5 -> MCNames] :
                   input = [local |-> [i \in 1 .. 5 |-> [name |-> names[i], host |-> "h1", port |-> i]],
                            external |-> <<>>]
      BY <2>2
    <3>2. input.local = [i \in 1 .. 5 |-> [name |-> names[i], host |-> "h1", port |-> i]] /\ input.external = <<>>
      BY <3>1
    <3>3. <<>> \in Seq(Offered)
      OBVIOUS
    <3> QED BY <3>2, <3>3, ManyNamesKnown, Zenon
  <2> QED BY <2>1, <2>2 DEF Init
<1>2. part = "mappings" => input \in Seq(Mapped)
  BY MappingsKnown DEF Init
<1> QED BY <1>1, <1>2 DEF Init, InputKnown

LEMMA InputStep == InputKnown /\ [Next]_vars => InputKnown'
BY DEF InputKnown, Next, vars

LEMMA OffersSurvive ==
    ASSUME NEW ep \in Offers
    PROVE  SurvivesSource(ep)
<1>1. /\ ep.protocol \in AllProtocols
      /\ ep = [protocol |-> ep.protocol, params |-> ep.params, skip |-> ep.skip]
  BY DEF Offers, AllProtocols
<1> DEFINE S == PasswordForms \cup {"psk ", "aead", "uuid", "none", "tls", "reality", "other", "sid", "name"}
                \cup {0, 1, 2}
<1>3. ep.params \in OfferParams(S)
  <2>1. {"", "aead"} \subseteq S /\ PasswordForms \cup {"psk "} \subseteq S /\ {"", "uuid"} \subseteq S
    BY DEF PasswordForms
  <2>2. {"", "none", "tls", "reality", "other"} \subseteq S /\ {"", "sid"} \subseteq S /\ {"", "name"} \subseteq S
    BY DEF PasswordForms
  <2>3. {0, 1} \subseteq S /\ {0, 2} \subseteq S
    OBVIOUS
  <2> HIDE DEF S
  <2> QED BY <2>1, <2>2, <2>3 DEF Offers, OfferParams
<1> HIDE DEF S
<1>2. SurvivesSource([protocol |-> ep.protocol, params |-> ep.params, skip |-> ep.skip])
  BY <1>1, <1>3, EndpointsSurvive
<1> QED BY <1>1, <1>2

LEMMA FormsMeet ==
    ASSUME NEW form \in Forms, NEW psk \in Psks, ~FillRefuses(form.protocol, form.params)
    PROVE  Meets(form.protocol, Fill(form.protocol, form.params, 3, psk))
<1> DEFINE p == form.params
<1>1. /\ form.protocol \in AllProtocols
      /\ p \in [port : {1}, method : {"", "2022"}, password : PasswordForms, uuid : {"", "uuid"},
                tls_mode : Values.tls_mode, tls : Values.tls, private_key : {0, 1}, public_key : {0, 1, 2},
                short_id : {""}, server_name : {"", "name"}, congestion : {"", "cubic"}]
  BY DEF Forms, AllProtocols
<1>2. Values.tls \subseteq SUBSET (PemPair \cup PathPair)
  <2>1. Values.tls = {{}, {"cert_pem"}, PathPair, PemPair}
    BY ValuesKnown
  <2>2. "cert_pem" \in PemPair
    BY DEF PemPair
  <2> QED BY <2>1, <2>2
<1>3. p \in Params
  <2>1. {1} \subseteq Values.port /\ Values.tls_mode = {"", "none", "tls", "reality", "other"}
    BY ValuesKnown
  <2>2. {0, 1} \subseteq Nat /\ {0, 1, 2} \subseteq Nat
    OBVIOUS
  <2>3. /\ {"", "2022"} \subseteq Values.method /\ PasswordForms \subseteq Values.password
        /\ {"", "uuid"} \subseteq Values.uuid /\ {""} \subseteq Values.short_id
        /\ {"", "name"} \subseteq Values.server_name /\ {"", "cubic"} \subseteq Values.congestion
    BY ValuesKnown
  <2>4. /\ p = [port |-> p.port, method |-> p.method, password |-> p.password, uuid |-> p.uuid,
               tls_mode |-> p.tls_mode, tls |-> p.tls, private_key |-> p.private_key,
               public_key |-> p.public_key, short_id |-> p.short_id, server_name |-> p.server_name,
               congestion |-> p.congestion]
        /\ p.port \in {1} /\ p.method \in {"", "2022"} /\ p.password \in PasswordForms /\ p.uuid \in {"", "uuid"}
        /\ p.tls_mode \in Values.tls_mode /\ p.tls \in Values.tls /\ p.private_key \in {0, 1}
        /\ p.public_key \in {0, 1, 2} /\ p.short_id \in {""} /\ p.server_name \in {"", "name"}
        /\ p.congestion \in {"", "cubic"}
    BY <1>1
  <2> HIDE DEF p
  <2>5. /\ p.port \in Values.port /\ p.method \in Values.method /\ p.password \in Values.password
        /\ p.uuid \in Values.uuid /\ p.tls_mode \in Values.tls_mode /\ p.tls \in SUBSET (PemPair \cup PathPair)
        /\ p.private_key \in Nat /\ p.public_key \in Nat /\ p.short_id \in Values.short_id
        /\ p.server_name \in Values.server_name \cup {"microsoft"} /\ p.congestion \in Values.congestion
    BY <1>2, <2>1, <2>2, <2>3, <2>4
  <2> QED BY <2>4, <2>5, ValuesKnown DEF Params
<1>4. 3 \in Nat \ {0}
  OBVIOUS
<1> QED BY <1>1, <1>3, <1>4, FilledMeets

LEMMA TextsAreVersions ==
    ASSUME NEW a \in Texts
    PROVE  IsVersion(a)
<1>1. <<1, 0, 0>> \in [1 .. 3 -> Int] /\ <<1, 1, 0>> \in [1 .. 3 -> Int] /\ <<0, 0, 0>> \in [1 .. 3 -> Int]
  OBVIOUS
<1>2. <<>> \in Seq(VersionPart)
  BY EmptySeq
<1>3. Parts \subseteq VersionPart
  BY DEF Parts, VersionPart
<1>4. \A n \in 1 .. 2 : [1 .. n -> Parts] \subseteq Seq(VersionPart)
  BY <1>3, SeqDef
<1>5. ASSUME NEW kind, NEW core \in [1 .. 3 -> Int], NEW pre \in Seq(VersionPart), NEW loose,
             a = Text(kind, core, pre, loose)
      PROVE  IsVersion(a)
  BY <1>5 DEF IsVersion, Text
<1>6. CASE \E pre \in {<<>>} \cup UNION {[1 .. n -> Parts] : n \in 1 .. 2} :
               a = Text("version", <<1, 0, 0>>, pre, "")
  <2>1. PICK pre \in {<<>>} \cup UNION {[1 .. n -> Parts] : n \in 1 .. 2} :
            a = Text("version", <<1, 0, 0>>, pre, "")
    BY <1>6
  <2>2. pre \in Seq(VersionPart)
    BY <1>2, <1>4, <2>1
  <2> QED BY <1>1, <1>5, <2>1, <2>2
<1>7. CASE a = Text("version", <<1, 1, 0>>, <<>>, "")
  BY <1>1, <1>2, <1>5, <1>7
<1>8. CASE \E kind \in {"empty", "bare", "other"}, loose \in {"x", "y"} :
               a = Text(kind, <<0, 0, 0>>, <<>>, loose)
  BY <1>1, <1>2, <1>5, <1>8
<1> DEFINE fst == {Text("version", <<1, 0, 0>>, pre, "") :
                      pre \in {<<>>} \cup UNION {[1 .. n -> Parts] : n \in 1 .. 2}}
           snd == {Text("version", <<1, 1, 0>>, <<>>, "")}
           emp == {Text("empty", <<0, 0, 0>>, <<>>, loose) : loose \in {"x", "y"}}
           bar == {Text("bare", <<0, 0, 0>>, <<>>, loose) : loose \in {"x", "y"}}
           oth == {Text("other", <<0, 0, 0>>, <<>>, loose) : loose \in {"x", "y"}}
<1>9. a \in fst \cup snd \cup emp \cup bar \cup oth
  BY Zenon DEF Texts
<1>10. a \in fst => IsVersion(a)
  BY <1>6, Zenon
<1>11. a \in snd => IsVersion(a)
  BY <1>7, Zenon
<1>12. a \in emp \cup bar \cup oth => IsVersion(a)
  BY <1>8, Zenon
<1> HIDE DEF fst, snd, emp, bar, oth
<1> QED BY <1>9, <1>10, <1>11, <1>12

\* The ports of a mapping can be dialled. The definition is expanded in this lemma alone.
LEMMA SmallPorts == 1 .. 3 \subseteq DialPorts
BY DEF DialPorts

\* What Fill, rendering, parsing, the order of versions, merging and normalising promise holds on
\* every input, and the rows of inbounds keep it: see EndpointsSurvive, FilledMeets,
\* UpgradesAlwaysEnd, MergeAlwaysSound and LastMappingCounts, which say it for inputs of any size.
THEOREM FunctionsAlwaysAgree == ServicesSpec => []FunctionsAgree
<1>1. ASSUME ServicesInv, InputKnown PROVE FunctionsAgree
  <2>1. CASE part = "offers"
    BY <1>1, <2>1, OffersSurvive DEF InputKnown, FunctionsAgree
  <2>2. CASE part = "forms"
    BY <1>1, <2>2, FormsMeet DEF InputKnown, FunctionsAgree
  <2>3. CASE part = "versions"
    <3>1. UpgradesEnd(input[1], input[2], input[3])
      BY <1>1, <2>3, TextsAreVersions, UpgradesAlwaysEnd DEF InputKnown
    <3> QED BY <2>3, <3>1 DEF FunctionsAgree
  <2>4. CASE part = "merge"
    <3>1. /\ input.local \in Seq(EndpointsOf({"", "n", "proxy"}, DOMAIN MCAddresses, Nat))
          /\ input.external \in Seq(EndpointsOf({"", "n", "proxy"}, DOMAIN MCAddresses, Nat))
      BY <1>1, <2>4, Zenon DEF InputKnown, Offered
    <3>2. "proxy" \in {"", "n", "proxy"}
      OBVIOUS
    <3> DEFINE B == {"", "n", "proxy"}
               H == DOMAIN MCAddresses
               local == input.local
               external == input.external
    <3>3. MergeSound(local, external)
      <4>1. "proxy" \in B /\ local \in Seq(EndpointsOf(B, H, Nat)) /\ external \in Seq(EndpointsOf(B, H, Nat))
        BY <3>1, <3>2
      <4> HIDE DEF B, H, local, external
      <4> QED BY <4>1, MergeAlwaysSound
    <3> QED BY <2>4, <3>3 DEF FunctionsAgree
  <2>5. CASE part = "mappings"
    <3>1. \A listen \in 1 .. 3 : MappingsSound(input, listen)
      BY <1>1, <2>5, SmallPorts, LastMappingCounts DEF InputKnown, Mapped
    <3> QED BY <2>5, <3>1 DEF FunctionsAgree
  <2>6. CASE part \notin {"offers", "forms", "versions", "merge", "mappings"}
    <3>1. ListenerMeetsClients /\ ChainKeepsRow
      BY <1>1, InboundSafe DEF ServicesInv
    <3> QED BY <2>6, <3>1 DEF FunctionsAgree
  <2> QED BY <2>1, <2>2, <2>3, <2>4, <2>5, <2>6
<1>2. ServicesSpec => []InputKnown
  BY InputStart, InputStep, PTL DEF ServicesSpec
<1> QED BY <1>1, <1>2, ServicesAlways, PTL
================================================================================
