-------------------------- MODULE ConfigSync_proofs --------------------------
(***************************************************************************)
(* Proofs about configuration delivery, for any configurations and any       *)
(* number of edits and renewals.                                            *)
(***************************************************************************)
EXTENDS ConfigSync, TLAPS

(***************************************************************************)
(* What the runtimes do with a configuration.                              *)
(***************************************************************************)

\* Whatever happens in BoxRuntime.Apply, the box holds the new configuration after
\* a success and the old one after a failure; only the instance may be gone.
LEMMA BoxApplyKeeps ==
    ASSUME NEW c \in Config \cup {None}, NEW r \in BoxApply(c), box \in Box
    PROVE  /\ r.box \in Box
           /\ r.ok \in BOOLEAN
           /\ r.box.cfg = IF r.ok THEN c ELSE box.cfg
<1>1. CASE box = [cfg |-> c, on |-> TRUE]
  <2>1. r = [box |-> box, ok |-> TRUE]
    BY <1>1 DEF BoxApply
  <2> QED BY <1>1, <2>1
<1>2. CASE box # [cfg |-> c, on |-> TRUE]
  <2>1. \/ r = [box |-> [cfg |-> c, on |-> TRUE], ok |-> TRUE]
        \/ r = [box |-> box, ok |-> FALSE]
        \/ r = [box |-> [box EXCEPT !.on = (box.cfg \notin {None, c})], ok |-> FALSE]
        \/ r = [box |-> [box EXCEPT !.on = FALSE], ok |-> FALSE]
    BY <1>2 DEF BoxApply
  <2>2. /\ box.cfg \in Config \cup {None}
        /\ \A on \in BOOLEAN : /\ [box EXCEPT !.on = on] \in Box
                              /\ [box EXCEPT !.on = on].cfg = box.cfg
    BY DEF Box
  <2>3. CASE r = [box |-> [cfg |-> c, on |-> TRUE], ok |-> TRUE]
    BY <2>3 DEF Box
  <2>4. CASE r = [box |-> box, ok |-> FALSE]
    BY <2>4
  <2>5. CASE \E on \in BOOLEAN : r = [box |-> [box EXCEPT !.on = on], ok |-> FALSE]
    <3> PICK on \in BOOLEAN : r = [box |-> [box EXCEPT !.on = on], ok |-> FALSE]
      BY <2>5
    <3>1. r.box = [box EXCEPT !.on = on] /\ r.ok = FALSE
      OBVIOUS
    <3> QED BY <2>2, <3>1
  <2> QED BY <2>1, <2>3, <2>4, <2>5
<1> QED BY <1>1, <1>2

\* Re-applying the configuration that is there cannot change it.
LEMMA BoxReapplyKeeps ==
    ASSUME box \in Box, NEW r \in BoxApply(box.cfg)
    PROVE  r.box \in Box /\ r.box.cfg = box.cfg
<1>1. box.cfg \in Config \cup {None}
  BY DEF Box
<1> QED BY <1>1, BoxApplyKeeps

\* frpsruntime.Apply holds the new settings after a success.
LEMMA FRPSApplyKeeps ==
    ASSUME NEW f \in FRPS, NEW r \in FRPSApply(f),
           frpsRt \in FRPS \cup {None}, frpsDisk \in FRPS \cup {None}
    PROVE  /\ r.rt \in FRPS \cup {None}
           /\ r.disk \in FRPS \cup {None}
           /\ r.ok \in BOOLEAN
           /\ r.ok => r.rt = f
<1>1. \E rt \in {f, frpsRt}, disk \in {f, frpsDisk}, ok \in BOOLEAN :
        r = [rt |-> rt, disk |-> disk, ok |-> ok] /\ (ok => rt = f)
  <2>1. CASE calm \/ f \notin Enabled
    BY <2>1 DEF FRPSApply
  <2>2. CASE ~calm /\ f \in Enabled
    BY <2>2 DEF FRPSApply
  <2> QED BY <2>1, <2>2
<1> QED BY <1>1

(***************************************************************************)
(* Type correctness.  The generations on the Panel stay in range because a   *)
(* renewal under way has one generation left to install.                   *)
(***************************************************************************)

RoomForCandidate ==
    deployer # "idle" \/ certSt \in {"renewing", "deploying"} => gen <= MaxRenewals

\* Only the push that deployCandidate waits for is awaited, and there is one.
OneAwaited ==
    \A m \in wire : m.awaited =>
        deployer = "waiting" /\ \A n \in wire : n.awaited => n = m

Types == TypeOK /\ RoomForCandidate /\ OneAwaited

LEMMA OneAwaitedStep == TypeOK /\ OneAwaited /\ [Next]_vars => OneAwaited'
<1> SUFFICES ASSUME TypeOK, OneAwaited, [Next]_vars PROVE OneAwaited'
  OBVIOUS
<1>1. CASE wire' \subseteq wire /\ deployer' = deployer
  BY <1>1 DEF OneAwaited
<1>2. CASE \E f \in FRPS : SendFRPS(f)
  <2> PICK f \in FRPS : SendFRPS(f)
    BY <1>2
  <2>1. wire' \subseteq wire \cup {[to |-> "frps", val |-> f, awaited |-> FALSE]}
    BY DEF SendFRPS
  <2>2. deployer' = deployer
    BY DEF SendFRPS, certVars
  <2>3. \A m \in wire' : m.awaited => m \in wire
    BY <2>1
  <2> QED BY <2>2, <2>3 DEF OneAwaited
<1>3. CASE RenewStarts \/ CertificateInstalled \/ DeploySettles
  BY <1>3 DEF OneAwaited, RenewStarts, CertificateInstalled, DeploySettles, linkVars
<1>4. CASE DeployPushes
  <2> DEFINE p == [to |-> "box", val |-> [base |-> base, gen |-> gen + 1], awaited |-> TRUE]
  <2>1. \/ wire' = wire
        \/ wire' = wire \cup {p} /\ deployer' = "waiting"
    <3>1. CASE base \in Managed /\ live
      BY <1>4, <3>1 DEF DeployPushes
    <3>2. CASE base \notin Managed \/ ~live
      BY <1>4, <3>2 DEF DeployPushes
    <3> QED BY <3>1, <3>2
  <2>2. \A m \in wire : ~m.awaited
    BY <1>4 DEF OneAwaited, DeployPushes
  <2> HIDE DEF p
  <2>3. \A m \in wire' : m.awaited => m = p /\ deployer' = "waiting"
    BY <2>1, <2>2
  <2> QED BY <2>3 DEF OneAwaited
<1>5. CASE DeployTimesOut
  <2>1. wire' = {[m EXCEPT !.awaited = FALSE] : m \in wire}
    BY <1>5 DEF DeployTimesOut
  <2>2. \A m \in Push : [m EXCEPT !.awaited = FALSE].awaited = FALSE
    BY DEF Push
  <2>3. \A m \in wire' : ~m.awaited
    BY <2>1, <2>2 DEF TypeOK
  <2> QED BY <2>3 DEF OneAwaited
<1>6. CASE \E m \in wire : PushedConfig(m)
  <2> PICK m \in wire : PushedConfig(m)
    BY <1>6
  <2>1. wire' = wire \ {m} /\ (~m.awaited => deployer' = deployer)
    BY DEF PushedConfig
  <2> QED BY <2>1 DEF OneAwaited
<1>7. CASE \E b \in Bases : EditBase(b)
  BY <1>1, <1>7 DEF EditBase, certVars, linkVars
<1>8. CASE EditDesired \/ RenewalFails
  BY <1>1, <1>8 DEF EditDesired, RenewalFails, certVars, linkVars
<1>9. CASE \E f \in FRPS : PutFRPS(f)
  BY <1>1, <1>9 DEF PutFRPS, certVars, linkVars
<1>10. CASE \E m \in wire : PushedFRPS(m)
  BY <1>1, <1>10 DEF PushedFRPS, certVars
<1>11. CASE LinkDown \/ LinkUp \/ AgentRestart \/ CalmDown
  BY <1>1, <1>11 DEF LinkDown, LinkUp, AgentRestart, CalmDown, certVars
<1>12. CASE SyncStep
  BY <1>1, <1>12 DEF SyncStep, SyncStarts, SyncHead, SyncHeadLost, SyncPost, SyncPostLost,
                     SyncConfig, SyncNotes, SyncFRPS, SyncAligns, RestOver, certVars, linkVars
<1>13. CASE UNCHANGED vars
  BY <1>1, <1>13 DEF vars, certVars, linkVars
<1> QED BY <1>2, <1>3, <1>4, <1>5, <1>6, <1>7, <1>8, <1>9, <1>10, <1>11, <1>12, <1>13 DEF Next

\* What the Panel builds is a configuration.
LEMMA BuildType == Types => Build \in Config
<1> SUFFICES ASSUME Types PROVE Build \in Config
  OBVIOUS
<1> DEFINE g == IF base \notin Managed THEN 0
                ELSE IF certSt = "deploying" THEN gen + 1 ELSE gen
<1>1. g \in 0 .. MaxRenewals + 1
  BY SyncAssumption DEF Types, TypeOK, RoomForCandidate
<1>2. base \in Bases
  BY DEF Types, TypeOK
<1> HIDE DEF g
<1>3. [base |-> base, gen |-> g] \in Config
  BY <1>1, <1>2 DEF Config
<1> QED BY <1>3 DEF Build, g

\* The empty response.
LEMMA NoRespType == NoResp \in Resp
BY DEF NoResp, Resp, Runs

LEMMA TypesStep == Types /\ [Next]_vars => Types'
<1> SUFFICES ASSUME Types, [Next]_vars PROVE TypeOK' /\ RoomForCandidate'
  BY OneAwaitedStep DEF Types
<1> USE SyncAssumption DEF Types
<1>a. Build \in Config
  BY BuildType
<1>1. CASE \E b \in Bases : EditBase(b)
  BY <1>1 DEF TypeOK, RoomForCandidate, EditBase, certVars, linkVars, syncVars, runtimeVars
<1>2. CASE EditDesired
  BY <1>2 DEF TypeOK, RoomForCandidate, EditDesired, certVars, linkVars, syncVars, runtimeVars
<1>3. CASE \E f \in FRPS : PutFRPS(f)
  BY <1>3 DEF TypeOK, RoomForCandidate, PutFRPS, certVars, linkVars, syncVars, runtimeVars
<1>4. CASE \E f \in FRPS : SendFRPS(f)
  <2> PICK f \in FRPS : SendFRPS(f)
    BY <1>4
  <2>1. [to |-> "frps", val |-> f, awaited |-> FALSE] \in Push
    BY DEF Push
  <2>2. wire' \in SUBSET Push
    BY <2>1 DEF TypeOK, SendFRPS
  <2> QED BY <2>2 DEF TypeOK, RoomForCandidate, SendFRPS, certVars, syncVars, runtimeVars
<1>5. CASE RenewStarts
  BY <1>5 DEF TypeOK, RoomForCandidate, RenewStarts, panelVars, linkVars, syncVars, runtimeVars
<1>6. CASE CertificateInstalled
  BY <1>6 DEF TypeOK, RoomForCandidate, CertificateInstalled, panelVars, linkVars, syncVars,
              runtimeVars
<1>7. CASE RenewalFails
  BY <1>7 DEF TypeOK, RoomForCandidate, RenewalFails, panelVars, linkVars, syncVars, runtimeVars
<1>8. CASE DeployPushes
  <2>1. gen \in Nat /\ gen <= MaxRenewals /\ base \in Bases
    BY <1>8 DEF TypeOK, RoomForCandidate, DeployPushes
  <2>2. gen + 1 \in 0 .. MaxRenewals + 1
    BY <2>1
  <2>3. [base |-> base, gen |-> gen + 1] \in Config
    BY <2>1, <2>2 DEF Config
  <2>4. [to |-> "box", val |-> [base |-> base, gen |-> gen + 1], awaited |-> TRUE] \in Push
    BY <2>3 DEF Push
  <2>5. wire' \in SUBSET Push
    BY <1>8, <2>4 DEF TypeOK, DeployPushes
  <2> QED BY <1>8, <2>5 DEF TypeOK, RoomForCandidate, DeployPushes, panelVars, syncVars,
                            runtimeVars
<1>9. CASE DeployTimesOut
  <2>1. \A m \in Push : [m EXCEPT !.awaited = FALSE] \in Push
    BY DEF Push
  <2>2. wire' \in SUBSET Push
    BY <1>9, <2>1 DEF TypeOK, DeployTimesOut
  <2> QED BY <1>9, <2>2 DEF TypeOK, RoomForCandidate, DeployTimesOut, panelVars, syncVars,
                            runtimeVars
<1>10. CASE DeploySettles
  <2>1. /\ deployer' = "idle"
        /\ \/ certSt' = "active" /\ gen' = gen + 1 /\ staged' = FALSE
           \/ certSt' = "retry_wait" /\ gen' = gen /\ staged' = staged
    BY <1>10 DEF DeploySettles
  <2>2. gen <= MaxRenewals /\ gen' \in 1 .. MaxRenewals + 1
    BY <1>10, <2>1 DEF TypeOK, RoomForCandidate, DeploySettles
  <2>3. staged' \in BOOLEAN
    BY <2>1 DEF TypeOK
  <2>4. UNCHANGED <<panelVars, linkVars, syncVars, runtimeVars>>
    BY <1>10 DEF DeploySettles
  <2> QED BY <2>1, <2>2, <2>3, <2>4 DEF TypeOK, RoomForCandidate, panelVars, linkVars, syncVars,
                                        runtimeVars
<1>11. CASE \E m \in wire : PushedConfig(m)
  <2> PICK m \in wire : PushedConfig(m)
    BY <1>11
  <2>1. m.val \in Config /\ wire' \in SUBSET Push
    BY DEF TypeOK, PushedConfig, Push
  <2>2. PICK r \in BoxApply(m.val) :
          /\ box' = r.box
          /\ drifted' = IF r.ok THEN drifted \cup {"box"} ELSE drifted
          /\ deployer' = IF ~m.awaited THEN deployer
                         ELSE IF r.ok THEN "applied" ELSE "failed"
    BY DEF PushedConfig
  <2>3. box' \in Box
    BY <2>1, <2>2, BoxApplyKeeps DEF TypeOK
  <2>4. deployer' \in {"idle", "locked", "waiting", "applied", "failed"}
        /\ (deployer' # "idle" => deployer # "idle")
    BY <2>2 DEF TypeOK, OneAwaited
  <2>5. drifted' \in SUBSET {"box", "frps"}
    BY <2>2 DEF TypeOK
  <2>6. UNCHANGED <<panelVars, certSt, gen, staged, live, calm, syncVars, frpsRt, frpsDisk>>
    BY DEF PushedConfig
  <2> QED BY <2>1, <2>3, <2>4, <2>5, <2>6 DEF TypeOK, RoomForCandidate, panelVars, syncVars
<1>12. CASE \E m \in wire : PushedFRPS(m)
  <2> PICK m \in wire : PushedFRPS(m)
    BY <1>12
  <2>1. m.val \in FRPS /\ wire' \in SUBSET Push
    BY DEF TypeOK, PushedFRPS, Push
  <2>2. frpsRt' \in FRPS \cup {None} /\ frpsDisk' \in FRPS \cup {None}
    BY <2>1, FRPSApplyKeeps DEF TypeOK, PushedFRPS
  <2> QED BY <2>1, <2>2 DEF TypeOK, RoomForCandidate, PushedFRPS, panelVars, certVars, syncVars
<1>13. CASE LinkDown \/ LinkUp
  <2>1. live' \in BOOLEAN /\ wire' \subseteq wire
    BY <1>13 DEF LinkDown, LinkUp
  <2>2. UNCHANGED <<panelVars, certVars, calm, syncVars, runtimeVars>>
    BY <1>13 DEF LinkDown, LinkUp
  <2> QED BY <2>1, <2>2 DEF TypeOK, RoomForCandidate, panelVars, certVars, syncVars, runtimeVars
<1>14. CASE AgentRestart
  BY <1>14 DEF TypeOK, RoomForCandidate, AgentRestart, panelVars, certVars, Box, Resp, NoResp,
               Runs
<1>15. CASE CalmDown
  BY <1>15 DEF TypeOK, RoomForCandidate, CalmDown, panelVars, certVars, syncVars, runtimeVars
<1>16. CASE SyncStep
  <2>1. CASE SyncStarts
    BY <2>1 DEF TypeOK, RoomForCandidate, SyncStarts, Asks, panelVars, certVars, linkVars,
                runtimeVars
  <2>2. CASE SyncHead \/ SyncHeadLost
    <3>1. desired \in Runs /\ seen \in Runs
      BY DEF TypeOK
    <3>2. [cfg |-> None, frps |-> None, run |-> seen] \in Resp
      BY <3>1 DEF Resp
    <3> QED BY <2>2, <3>1, <3>2 DEF TypeOK, RoomForCandidate, SyncHead, SyncHeadLost, Asks,
                                    panelVars, certVars, linkVars, runtimeVars
  <2>3. CASE SyncPost \/ SyncPostLost
    <3>1. [cfg |-> IF Build = configHash THEN None ELSE Build,
           frps |-> IF frps = frpsHash THEN None ELSE frps,
           run |-> seen] \in Resp
      BY <1>a DEF TypeOK, Resp
    <3>2. pc' \in {"idle", "config"} /\ resting' \in BOOLEAN
      BY <2>3 DEF TypeOK, SyncPost, SyncPostLost, SyncFails, SyncEnds
    <3>3. seen' \in Runs /\ resp' \in Resp
      BY <2>3, <3>1, NoRespType
      DEF TypeOK, SyncPost, SyncPostLost, SyncFails, SyncEnds, Runs
    <3>4. UNCHANGED <<panelVars, certVars, linkVars, configHash, frpsHash, runtimeVars>>
      BY <2>3 DEF SyncPost, SyncPostLost
    <3> QED BY <3>2, <3>3, <3>4 DEF TypeOK, RoomForCandidate, panelVars, certVars, linkVars,
                                    runtimeVars
  <2>4. CASE SyncConfig
    <3>1. resp.cfg # None => resp.cfg \in Config
      BY DEF TypeOK, Resp
    <3>2. box' \in Box
      BY <2>4, <3>1, BoxApplyKeeps DEF TypeOK, SyncConfig
    <3>3. pc' \in {"idle", "frps", "note"} /\ resting' \in BOOLEAN
      BY <2>4 DEF TypeOK, SyncConfig, SyncFails, SyncEnds
    <3>4. seen' \in Runs /\ resp' \in Resp /\ drifted' \in SUBSET {"box", "frps"}
      BY <2>4, NoRespType DEF TypeOK, SyncConfig, SyncFails, SyncEnds, Runs
    <3>5. UNCHANGED <<panelVars, certVars, linkVars, configHash, frpsHash, frpsRt, frpsDisk>>
      BY <2>4 DEF SyncConfig
    <3> QED BY <3>2, <3>3, <3>4, <3>5 DEF TypeOK, RoomForCandidate, panelVars, certVars, linkVars
  <2>5. CASE SyncNotes
    BY <2>5 DEF TypeOK, RoomForCandidate, SyncNotes, Resp, panelVars, certVars, linkVars,
                runtimeVars
  <2>6. CASE SyncFRPS
    <3>1. resp.frps # None => resp.frps \in FRPS
      BY DEF TypeOK, Resp
    <3>2. frpsRt' \in FRPS \cup {None} /\ frpsDisk' \in FRPS \cup {None}
      BY <2>6, <3>1, FRPSApplyKeeps DEF TypeOK, SyncFRPS
    <3>3. pc' \in {"idle", "align"} /\ resting' \in BOOLEAN
      BY <2>6 DEF TypeOK, SyncFRPS, SyncFails, SyncEnds
    <3>4. seen' \in Runs /\ resp' \in Resp /\ drifted' \in SUBSET {"box", "frps"}
      BY <2>6, NoRespType DEF TypeOK, SyncFRPS, SyncFails, SyncEnds, Runs
    <3>5. frpsHash' \in FRPS \cup {None}
      BY <2>6, <3>1 DEF TypeOK, SyncFRPS
    <3>6. UNCHANGED <<panelVars, certVars, linkVars, configHash, box>>
      BY <2>6 DEF SyncFRPS
    <3> QED BY <3>2, <3>3, <3>4, <3>5, <3>6 DEF TypeOK, RoomForCandidate, panelVars, certVars,
                                                linkVars
  <2>7. CASE SyncAligns
    <3>1. box' \in Box
      BY <2>7, BoxReapplyKeeps DEF TypeOK, SyncAligns, Box
    <3> QED BY <2>7, <3>1, NoRespType DEF TypeOK, RoomForCandidate, SyncAligns, SyncEnds, Runs,
                              panelVars, certVars, linkVars
  <2>8. CASE RestOver
    <3>1. resting' \in BOOLEAN
      BY <2>8 DEF RestOver
    <3>2. UNCHANGED <<panelVars, certVars, linkVars, pc, seen, resp, configHash, frpsHash,
                      runtimeVars>>
      BY <2>8 DEF RestOver
    <3> QED BY <3>1, <3>2 DEF TypeOK, RoomForCandidate, panelVars, certVars, linkVars,
                              runtimeVars
  <2> QED BY <1>16, <2>1, <2>2, <2>3, <2>4, <2>5, <2>6, <2>7, <2>8 DEF SyncStep
<1>17. CASE UNCHANGED vars
  BY <1>17 DEF TypeOK, RoomForCandidate, vars, panelVars, certVars, linkVars, syncVars,
               runtimeVars
<1> QED BY <1>1, <1>2, <1>3, <1>4, <1>5, <1>6, <1>7, <1>8, <1>9, <1>10, <1>11, <1>12, <1>13,
           <1>14, <1>15, <1>16, <1>17 DEF Next

LEMMA TypesInit == Init => Types
<1> SUFFICES ASSUME Init PROVE Types
  OBVIOUS
<1>1. gen = 1 /\ base \in Bases /\ certSt = "active"
  BY DEF Init
<1>2. gen \in 1 .. MaxRenewals + 1
  BY <1>1, SyncAssumption
<1>3. [base |-> base, gen |-> 0] \in Config /\ [base |-> base, gen |-> 1] \in Config
  BY <1>1, SyncAssumption DEF Config
<1>4. Build \in Config
  BY <1>1, <1>3 DEF Build
<1>5. box \in Box
  BY <1>4 DEF Init, Box
<1>6. wire = {} /\ drifted = {} /\ putting = {} /\ edits = 0
  BY DEF Init
<1>7. staged \in BOOLEAN /\ live \in BOOLEAN /\ resting \in BOOLEAN /\ calm \in BOOLEAN
  BY DEF Init
<1>8. RoomForCandidate /\ OneAwaited
  BY <1>1, <1>6 DEF Init, RoomForCandidate, OneAwaited
<1>9. /\ desired \in Runs /\ seen \in Runs /\ resp \in Resp /\ edits \in 0 .. MaxEdits
      /\ frps = None /\ frpsHash = None /\ frpsRt = None /\ frpsDisk = None
      /\ configHash = Build /\ deployer = "idle" /\ pc = "idle"
  BY <1>6, NoRespType, SyncAssumption DEF Init, Runs
<1> QED BY <1>1, <1>2, <1>4, <1>5, <1>6, <1>7, <1>8, <1>9 DEF Types, TypeOK

\* Configuration delivery keeps its types: generations, responses, pushes and
\* runtimes stay what the code can hold.
THEOREM TypeCorrect == Spec => []TypeOK
<1>1. Types => TypeOK
  BY DEF Types
<1> QED BY <1>1, TypesInit, TypesStep, PTL DEF Spec

(***************************************************************************)
(* What syncConfig remembers.  RememberedRuns is not inductive: between the  *)
(* apply and the note the hash about to be remembered must be the box's.     *)
(***************************************************************************)

ApplyUnderWay == pc = "note" /\ "box" \notin drifted => box.cfg = resp.cfg

Remembered == RememberedRuns /\ ApplyUnderWay

LEMMA RememberedStep == TypeOK /\ Remembered /\ [Next]_vars => Remembered'
<1> SUFFICES ASSUME TypeOK, Remembered, [Next]_vars PROVE Remembered'
  OBVIOUS
<1> USE DEF Remembered, RememberedRuns, ApplyUnderWay
<1>1. CASE UNCHANGED <<pc, resp, configHash, frpsHash, box, frpsRt, drifted>>
  BY <1>1
<1>2. CASE \E b \in Bases : EditBase(b)
  BY <1>1, <1>2 DEF EditBase, syncVars, runtimeVars
<1>3. CASE EditDesired \/ RenewStarts \/ CertificateInstalled \/ RenewalFails
  BY <1>1, <1>3 DEF EditDesired, RenewStarts, CertificateInstalled, RenewalFails, syncVars,
                    runtimeVars
<1>4. CASE \E f \in FRPS : PutFRPS(f) \/ SendFRPS(f)
  BY <1>1, <1>4 DEF PutFRPS, SendFRPS, syncVars, runtimeVars
<1>5. CASE DeployPushes \/ DeployTimesOut \/ DeploySettles
  BY <1>1, <1>5 DEF DeployPushes, DeployTimesOut, DeploySettles, syncVars, runtimeVars
<1>6. CASE \E m \in wire : PushedConfig(m)
  <2> PICK m \in wire : PushedConfig(m)
    BY <1>6
  <2>1. m.val \in Config /\ box \in Box
    BY DEF TypeOK, PushedConfig, Push
  <2>2. PICK r \in BoxApply(m.val) :
          /\ box' = r.box
          /\ drifted' = IF r.ok THEN drifted \cup {"box"} ELSE drifted
    BY DEF PushedConfig
  <2>3. "box" \notin drifted' => box'.cfg = box.cfg /\ drifted' = drifted
    BY <2>1, <2>2, BoxApplyKeeps
  <2>4. UNCHANGED <<pc, resp, configHash, frpsHash, frpsRt>> /\ drifted \subseteq drifted'
    BY <2>2 DEF PushedConfig, syncVars
  <2> QED BY <2>3, <2>4
<1>7. CASE \E m \in wire : PushedFRPS(m)
  <2>1. "frps" \in drifted' /\ drifted' \ {"frps"} = drifted \ {"frps"}
    BY <1>7 DEF PushedFRPS
  <2>2. UNCHANGED <<pc, resp, configHash, frpsHash, box>>
    BY <1>7 DEF PushedFRPS, syncVars
  <2> QED BY <2>1, <2>2
<1>8. CASE LinkDown \/ LinkUp \/ CalmDown
  BY <1>1, <1>8 DEF LinkDown, LinkUp, CalmDown, syncVars, runtimeVars
<1>9. CASE AgentRestart
  BY <1>9 DEF AgentRestart
<1>10. CASE SyncStarts \/ SyncHead \/ SyncHeadLost \/ SyncPost \/ SyncPostLost \/ RestOver
  <2>1. UNCHANGED <<configHash, frpsHash, box, frpsRt, drifted>>
    BY <1>10 DEF SyncStarts, SyncHead, SyncHeadLost, SyncPost, SyncPostLost, RestOver,
                 runtimeVars
  <2>2. \/ pc # "note" /\ pc' # "note"
        \/ UNCHANGED <<pc, resp>>
    BY <1>10 DEF SyncStarts, SyncHead, SyncHeadLost, SyncPost, SyncPostLost, RestOver, Asks,
                 SyncFails, SyncEnds
  <2> QED BY <2>1, <2>2
<1>11. CASE SyncConfig
  <2>1. UNCHANGED <<configHash, frpsHash, frpsRt>> /\ pc = "config"
    BY <1>11 DEF SyncConfig
  <2>2. CASE resp.cfg = None
    BY <1>11, <2>1, <2>2 DEF SyncConfig
  <2>3. CASE resp.cfg # None
    <3>1. resp.cfg \in Config /\ box \in Box
      BY <2>3 DEF TypeOK, Resp
    <3>2. PICK r \in BoxApply(resp.cfg) :
            /\ box' = r.box
            /\ drifted' = IF r.ok THEN drifted \ {"box"} ELSE drifted
            /\ IF r.ok THEN pc' = "note" /\ resp' = resp ELSE pc' = "idle"
      BY <1>11, <2>3 DEF SyncConfig, SyncFails, SyncEnds
    <3>3. box'.cfg = IF r.ok THEN resp.cfg ELSE box.cfg
      BY <3>1, <3>2, BoxApplyKeeps
    <3>4. r.ok \in BOOLEAN
      BY <3>1, BoxApplyKeeps
    <3>5. CASE r.ok
      BY <2>1, <3>2, <3>3, <3>5
    <3>6. CASE ~r.ok
      BY <2>1, <3>2, <3>3, <3>6
    <3> QED BY <3>5, <3>6
  <2> QED BY <2>2, <2>3
<1>12. CASE SyncNotes
  BY <1>12 DEF SyncNotes, runtimeVars
<1>13. CASE SyncFRPS
  <2>1. UNCHANGED <<configHash, box>> /\ pc = "frps" /\ pc' # "note"
    BY <1>13 DEF SyncFRPS, SyncFails, SyncEnds
  <2>2. CASE resp.frps = None
    BY <1>13, <2>1, <2>2 DEF SyncFRPS
  <2>3. CASE resp.frps # None
    <3>1. resp.frps \in FRPS /\ frpsRt \in FRPS \cup {None} /\ frpsDisk \in FRPS \cup {None}
      BY <2>3 DEF TypeOK, Resp
    <3>2. PICK r \in FRPSApply(resp.frps) :
            /\ frpsRt' = r.rt
            /\ IF r.ok THEN frpsHash' = resp.frps /\ drifted' = drifted \ {"frps"}
                       ELSE drifted' = drifted \cup {"frps"}
      BY <1>13, <2>3 DEF SyncFRPS
    <3>3. r.ok => frpsRt' = resp.frps
      BY <3>1, <3>2, FRPSApplyKeeps
    <3>4. CASE r.ok
      BY <2>1, <3>2, <3>3, <3>4
    <3>5. CASE ~r.ok
      BY <2>1, <3>2, <3>5
    <3> QED BY <3>4, <3>5
  <2> QED BY <2>2, <2>3
<1>14. CASE SyncAligns
  <2>1. UNCHANGED <<configHash, frpsHash, frpsRt, drifted>> /\ pc = "align" /\ pc' = "idle"
    BY <1>14 DEF SyncAligns, SyncEnds
  <2>2. box \in Box
    BY DEF TypeOK
  <2>3. box'.cfg = box.cfg
    BY <1>14, <2>2, BoxReapplyKeeps DEF SyncAligns, Box
  <2> QED BY <2>1, <2>3
<1>15. CASE UNCHANGED vars
  BY <1>1, <1>15 DEF vars, syncVars, runtimeVars
<1> QED BY <1>2, <1>3, <1>4, <1>5, <1>6, <1>7, <1>8, <1>9, <1>10, <1>11, <1>12, <1>13, <1>14,
           <1>15 DEF Next, SyncStep

\* A hash that syncConfig remembers is the hash of the runtime, so that skipping an
\* apply because HEAD compared equal is right - unless a push or a failed apply has
\* changed the runtime behind its back.
THEOREM RememberedAlwaysRuns == Spec => []RememberedRuns
<1>1. Init => Remembered
  BY DEF Init, Remembered, RememberedRuns, ApplyUnderWay
<1>2. Remembered => RememberedRuns
  BY DEF Remembered
<1> QED BY <1>1, <1>2, RememberedStep, TypeCorrect, PTL DEF Spec
=============================================================================
