------------------------- MODULE SyncSessionProofs -------------------------
(***************************************************************************)
(* Proofs about SyncSession, for any number of device ids, teams, pairings *)
(* and faults.                                                             *)
(***************************************************************************)
EXTENDS SyncSession, TLAPS

\* The requests stay of their type when one of them moves on, ends or starts.
LEMMA RequestsTyped ==
    ASSUME req \in [Slot -> Request], NEW r \in Slot
    PROVE  /\ \A pc \in Pc : [req EXCEPT ![r].pc = pc] \in [Slot -> Request]
           /\ Idle \in Request
           /\ [req EXCEPT ![r] = Idle] \in [Slot -> Request]
           /\ [s \in Slot |-> Idle] \in [Slot -> Request]
<1>1. Idle \in Request
  BY SessionAssumption DEF Idle, Request, Kind, Pc, Gate, Epoch, Snapshot, NoSnapshot
<1>2. \A pc \in Pc : [req[r] EXCEPT !.pc = pc] \in Request
  BY DEF Request
<1> QED
  BY <1>1, <1>2

\* A request that starts is of its type.
LEMMA StartTyped ==
    ASSUME TypeOK, NEW r \in Slot, NEW kind \in Kind, NEW pc \in Pc, Start(r, kind, pc)
    PROVE  req' \in [Slot -> Request]
<1> DEFINE new == [Idle EXCEPT !.kind = kind, !.pc = pc, !.dev = Me,
                               !.agreed = agreed \/ kind = "approve"]
<1>1. Idle \in Request
  BY RequestsTyped DEF TypeOK
<1>2. Me \in Device \union {NoDevice}
  BY DEF TypeOK, Me, Identity
<1>3. (agreed \/ kind = "approve") \in BOOLEAN
  OBVIOUS
<1>4. new \in Request
  BY <1>1, <1>2, <1>3 DEF Request
<1> HIDE DEF new
<1>5. req' = [req EXCEPT ![r] = new]
  BY DEF Start, new
<1> QED
  BY <1>4, <1>5 DEF TypeOK

\* A request that has its outcome leaves flow, approvals and interface typed.
LEMMA ConcludeTyped ==
    ASSUME TypeOK, NEW r \in Slot, NEW outcome, Conclude(r, outcome)
    PROVE  /\ req' \in [Slot -> Request]
           /\ flow' \in {"none", "overwrite", "waiting", "bootstrapping"}
           /\ approvals' \subseteq Device \union {NoDevice}
           /\ ui' \in {"closed", "pairing", "failed", "asking"}
<1>1. req' \in [Slot -> Request]
  BY RequestsTyped DEF TypeOK, Conclude, Done
<1>2. flow' \in {"none", "overwrite", "waiting", "bootstrapping"}
  BY DEF TypeOK, Conclude
<1>3. req[r].dev \in Device \union {NoDevice}
  BY DEF TypeOK, Request
<1>4. approvals' \subseteq Device \union {NoDevice}
  BY <1>3 DEF TypeOK, Conclude
<1>5. ui' \in {"closed", "pairing", "failed", "asking"}
  BY DEF TypeOK, Conclude
<1> QED
  BY <1>1, <1>2, <1>4, <1>5

\* The stores after a session reset are of their type.
LEMMA ResetTyped ==
    ASSUME TypeOK, SessionReset
    PROVE  /\ config' \in [Device -> [row : BOOLEAN, boot : BOOLEAN, gate : Gate]]
           /\ cursor' \in Epoch /\ stale' \in BOOLEAN
           /\ rows' \in {"none", "own", "shared", "restored"}
<1>1. 0 \in Gate /\ 0 \in Epoch
  BY SessionAssumption DEF Gate, Epoch
<1>2. NoRow \in [row : BOOLEAN, boot : BOOLEAN, gate : Gate]
  BY <1>1 DEF NoRow
<1> QED
  BY <1>1, <1>2 DEF SessionReset

-----------------------------------------------------------------------------

\* Every store keeps its type: no key, position, snapshot or gate is of a team
\* or a pairing there has not been (all of SyncSession's actions).
THEOREM TypeCorrect == Spec => []TypeOK
<1>1. Init => TypeOK
  <2> SUFFICES ASSUME Init PROVE TypeOK
    OBVIOUS
  <2>1. /\ 0 \in Gate /\ 0 \in Epoch /\ 1 \in Epoch
        /\ 0 \in Snapshot /\ NoSnapshot \in Snapshot /\ 0 \in 0..MaxOthers
    BY SessionAssumption DEF Gate, Epoch, Snapshot, NoSnapshot
  <2>2. secret \in Identity
    BY <2>1 DEF Init, NoIdentity, Identity, Epoch
  <2>3. config \in [Device -> [row : BOOLEAN, boot : BOOLEAN, gate : Gate]]
    BY <2>1 DEF Init, NoRow
  <2>4. memGate \in [Device -> Gate]
    BY <2>1 DEF Init, NoGates
  <2>5. req \in [Slot -> Request]
    BY SessionAssumption
       DEF Init, Idle, Request, Kind, Pc, Gate, Epoch, Snapshot, NoSnapshot
  <2>6. cloud \in Cloud
    <3>1. PICK e \in {0, 1}, s \in {NoSnapshot, 0} :
              cloud = [trust |-> [d \in Device |-> "absent"], epoch |-> e, keyed |-> e = 1,
                       peer |-> e = 1, snap |-> s, covers |-> s = 0]
      BY DEF Init
    <3>2. /\ [d \in Device |-> "absent"] \in
                 [Device -> {"absent", "untrusted", "trusted", "revoked"}]
          /\ (e = 1) \in BOOLEAN /\ (s = 0) \in BOOLEAN
          /\ e \in Epoch /\ s \in Snapshot
      BY <2>1
    <3> QED
      BY <3>1, <3>2 DEF Cloud
  <2> QED
    <3>1. cursor \in Epoch /\ round \in Gate /\ used \in 0..MaxOthers
      BY <2>1 DEF Init
    <3>2. rows \in {"none", "own", "shared", "restored"}
      BY DEF Init
    <3>3. /\ stale \in BOOLEAN /\ agreed \in BOOLEAN
          /\ flow = "none" /\ approvals = {} /\ ui = "closed"
      BY DEF Init
    <3> QED
      BY <2>2, <2>3, <2>4, <2>5, <2>6, <3>1, <3>2, <3>3 DEF TypeOK
<1>2. TypeOK /\ [Next]_vars => TypeOK'
  <2> SUFFICES ASSUME TypeOK, [Next]_vars PROVE TypeOK'
    OBVIOUS
  <2>0. /\ 0 \in Gate /\ 0 \in Epoch /\ NoSnapshot \in Snapshot
        /\ NoRow \in [row : BOOLEAN, boot : BOOLEAN, gate : Gate]
        /\ NoGates \in [Device -> Gate]
        /\ NoIdentity \in Identity
    BY SessionAssumption
       DEF Gate, Epoch, Snapshot, NoSnapshot, NoRow, NoGates, NoIdentity, Identity
  <2>1. ASSUME NEW r \in Slot, Handler(r) PROVE TypeOK'
    <3> USE DEF TypeOK, local, memory
    <3>0. /\ req[r] \in Request
          /\ \A pc \in Pc : [req EXCEPT ![r].pc = pc] \in [Slot -> Request]
          /\ Idle \in Request
          /\ [req EXCEPT ![r] = Idle] \in [Slot -> Request]
      BY RequestsTyped
    <3>1. CASE ResetTeam(r)
      <4>1. Revoked \in [Device -> {"absent", "untrusted", "trusted", "revoked"}]
        BY DEF Revoked
      <4>2. cloud' \in Cloud
        BY <3>1, <4>1, <2>0 DEF ResetTeam, Cloud
      <4>3. req' \in [Slot -> Request]
        BY <3>1, <3>0 DEF ResetTeam, Go, Pc
      <4> QED
        BY <3>1, <4>2, <4>3 DEF ResetTeam
    <3>2. CASE ForgetIdentity(r)
      <4>1. req' \in [Slot -> Request]
        BY <3>2, <3>0 DEF ForgetIdentity, Go, Pc
      <4> QED
        BY <3>2, <2>0, <4>1 DEF ForgetIdentity
    <3>3. CASE Enroll(r)
      <4>1. PICK d \in Device :
                /\ req' = [req EXCEPT ![r].pc = "save_identity", ![r].dev = d]
                /\ cloud' = [cloud EXCEPT !.trust[d] = IF Usable(d) THEN @ ELSE "untrusted"]
        BY <3>3 DEF Enroll
      <4>2. cloud' \in Cloud
        BY <4>1 DEF Cloud
      <4>3. req' \in [Slot -> Request]
        BY <4>1, <3>0, ZenonT(40) DEF Request, Pc
      <4> QED
        BY <3>3, <4>2, <4>3 DEF Enroll
    <3>4. CASE SaveIdentity(r)
      <4>1. req' \in [Slot -> Request]
        BY <3>4, <3>0 DEF SaveIdentity, Go, Pc
      <4>2. secret' \in Identity
        BY <3>4, <3>0, <2>0 DEF SaveIdentity, Identity, Request, Epoch
      <4> QED
        BY <3>4, <4>1, <4>2 DEF SaveIdentity
    <3>5. CASE InitializeKeys(r)
      <4>1. CASE cloud.keyed /\ Go(r, "memory") /\ UNCHANGED cloud
        BY <3>5, <4>1, <3>0 DEF InitializeKeys, Go, Pc
      <4>2. CASE /\ ~cloud.keyed /\ cloud.epoch < MaxTeams
                 /\ cloud' = [cloud EXCEPT !.epoch = @ + 1, !.keyed = TRUE,
                                           !.trust[req[r].dev] = "trusted"]
                 /\ req' = [req EXCEPT ![r].pc = "save_key", ![r].key = cloud.epoch + 1]
        <5>1. cloud.epoch + 1 \in Epoch
          BY <4>2, SessionAssumption DEF Cloud, Epoch
        <5>2. cloud' \in Cloud
          BY <4>2, <5>1 DEF Cloud
        <5>3. req' \in [Slot -> Request]
          BY <4>2, <5>1, <3>0, ZenonT(40) DEF Request, Pc
        <5> QED
          BY <3>5, <5>2, <5>3 DEF InitializeKeys
      <4> QED
        BY <3>5, <4>1, <4>2 DEF InitializeKeys
    <3>6. CASE SaveKey(r)
      <4>1. req' \in [Slot -> Request]
        BY <3>6, <3>0 DEF SaveKey, Go, Pc
      <4>2. secret' \in Identity
        BY <3>6, <3>0 DEF SaveKey, Identity, Request, Epoch
      <4> QED
        BY <3>6, <4>1, <4>2 DEF SaveKey
    <3>7. CASE ForgetGates(r)
      BY <3>7, <3>0, <2>0 DEF ForgetGates, Go, Pc
    <3>8. CASE ForgetStoredGates(r)
      <4>1. config' \in [Device -> [row : BOOLEAN, boot : BOOLEAN, gate : Gate]]
        BY <3>8, <2>0 DEF ForgetStoredGates, ClearGates
      <4>2. [Idle EXCEPT !.kind = "clear", !.pc = "clear_identity"] \in Request
        <5>1. "clear" \in Kind /\ "clear_identity" \in Pc
          BY DEF Kind, Pc
        <5> QED
          BY <3>0, <5>1 DEF Request
      <4>3. req' \in [Slot -> Request]
        <5>1. CASE req[r].kind = "cancel"
          BY <3>8, <3>0, <4>2, <5>1 DEF ForgetStoredGates
        <5>2. CASE req[r].kind # "cancel" /\ req[r].key # 0
          BY <3>8, <3>0, <5>2 DEF ForgetStoredGates, Go, Pc
        <5>3. CASE req[r].kind # "cancel" /\ ~(req[r].key # 0)
          BY <3>8, <3>0, <5>3 DEF ForgetStoredGates, Done
        <5> QED
          BY <5>1, <5>2, <5>3
      <4>4. /\ flow' \in {"none", "overwrite", "waiting", "bootstrapping"}
            /\ ui' \in {"closed", "pairing", "failed", "asking"}
            /\ agreed' \in BOOLEAN
        BY <3>8 DEF ForgetStoredGates
      <4> QED
        BY <3>8, <4>1, <4>3, <4>4 DEF ForgetStoredGates
    <3>9. CASE ClearIdentity(r)
      <4>1. req' \in [Slot -> Request]
        BY <3>9, <3>0 DEF ClearIdentity, Go, Pc
      <4> QED
        BY <3>9, <2>0, <4>1 DEF ClearIdentity
    <3>10. CASE ClearSession(r)
      <4>1. req' \in [Slot -> Request]
        BY <3>10, <3>0 DEF ClearSession, Go, Pc
      <4> QED
        BY <3>10, ResetTyped, <4>1 DEF ClearSession
    <3>11. CASE DeleteDevice(r)
      <4>1. cloud' \in Cloud /\ used' \in 0..MaxOthers
        BY <3>11, SessionAssumption DEF DeleteDevice, Cloud
      <4>2. req' \in [Slot -> Request]
        BY <3>11, <3>0 DEF DeleteDevice, Go, Pc
      <4> QED
        BY <3>11, <4>1, <4>2 DEF DeleteDevice
    <3>12. CASE ClearGate(r)
      <4>1. req' \in [Slot -> Request]
        BY <3>12, <3>0 DEF ClearGate, Go, Pc
      <4>2. /\ memGate' \in [Device -> Gate]
            /\ config' \in [Device -> [row : BOOLEAN, boot : BOOLEAN, gate : Gate]]
        BY <3>12, <2>0 DEF ClearGate
      <4> QED
        BY <3>12, <4>1, <4>2 DEF ClearGate
    <3>13. CASE Confirm(r)
      <4>1. req' \in [Slot -> Request]
        BY <3>13, <3>0 DEF Confirm, Go, Pc
      <4>2. cloud' \in Cloud
        BY <3>13 DEF Confirm, Cloud
      <4> QED
        BY <3>13, <4>1, <4>2 DEF Confirm
    <3>14. CASE ConfirmRefused(r)
      BY <3>14, <3>0 DEF ConfirmRefused, Done
    <3>15. CASE SetGate(r)
      <4>1. req' \in [Slot -> Request]
        BY <3>15, <3>0 DEF SetGate, Go, Pc
      <4>2. memGate' \in [Device -> Gate]
        BY <3>15, <3>0 DEF SetGate, Request
      <4> QED
        BY <3>15, <4>1, <4>2 DEF SetGate
    <3>16. CASE StoreGate(r)
      <4>1. req' \in [Slot -> Request]
        BY <3>16, <3>0 DEF StoreGate, Go, Pc
      <4>2. config' \in [Device -> [row : BOOLEAN, boot : BOOLEAN, gate : Gate]]
        <5>1. req[r].gate \in Gate
          BY <3>0 DEF Request
        <5>2. CASE req[r].dev \in Device
          BY <3>16, <5>1, <5>2 DEF StoreGate
        <5>3. CASE req[r].dev \notin Device
          BY <3>16, <5>1, <5>3 DEF StoreGate
        <5> QED
          BY <5>2, <5>3
      <4> QED
        BY <3>16, <4>1, <4>2 DEF StoreGate
    <3>17. CASE CheckRows(r)
      <4>1. req' \in [Slot -> Request]
        BY <3>17, <3>0 DEF CheckRows, Go, Done, Pc
      <4> QED
        BY <3>17, <4>1 DEF CheckRows
    <3>18. CASE KeepApproval(r)
      <4>1. req' \in [Slot -> Request]
        BY <3>18, <3>0, ZenonT(40) DEF KeepApproval, Request, Pc
      <4>2. approvals' \subseteq Device \union {NoDevice}
        BY <3>18, <3>0 DEF KeepApproval, Request
      <4> QED
        BY <3>18, <4>1, <4>2 DEF KeepApproval
    <3>19. CASE CaptureGate(r)
      <4>1. CASE Conclude(r, "error")
        BY <3>19, <4>1, ConcludeTyped DEF CaptureGate
      <4>2. CASE /\ req[r].dev # NoDevice
                 /\ LET gate == IF memGate[req[r].dev] # 0 THEN memGate[req[r].dev]
                                ELSE config[req[r].dev].gate
                    IN  req' = [req EXCEPT ![r].pc = "verify", ![r].gate = gate]
                 /\ UNCHANGED <<flow, approvals, ui>>
        <5>1. req[r].dev \in Device
          BY <4>2, <3>0 DEF Request
        <5> DEFINE gate == IF memGate[req[r].dev] # 0 THEN memGate[req[r].dev]
                           ELSE config[req[r].dev].gate
                   now == [req[r] EXCEPT !.pc = "verify", !.gate = gate]
        <5>2. gate \in Gate
          BY <5>1, <3>0
        <5>3. req' = [req EXCEPT ![r] = now]
          BY <4>2
        <5> HIDE DEF gate
        <5>4. now \in Request
          BY <5>2, <3>0, ZenonT(40) DEF Request, Pc
        <5> HIDE DEF now
        <5>5. req' \in [Slot -> Request]
          BY <5>3, <5>4, <3>0
        <5> QED
          BY <3>19, <4>2, <5>5 DEF CaptureGate
      <4> QED
        BY <3>19, <4>1, <4>2 DEF CaptureGate
    <3>20. CASE Verify(r)
      <4>1. CASE Conclude(r, "not_ready")
        BY <3>20, <4>1, ConcludeTyped DEF Verify
      <4>2. CASE Go(r, "persist") /\ UNCHANGED <<flow, approvals, ui>>
        BY <3>20, <4>2, <3>0 DEF Verify, Go, Pc
      <4> QED
        BY <3>20, <4>1, <4>2 DEF Verify
    <3>21. CASE PersistConfig(r)
      <4>1. req' \in [Slot -> Request]
        BY <3>21, <3>0 DEF PersistConfig, Go, Pc
      <4>2. config' \in [Device -> [row : BOOLEAN, boot : BOOLEAN, gate : Gate]]
        BY <3>21 DEF PersistConfig
      <4> QED
        BY <3>21, <4>1, <4>2 DEF PersistConfig
    <3>22. CASE Decide(r)
      <4>1. /\ memGate' \in [Device -> Gate]
            /\ UNCHANGED <<secret, config, cursor, stale, rows, cloud, round, agreed, used>>
        BY <3>22, <2>0 DEF Decide
      <4>2. CASE \E outcome \in {"error", "skipped", "requested"} : Conclude(r, outcome)
        BY <4>1, <4>2, ConcludeTyped
      <4>3. CASE \E pc \in {"reset", "download"} :
                    /\ req' = [req EXCEPT ![r].pc = pc, ![r].snap = cloud.snap,
                                          ![r].covered = cloud.covers, ![r].key = cloud.epoch]
                    /\ UNCHANGED <<memory, ui>>
        <5>1. req' \in [Slot -> Request]
          <6>1. PICK pc \in {"reset", "download"} :
                    req' = [req EXCEPT ![r].pc = pc, ![r].snap = cloud.snap,
                                       ![r].covered = cloud.covers, ![r].key = cloud.epoch]
            BY <4>3
          <6>2. pc \in Pc
            BY DEF Pc
          <6>3. cloud.snap \in Snapshot /\ cloud.covers \in BOOLEAN /\ cloud.epoch \in Epoch
            BY DEF Cloud
          <6> QED
            BY <6>1, <6>2, <6>3, <3>0 DEF Request
        <5> QED
          BY <4>1, <4>3, <5>1
      <4> QED
        BY <3>22, <4>2, <4>3 DEF Decide
    <3>23. CASE Download(r)
      <4>1. CASE Conclude(r, "error")
        BY <3>23, <4>1, ConcludeTyped DEF Download
      <4>2. CASE Go(r, "restore") /\ UNCHANGED <<flow, approvals, ui>>
        BY <3>23, <4>2, <3>0 DEF Download, Go, Pc
      <4> QED
        BY <3>23, <4>1, <4>2 DEF Download
    <3>24. CASE Restore(r)
      <4>1. req' \in [Slot -> Request]
        BY <3>24, <3>0 DEF Restore, Go, Pc
      <4>2. config' \in [Device -> [row : BOOLEAN, boot : BOOLEAN, gate : Gate]]
        BY <3>24, <2>0 DEF Restore
      <4>3. cursor' \in Epoch /\ memGate' \in [Device -> Gate]
        BY <3>24, <3>0, <2>0 DEF Restore, Request
      <4> QED
        BY <3>24, <4>1, <4>2, <4>3 DEF Restore
    <3>25. CASE LiftGate(r)
      <4>1. config' \in [Device -> [row : BOOLEAN, boot : BOOLEAN, gate : Gate]]
        BY <3>25, <2>0 DEF LiftGate
      <4> QED
        BY <3>25, <4>1, ConcludeTyped DEF LiftGate
    <3>26. CASE ResetSession(r)
      <4>1. req' \in [Slot -> Request]
        BY <3>26, <3>0 DEF ResetSession, Go, Pc
      <4> QED
        BY <3>26, ResetTyped, <4>1 DEF ResetSession
    <3>27. CASE MarkBootstrapped(r)
      <4>1. config' \in [Device -> [row : BOOLEAN, boot : BOOLEAN, gate : Gate]]
        BY <3>27, <2>0 DEF MarkBootstrapped
      <4>2. rows' \in {"none", "own", "shared", "restored"} /\ memGate' \in [Device -> Gate]
        BY <3>27, <2>0 DEF MarkBootstrapped
      <4> QED
        BY <3>27, <4>1, <4>2, ConcludeTyped DEF MarkBootstrapped
    <3> QED
      BY <2>1, <3>1, <3>2, <3>3, <3>4, <3>5, <3>6, <3>7, <3>8, <3>9, <3>10, <3>11, <3>12,
         <3>13, <3>14, <3>15, <3>16, <3>17, <3>18, <3>19, <3>20, <3>21, <3>22, <3>23,
         <3>24, <3>25, <3>26, <3>27 DEF Handler
  <2>2. CASE User
    <3> USE DEF TypeOK, local, memory
    <3>1. CASE EnableSync
      BY <3>1, StartTyped DEF EnableSync, Slot, Kind, Pc
    <3>2. CASE ReinitializeSync
      BY <3>2, StartTyped DEF ReinitializeSync, Slot, Kind, Pc
    <3>3. CASE ClearSyncData
      BY <3>3, StartTyped DEF ClearSyncData, Slot, Kind, Pc
    <3>4. CASE CancelFlow
      <4>1. used' \in 0..MaxOthers
        BY <3>4, SessionAssumption DEF CancelFlow
      <4>2. req' \in [Slot -> Request]
        BY <3>4, StartTyped DEF CancelFlow, Slot, Kind, Pc
      <4> QED
        BY <3>4, <4>1, <4>2 DEF CancelFlow
    <3>5. CASE SignOut
      <4>1. used' \in 0..MaxOthers
        BY <3>5, SessionAssumption DEF SignOut
      <4>2. config' \in [Device -> [row : BOOLEAN, boot : BOOLEAN, gate : Gate]]
        BY <3>5, <2>0 DEF SignOut, ClearGates
      <4> QED
        BY <3>5, <2>0, <4>1, <4>2 DEF SignOut
    <3>6. CASE BeginPairing
      <4>1. round + 1 \in Gate
        BY <3>6, SessionAssumption DEF BeginPairing, Gate
      <4>2. Idle \in Request /\ Me \in Device \union {NoDevice} /\ "main" \in Slot
        BY RequestsTyped DEF Me, Identity, Slot
      <4>3. [Idle EXCEPT !.kind = "begin", !.pc = "confirm", !.dev = Me, !.gate = round + 1]
              \in Request
        BY <4>1, <4>2 DEF Request, Kind, Pc
      <4>4. req' \in [Slot -> Request]
        BY <3>6, <4>2, <4>3 DEF BeginPairing
      <4>5. secret' \in Identity
        BY <3>6 DEF BeginPairing, Identity, Cloud, Epoch
      <4> QED
        BY <3>6, <4>1, <4>4, <4>5 DEF BeginPairing
    <3>7. CASE EnterRows
      BY <3>7 DEF EnterRows
    <3> QED
      BY <2>2, <3>1, <3>2, <3>3, <3>4, <3>5, <3>6, <3>7 DEF User
  <2>3. CASE Interface
    <3> USE DEF TypeOK, local, memory
    <3>1. CASE PollFlow
      BY <3>1, StartTyped DEF PollFlow, Slot, Kind, Pc
    <3>2. CASE CheckOverwrite
      <4>0. "main" \in Slot /\ Me \in Device \union {NoDevice} /\ Idle \in Request
        BY RequestsTyped DEF Slot, Me, Identity
      <4>1. approvals' \subseteq Device \union {NoDevice}
        BY <3>2 DEF CheckOverwrite
      <4>2. [Idle EXCEPT !.kind = "reconcile", !.pc = "capture", !.dev = Me,
                         !.agreed = agreed, !.keep = Me \in approvals'] \in Request
        <5>1. agreed \in BOOLEAN /\ (Me \in approvals') \in BOOLEAN
          OBVIOUS
        <5> QED
          BY <4>0, <5>1 DEF Request, Kind, Pc
      <4>3. req' \in [Slot -> Request]
        BY <3>2, <4>0, <4>2 DEF CheckOverwrite
      <4> QED
        BY <3>2, <4>1, <4>3 DEF CheckOverwrite
    <3> QED
      BY <2>3, <3>1, <3>2 DEF Interface
  <2>4. CASE Answer
    <3> USE DEF TypeOK, local, memory
    <3>1. CASE ApproveOverwrite
      BY <3>1, StartTyped DEF ApproveOverwrite, Slot, Kind, Pc
    <3>2. CASE AllowOverwrite
      BY <3>2, StartTyped DEF AllowOverwrite, Slot, Kind, Pc
    <3>3. CASE RetryPairing
      BY <3>3 DEF RetryPairing
    <3> QED
      BY <2>4, <3>1, <3>2, <3>3 DEF Answer
  <2>5. CASE Peers
    <3> USE DEF TypeOK, local, memory
    <3>1. CASE PeerUploads
      <4>1. cloud' \in Cloud
        <5>1. round \in Snapshot
          BY SessionAssumption DEF Gate, Snapshot, NoSnapshot
        <5> QED
          BY <3>1, <5>1 DEF PeerUploads, Cloud
      <4> QED
        BY <3>1, <4>1 DEF PeerUploads
    <3>2. CASE PeerPushes
      <4>1. cloud' \in Cloud /\ used' \in 0..MaxOthers
        <5>1. cloud' \in Cloud
          BY <3>2 DEF PeerPushes, Cloud
        <5>2. used' \in 0..MaxOthers
          BY <3>2, SessionAssumption DEF PeerPushes
        <5> QED
          BY <5>1, <5>2
      <4> QED
        BY <3>2, <4>1 DEF PeerPushes
    <3>3. CASE PeerJoins
      <4>1. cloud' \in Cloud
        <5> DEFINE e == IF cloud.keyed THEN cloud.epoch ELSE cloud.epoch + 1
        <5>1. e \in Epoch
          BY <3>3, SessionAssumption DEF PeerJoins, Cloud, Epoch
        <5>2. cloud' = [cloud EXCEPT !.peer = TRUE, !.keyed = TRUE, !.epoch = e]
          BY <3>3 DEF PeerJoins
        <5> HIDE DEF e
        <5> QED
          BY <5>1, <5>2 DEF Cloud
      <4> QED
        BY <3>3, <4>1 DEF PeerJoins
    <3>4. CASE PeerRemoves
      <4>1. Revoked \in [Device -> {"absent", "untrusted", "trusted", "revoked"}]
        BY DEF Revoked
      <4>2. used' \in 0..MaxOthers
        BY <3>4, SessionAssumption DEF PeerRemoves
      <4>3. cloud' \in Cloud
        <5>2. CASE \/ cloud' = [cloud EXCEPT !.peer = FALSE]
                   \/ cloud' = [cloud EXCEPT !.trust = Revoked]
          BY <5>2, <4>1 DEF Cloud
        <5>3. CASE /\ cloud.epoch < MaxTeams
                   /\ cloud' = [cloud EXCEPT !.trust = Revoked, !.epoch = @ + 1,
                                             !.snap = NoSnapshot, !.covers = FALSE]
          <6>1. cloud.epoch + 1 \in Epoch
            BY <5>3, SessionAssumption DEF Cloud, Epoch
          <6> QED
            BY <5>3, <6>1, <4>1, <2>0 DEF Cloud
        <5> QED
          BY <3>4, <5>2, <5>3 DEF PeerRemoves
      <4> QED
        BY <3>4, <4>2, <4>3 DEF PeerRemoves
    <3> QED
      BY <2>5, <3>1, <3>2, <3>3, <3>4 DEF Peers
  <2>6. CASE StaleCursor
    BY <2>6, SessionAssumption DEF StaleCursor, TypeOK, memory
  <2>7. CASE Reload
    <3>1. used' \in 0..MaxOthers
      BY <2>7, SessionAssumption DEF Reload, TypeOK
    <3>2. req' \in [Slot -> Request]
      <4>1. "main" \in Slot
        BY DEF Slot
      <4> QED
        BY <2>7, <4>1, RequestsTyped DEF Reload, TypeOK
    <3> QED
      BY <2>7, <3>1, <3>2 DEF Reload, TypeOK, local
  <2>8. ASSUME NEW r \in Slot, RequestFails(r) PROVE TypeOK'
    <3>1. used' \in 0..MaxOthers
      BY <2>8, SessionAssumption DEF RequestFails, TypeOK
    <3>2. CASE Conclude(r, "error")
      BY <2>8, <3>1, <3>2, ConcludeTyped DEF RequestFails, TypeOK, local
    <3>3. CASE Done(r) /\ ui' = "closed" /\ UNCHANGED <<flow, approvals>>
      <4>1. req' \in [Slot -> Request]
        BY <3>3, RequestsTyped DEF TypeOK, Done
      <4> QED
        BY <2>8, <3>1, <3>3, <4>1 DEF RequestFails, TypeOK, local
    <3> QED
      BY <2>8, <3>2, <3>3 DEF RequestFails
  <2>9. CASE Crash
    <3>1. used' \in 0..MaxOthers
      BY <2>9, SessionAssumption DEF Crash, TypeOK
    <3>2. req' \in [Slot -> Request]
      <4>1. "main" \in Slot
        BY DEF Slot
      <4> QED
        BY <2>9, <4>1, RequestsTyped DEF Crash, TypeOK
    <3> QED
      BY <2>9, <2>0, <3>1, <3>2 DEF Crash, TypeOK, local
  <2>10. CASE UNCHANGED vars
    BY <2>10 DEF vars, local, memory, TypeOK
  <2> QED
    BY <2>1, <2>2, <2>3, <2>4, <2>5, <2>6, <2>7, <2>8, <2>9, <2>10 DEF Next
<1> QED
  BY <1>1, <1>2, PTL DEF Spec

-----------------------------------------------------------------------------
(***************************************************************************)
(* The freshness gate.  A restore is decided on the gate that was captured *)
(* in memory several awaits before; what makes the gate in SQLite no later *)
(* than that one is said step by step by MainSound.                        *)
(***************************************************************************)
Asking == {"confirm", "gate_memory", "gate_sqlite"}
Captured == {"verify", "persist", "decide"}
Chosen == {"download", "restore"}
CancelPc == {"idle", "delete_device", "clear_gate", "clear_identity", "clear_session",
             "memory", "sqlite"}

\* A cancelled flow never goes on into a bootstrap.
CancelSound == req["cancel"].pc \in CancelPc /\ req["cancel"].key = 0

\* No gate is later than the last pairing, and the one in SQLite is not later than
\* the one in memory, if there is one.
GatesSound ==
    \A d \in Device :
        /\ config[d].gate <= round /\ memGate[d] <= round
        /\ memGate[d] # 0 => config[d].gate <= memGate[d]

MainSound ==
    /\ req["main"].pc \in Asking =>
          req["main"].dev \in Device /\ req["main"].gate = round
    /\ req["main"].pc = "gate_sqlite" =>
          memGate[req["main"].dev] \in {0, req["main"].gate}
    /\ req["main"].pc \in Captured =>
          /\ req["main"].dev \in Device
          /\ config[req["main"].dev].gate <= req["main"].gate
    /\ req["main"].pc \in Chosen =>
          /\ req["main"].dev \in Device
          /\ \/ config[req["main"].dev].gate <= req["main"].snap
             \/ req["main"].covered

GateInv == CancelSound /\ GatesSound /\ MainSound

\* Steps that concern the gate only by lifting it.
GatesFall ==
    /\ round' = round
    /\ \A d \in Device : /\ config'[d].gate \in {0, config[d].gate}
                         /\ memGate'[d] \in {0, memGate[d]}

MainFree ==
    \/ req'["main"] = req["main"]
    \/ req'["main"].pc \notin Asking \union Captured \union Chosen

\* Lifting gates disturbs nobody who relies on them.
LEMMA GatesFrame ==
    ASSUME TypeOK, GateInv, GatesFall, MainFree
    PROVE  GatesSound' /\ MainSound'
<1>1. /\ round \in Int
      /\ \A d \in Device : config[d].gate \in Nat /\ memGate[d] \in Nat
  BY SessionAssumption DEF TypeOK, Gate
<1>2. GatesSound'
  BY <1>1 DEF GateInv, GatesSound, GatesFall
<1>3. CASE req'["main"].pc \notin Asking \union Captured \union Chosen
  <2>1. /\ req'["main"].pc \notin Asking /\ req'["main"].pc \notin Captured
        /\ req'["main"].pc \notin Chosen /\ "gate_sqlite" \in Asking
    BY <1>3 DEF Asking
  <2>2. req'["main"].pc # "gate_sqlite"
    BY <2>1
  <2> QED
    BY <1>2, <2>1, <2>2 DEF MainSound
<1>4. CASE req'["main"] = req["main"]
  <2>0. req["main"].gate \in Nat /\ req["main"].snap \in Int
    BY SessionAssumption DEF TypeOK, Slot, Request, Gate, Snapshot, NoSnapshot
  <2>1. req["main"].pc \in Asking =>
            req["main"].dev \in Device /\ req["main"].gate = round'
    BY DEF GateInv, MainSound, GatesFall
  <2>2. ASSUME req["main"].pc = "gate_sqlite"
        PROVE  memGate'[req["main"].dev] \in {0, req["main"].gate}
    <3>1. req["main"].dev \in Device
      BY <2>1, <2>2 DEF Asking
    <3>2. memGate[req["main"].dev] \in {0, req["main"].gate}
      BY <2>2 DEF GateInv, MainSound
    <3> QED
      BY <3>1, <3>2 DEF GatesFall
  <2>3. req["main"].pc \in Captured =>
            /\ req["main"].dev \in Device
            /\ config'[req["main"].dev].gate <= req["main"].gate
    BY <1>1, <2>0 DEF GateInv, MainSound, GatesFall
  <2>4. ASSUME req["main"].pc \in Chosen
        PROVE  /\ req["main"].dev \in Device
               /\ \/ config'[req["main"].dev].gate <= req["main"].snap
                  \/ req["main"].covered
    <3>1. req["main"].dev \in Device
      BY <2>4 DEF GateInv, MainSound
    <3>2. CASE req["main"].covered
      BY <3>1, <3>2
    <3>3. CASE config[req["main"].dev].gate <= req["main"].snap
      BY <1>1, <2>0, <3>1, <3>3 DEF GatesFall
    <3> QED
      BY <2>4, <3>2, <3>3 DEF GateInv, MainSound
  <2> QED
    BY <1>2, <1>4, <2>1, <2>2, <2>3, <2>4 DEF MainSound
<1> QED
  BY <1>2, <1>3, <1>4 DEF MainFree

\* A request that moves to a step without a gate, or ends.
LEMMA MoveFrame ==
    ASSUME TypeOK, CancelSound, NEW r \in Slot, NEW pc \in Pc,
           pc \notin Asking \union Captured \union Chosen,
           r = "main" \/ pc \in CancelPc,
           Go(r, pc)
    PROVE  CancelSound' /\ MainFree
<1>1. req \in [Slot -> Request] /\ "main" \in Slot /\ "cancel" \in Slot
  BY DEF TypeOK, Slot
<1>2. CASE r = "main"
  <2>1. req'["cancel"] = req["cancel"]
    BY <1>1, <1>2 DEF Go
  <2>2. req' = [req EXCEPT !["main"] = [req["main"] EXCEPT !.pc = pc]]
    BY <1>2 DEF Go
  <2>3. req'["main"].pc = pc
    BY <1>1, <2>2 DEF Request
  <2> QED
    BY <2>1, <2>3 DEF CancelSound, MainFree
<1>3. CASE r = "cancel" /\ pc \in CancelPc
  <2>1. /\ req'["main"] = req["main"]
        /\ req'["cancel"].pc = pc /\ req'["cancel"].key = req["cancel"].key
    BY <1>1, <1>3 DEF Go, Request
  <2> QED
    BY <1>3, <2>1 DEF CancelSound, MainFree
<1> QED
  BY <1>2, <1>3 DEF Slot

LEMMA DoneFrame ==
    ASSUME TypeOK, CancelSound, NEW r \in Slot, Done(r)
    PROVE  CancelSound' /\ MainFree
<1>1. req \in [Slot -> Request] /\ "main" \in Slot /\ "cancel" \in Slot
  BY DEF TypeOK, Slot
<1>2. \A s \in Slot : req'[s] = IF s = r THEN Idle ELSE req[s]
  BY <1>1 DEF Done
<1>3. Idle.pc = "idle" /\ Idle.key = 0
  BY DEF Idle
<1>4. CancelSound'
  BY <1>1, <1>2, <1>3 DEF CancelSound, CancelPc
<1>5. MainFree
  BY <1>1, <1>2, <1>3 DEF MainFree, Asking, Captured, Chosen
<1> QED
  BY <1>4, <1>5

\* Steps that leave the gates alone.
LEMMA SameGates ==
    ASSUME UNCHANGED <<config, memGate, round>>
    PROVE  GatesFall
BY DEF GatesFall

\* No step of a handler breaks what the gate rests on.
LEMMA HandlerGates ==
    ASSUME TypeOK, GateInv, NEW r \in Slot, Handler(r)
    PROVE  GateInv'
<1> USE DEF local, memory
<1>1. /\ req \in [Slot -> Request] /\ "main" \in Slot /\ "cancel" \in Slot
      /\ Slot = {"main", "cancel"} /\ CancelSound /\ GatesSound /\ MainSound
  BY DEF TypeOK, Slot, GateInv
<1>2. r = "main" \/ req[r].pc \in CancelPc
  BY <1>1 DEF CancelSound
<1>3. ASSUME GatesFall, CancelSound', MainFree PROVE GateInv'
  BY <1>3, GatesFrame DEF GateInv
<1>4. ASSUME GatesFall, NEW pc \in Pc, Go(r, pc),
             pc \notin Asking \union Captured \union Chosen,
             r = "main" \/ pc \in CancelPc
      PROVE  GateInv'
  BY <1>1, <1>3, <1>4, MoveFrame
<1>5. ASSUME GatesFall, Done(r) PROVE GateInv'
  BY <1>1, <1>3, <1>5, DoneFrame
<1>6. ASSUME GatesFall, NEW outcome, Conclude(r, outcome) PROVE GateInv'
  BY <1>5, <1>6 DEF Conclude
<1>7. /\ round \in Nat
      /\ \A d \in Device : config[d].gate \in Nat /\ memGate[d] \in Nat
      /\ config \in [Device -> [row : BOOLEAN, boot : BOOLEAN, gate : Nat]]
      /\ memGate \in [Device -> Nat]
      /\ \A s \in Slot : req[s].gate \in Nat /\ req[s].snap \in Int
  BY <1>1, SessionAssumption DEF TypeOK, Request, Gate, Snapshot, NoSnapshot
<1>10. CASE ResetTeam(r)
  <2>1. GatesFall
    BY <1>10, SameGates DEF ResetTeam
  <2>2. r = "main"
    BY <1>10, <1>2 DEF ResetTeam, At, CancelPc
  <2> QED
    BY <1>10, <1>4, <2>1, <2>2 DEF ResetTeam, Pc, CancelPc, Asking, Captured, Chosen
<1>11. CASE ForgetIdentity(r)
  <2>1. GatesFall
    BY <1>11, SameGates DEF ForgetIdentity
  <2>2. r = "main"
    BY <1>11, <1>2 DEF ForgetIdentity, At, CancelPc
  <2> QED
    BY <1>11, <1>4, <2>1, <2>2 DEF ForgetIdentity, Pc, CancelPc, Asking, Captured, Chosen
<1>12. CASE Enroll(r)
  <2>1. GatesFall
    BY <1>12, SameGates DEF Enroll
  <2>2. r = "main"
    BY <1>12, <1>2 DEF Enroll, At, CancelPc
  <2>3. PICK d \in Device : req' = [req EXCEPT !["main"].pc = "save_identity", !["main"].dev = d]
    BY <1>12, <2>2 DEF Enroll
  <2>4. req'["main"].pc = "save_identity" /\ req'["cancel"] = req["cancel"]
    BY <1>1, <2>3 DEF Request
  <2> QED
    BY <1>1, <1>3, <2>1, <2>4 DEF CancelSound, MainFree, Asking, Captured, Chosen
<1>13. CASE SaveIdentity(r)
  <2>1. GatesFall
    BY <1>13, SameGates DEF SaveIdentity
  <2>2. r = "main"
    BY <1>13, <1>2 DEF SaveIdentity, At, CancelPc
  <2>3. Go(r, "memory") \/ Go(r, "keys")
    BY <1>13 DEF SaveIdentity
  <2> QED
    BY <1>4, <2>1, <2>2, <2>3 DEF Pc, Asking, Captured, Chosen
<1>14. CASE InitializeKeys(r)
  <2>1. GatesFall
    BY <1>14, SameGates DEF InitializeKeys
  <2>2. r = "main"
    BY <1>14, <1>2 DEF InitializeKeys, At, CancelPc
  <2>3. CASE Go(r, "memory")
    BY <1>4, <2>1, <2>2, <2>3 DEF Pc, Asking, Captured, Chosen
  <2>4. CASE req' = [req EXCEPT ![r].pc = "save_key", ![r].key = cloud.epoch + 1]
    <3>1. req'["main"].pc = "save_key" /\ req'["cancel"] = req["cancel"]
      BY <1>1, <2>2, <2>4 DEF Request
    <3> QED
      BY <1>1, <1>3, <2>1, <3>1 DEF CancelSound, MainFree, Asking, Captured, Chosen
  <2> QED
    BY <1>14, <2>3, <2>4 DEF InitializeKeys
<1>15. CASE SaveKey(r)
  <2>1. GatesFall
    BY <1>15, SameGates DEF SaveKey
  <2>2. r = "main"
    BY <1>15, <1>2 DEF SaveKey, At, CancelPc
  <2> QED
    BY <1>15, <1>4, <2>1, <2>2 DEF SaveKey, Pc, CancelPc, Asking, Captured, Chosen
<1>16. CASE ForgetGates(r)
  <2>1. GatesFall
    BY <1>16 DEF ForgetGates, GatesFall, NoGates
  <2> QED
    BY <1>16, <1>4, <2>1 DEF ForgetGates, Pc, CancelPc, Asking, Captured, Chosen
<1>17. CASE ForgetStoredGates(r)
  <2>1. GatesFall
    BY <1>17, <1>7 DEF ForgetStoredGates, ClearGates, GatesFall
  <2>2. CASE req[r].kind = "cancel"
    <3>1. req' = [req EXCEPT ![r] = [Idle EXCEPT !.kind = "clear", !.pc = "clear_identity"]]
      BY <1>17, <2>2 DEF ForgetStoredGates
    <3>2. /\ req'[r].pc = "clear_identity" /\ req'[r].key = 0
          /\ \A s \in Slot : s # r => req'[s] = req[s]
      BY <1>1, <3>1 DEF Idle
    <3> QED
      BY <1>1, <1>3, <2>1, <3>2
         DEF CancelSound, MainFree, Asking, Captured, Chosen, CancelPc
  <2>3. CASE req[r].kind # "cancel" /\ req[r].key # 0
    <3>1. Go(r, "reset")
      BY <1>17, <2>3 DEF ForgetStoredGates
    <3>2. r = "main"
      BY <1>1, <2>3 DEF CancelSound
    <3> QED
      BY <1>4, <2>1, <3>1, <3>2 DEF Pc, Asking, Captured, Chosen
  <2>4. CASE req[r].kind # "cancel" /\ ~(req[r].key # 0)
    <3>1. Done(r)
      BY <1>17, <2>4 DEF ForgetStoredGates
    <3> QED
      BY <1>5, <2>1, <3>1
  <2> QED
    BY <2>2, <2>3, <2>4
<1>18. CASE ClearIdentity(r)
  <2>1. GatesFall
    BY <1>18, SameGates DEF ClearIdentity
  <2> QED
    BY <1>18, <1>4, <2>1 DEF ClearIdentity, Pc, CancelPc, Asking, Captured, Chosen
<1>19. CASE ClearSession(r)
  <2>1. GatesFall
    BY <1>19 DEF ClearSession, GatesFall, SessionReset, NoRow
  <2> QED
    BY <1>19, <1>4, <2>1 DEF ClearSession, Pc, CancelPc, Asking, Captured, Chosen
<1>20. CASE DeleteDevice(r)
  <2>1. GatesFall
    BY <1>20, SameGates DEF DeleteDevice
  <2> QED
    BY <1>20, <1>4, <2>1 DEF DeleteDevice, Pc, CancelPc, Asking, Captured, Chosen
<1>21. CASE ClearGate(r)
  <2>1. GatesFall
    BY <1>21, <1>7 DEF ClearGate, GatesFall
  <2> QED
    BY <1>21, <1>4, <2>1 DEF ClearGate, Pc, CancelPc, Asking, Captured, Chosen
<1>22. CASE Confirm(r)
  <2>1. r = "main"
    BY <1>22, <1>2 DEF Confirm, At, CancelPc
  <2>2. /\ req["main"].pc \in Asking
        /\ req' = [req EXCEPT !["main"] = [req["main"] EXCEPT !.pc = "gate_memory"]]
    BY <1>22, <2>1 DEF Confirm, At, Go, Asking
  <2>3. /\ req'["main"].pc = "gate_memory" /\ req'["main"].dev = req["main"].dev
        /\ req'["main"].gate = req["main"].gate /\ req'["cancel"] = req["cancel"]
    BY <1>1, <2>2 DEF Request
  <2>4. UNCHANGED <<config, memGate, round>>
    BY <1>22 DEF Confirm
  <2> QED
    BY <1>1, <2>2, <2>3, <2>4
       DEF GateInv, CancelSound, GatesSound, MainSound, Asking, Captured, Chosen
<1>23. CASE ConfirmRefused(r)
  <2>1. GatesFall
    BY <1>23, SameGates DEF ConfirmRefused
  <2> QED
    BY <1>23, <1>5, <2>1 DEF ConfirmRefused
<1>24. CASE SetGate(r)
  <2>1. r = "main"
    BY <1>24, <1>2 DEF SetGate, At, CancelPc
  <2>2. /\ req["main"].dev \in Device /\ req["main"].gate = round
        /\ req' = [req EXCEPT !["main"] = [req["main"] EXCEPT !.pc = "gate_sqlite"]]
    BY <1>24, <1>1, <2>1 DEF SetGate, At, Go, Asking, MainSound
  <2>3. /\ req'["main"].pc = "gate_sqlite" /\ req'["main"].dev = req["main"].dev
        /\ req'["main"].gate = round /\ req'["cancel"] = req["cancel"]
    BY <1>1, <2>2 DEF Request
  <2>4. /\ memGate' = [memGate EXCEPT ![req["main"].dev] = round]
        /\ UNCHANGED <<config, round>>
    BY <1>24, <2>1, <2>2 DEF SetGate
  <2>5. GatesSound'
    BY <1>1, <1>7, <2>2, <2>4 DEF GatesSound
  <2>6. memGate'[req["main"].dev] = round
    BY <1>7, <2>2, <2>4
  <2>7. MainSound'
    BY <2>2, <2>3, <2>4, <2>6 DEF MainSound, Asking, Captured, Chosen
  <2> QED
    BY <1>1, <2>3, <2>5, <2>7 DEF GateInv, CancelSound
<1>25. CASE StoreGate(r)
  <2>1. r = "main"
    BY <1>25, <1>2 DEF StoreGate, At, CancelPc
  <2>2. /\ req["main"].dev \in Device /\ req["main"].gate = round
        /\ memGate[req["main"].dev] \in {0, round}
    BY <1>25, <1>1, <2>1 DEF StoreGate, At, Asking, MainSound
  <2>3. Go(r, "check_rows") /\ UNCHANGED <<memGate, round>>
    BY <1>25 DEF StoreGate
  <2>4. CancelSound' /\ MainFree
    BY <1>1, <2>1, <2>3, MoveFrame DEF Pc, Asking, Captured, Chosen
  <2>5. req'["main"].pc = "check_rows"
    BY <1>1, <2>1, <2>3 DEF Go, Request
  <2>6. \A d \in Device : config'[d].gate = IF d = req["main"].dev THEN round ELSE config[d].gate
    BY <1>25, <1>7, <2>1, <2>2 DEF StoreGate
  <2>7. GatesSound'
    BY <1>1, <1>7, <2>2, <2>3, <2>6 DEF GatesSound
  <2>8. MainSound'
    BY <2>5 DEF MainSound, Asking, Captured, Chosen
  <2> QED
    BY <2>4, <2>7, <2>8 DEF GateInv
<1>26. CASE CheckRows(r)
  <2>1. GatesFall
    BY <1>26, SameGates DEF CheckRows
  <2>2. r = "main"
    BY <1>26, <1>2 DEF CheckRows, At, CancelPc
  <2>3. Done(r) \/ Go(r, "capture")
    BY <1>26 DEF CheckRows
  <2> QED
    BY <1>4, <1>5, <2>1, <2>2, <2>3 DEF Pc, Asking, Captured, Chosen
<1>27. CASE KeepApproval(r)
  <2>1. GatesFall
    BY <1>27, SameGates DEF KeepApproval
  <2>2. r = "main"
    BY <1>27, <1>2 DEF KeepApproval, At, CancelPc
  <2>3. req' = [req EXCEPT !["main"].pc = "capture", !["main"].keep = TRUE]
    BY <1>27, <2>2 DEF KeepApproval
  <2>4. req'["main"].pc = "capture" /\ req'["cancel"] = req["cancel"]
    BY <1>1, <2>3 DEF Request
  <2> QED
    BY <1>1, <1>3, <2>1, <2>4 DEF CancelSound, MainFree, Asking, Captured, Chosen
<1>28. CASE CaptureGate(r)
  <2>1. r = "main"
    BY <1>28, <1>2 DEF CaptureGate, At, CancelPc
  <2>2. UNCHANGED <<config, memGate, round>>
    BY <1>28 DEF CaptureGate
  <2>3. CASE Conclude(r, "error")
    BY <1>6, <2>2, <2>3, SameGates
  <2> DEFINE gate == IF memGate[req["main"].dev] # 0 THEN memGate[req["main"].dev]
                     ELSE config[req["main"].dev].gate
  <2>4. CASE /\ req["main"].dev # NoDevice
             /\ req' = [req EXCEPT !["main"].pc = "verify", !["main"].gate = gate]
    <3>1. req["main"].dev \in Device
      BY <1>1, <2>4 DEF Request
    <3>2. config[req["main"].dev].gate <= gate
      BY <1>1, <1>7, <3>1 DEF GatesSound
    <3> HIDE DEF gate
    <3>3. /\ req'["main"].pc = "verify" /\ req'["main"].dev = req["main"].dev
          /\ req'["main"].gate = gate /\ req'["cancel"] = req["cancel"]
      BY <1>1, <2>4 DEF Request
    <3>4. MainSound'
      BY <2>2, <3>1, <3>2, <3>3 DEF MainSound, Asking, Captured, Chosen
    <3> QED
      BY <1>1, <2>2, <3>3, <3>4 DEF GateInv, CancelSound, GatesSound
  <2> QED
    BY <1>28, <2>1, <2>3, <2>4 DEF CaptureGate
<1>29. CASE Verify(r)
  <2>1. r = "main"
    BY <1>29, <1>2 DEF Verify, At, CancelPc
  <2>2. UNCHANGED <<config, memGate, round>>
    BY <1>29 DEF Verify
  <2>3. CASE Conclude(r, "not_ready")
    BY <1>6, <2>2, <2>3, SameGates
  <2>4. CASE Go(r, "persist")
    <3>1. /\ req["main"].pc = "verify"
          /\ req' = [req EXCEPT !["main"] = [req["main"] EXCEPT !.pc = "persist"]]
      BY <1>29, <2>1, <2>4 DEF Verify, At, Go
    <3>2. /\ req'["main"].pc = "persist" /\ req'["main"].dev = req["main"].dev
          /\ req'["main"].gate = req["main"].gate /\ req'["main"].snap = req["main"].snap
          /\ req'["main"].covered = req["main"].covered /\ req'["cancel"] = req["cancel"]
      BY <1>1, <3>1 DEF Request
    <3>3. MainSound'
      BY <1>1, <2>2, <3>1, <3>2 DEF MainSound, Asking, Captured, Chosen
    <3> QED
      BY <1>1, <2>2, <3>2, <3>3 DEF GateInv, CancelSound, GatesSound
  <2> QED
    BY <1>29, <2>3, <2>4 DEF Verify
<1>30. CASE PersistConfig(r)
  <2>1. r = "main"
    BY <1>30, <1>2 DEF PersistConfig, At, CancelPc
  <2>2. /\ req["main"].pc = "persist"
        /\ req' = [req EXCEPT !["main"] = [req["main"] EXCEPT !.pc = "decide"]]
    BY <1>30, <2>1 DEF PersistConfig, At, Go
  <2>3. /\ req'["main"].pc = "decide" /\ req'["main"].dev = req["main"].dev
        /\ req'["main"].gate = req["main"].gate /\ req'["cancel"] = req["cancel"]
    BY <1>1, <2>2 DEF Request
  <2>4. UNCHANGED <<memGate, round>> /\ \A d \in Device : config'[d].gate = config[d].gate
    BY <1>30, <1>7 DEF PersistConfig
  <2>5. MainSound'
    BY <1>1, <2>2, <2>3, <2>4 DEF MainSound, Asking, Captured, Chosen
  <2> QED
    BY <1>1, <2>3, <2>4, <2>5 DEF GateInv, CancelSound, GatesSound
<1>31. CASE Decide(r)
  <2>1. r = "main"
    BY <1>31, <1>2 DEF Decide, At, CancelPc
  <2>2. UNCHANGED <<config, round>> /\ memGate' \in {memGate, NoGates}
    BY <1>31 DEF Decide
  <2>3. GatesFall
    BY <2>2 DEF GatesFall, NoGates
  <2>4. CASE \E outcome \in {"error", "skipped", "requested"} : Conclude(r, outcome)
    BY <1>6, <2>3, <2>4
  <2>5. CASE /\ IF cloud.snap = NoSnapshot THEN req[r].gate = 0 /\ ~cloud.peer ELSE Satisfies(r)
             /\ req' = [req EXCEPT ![r].pc = IF cloud.snap = NoSnapshot THEN "reset" ELSE "download",
                                   ![r].snap = cloud.snap, ![r].covered = cloud.covers,
                                   ![r].key = cloud.epoch]
    <3>1. req'["cancel"] = req["cancel"] /\ CancelSound'
      BY <1>1, <2>1, <2>5 DEF CancelSound
    <3>2. CASE cloud.snap = NoSnapshot
      <4>1. req'["main"].pc = "reset"
        BY <1>1, <2>1, <2>5, <3>2 DEF Request
      <4> QED
        BY <1>3, <2>3, <3>1, <4>1 DEF MainFree, Asking, Captured, Chosen
    <3>3. CASE cloud.snap # NoSnapshot
      <4>1. /\ req'["main"].pc = "download" /\ req'["main"].snap = cloud.snap
            /\ req'["main"].covered = cloud.covers /\ req'["main"].dev = req["main"].dev
        BY <1>1, <2>1, <2>5, <3>3 DEF Request
      <4>2. /\ req["main"].dev \in Device
            /\ config[req["main"].dev].gate <= req["main"].gate
        BY <1>31, <1>1, <2>1 DEF Decide, At, MainSound, Captured
      <4>3. cloud.snap \in Nat
        BY <3>3, SessionAssumption DEF TypeOK, Cloud, Snapshot, NoSnapshot
      <4>4. cloud.covers \/ req["main"].gate = 0 \/ cloud.snap >= req["main"].gate
        BY <2>1, <2>5, <3>3 DEF Satisfies
      <4>5. config[req["main"].dev].gate <= cloud.snap \/ cloud.covers
        BY <1>7, <4>2, <4>3, <4>4, <1>1
      <4>6. MainSound'
        BY <2>2, <4>1, <4>2, <4>5 DEF MainSound, Asking, Captured, Chosen
      <4>7. GatesSound'
        BY <1>1, <1>7, <2>3 DEF GatesSound, GatesFall
      <4> QED
        BY <3>1, <4>6, <4>7 DEF GateInv
    <3> QED
      BY <3>2, <3>3
  <2> QED
    BY <1>31, <2>4, <2>5 DEF Decide
<1>32. CASE Download(r)
  <2>1. r = "main"
    BY <1>32, <1>2 DEF Download, At, CancelPc
  <2>2. UNCHANGED <<config, memGate, round>>
    BY <1>32 DEF Download
  <2>3. CASE Conclude(r, "error")
    BY <1>6, <2>2, <2>3, SameGates
  <2>4. CASE Go(r, "restore")
    <3>1. /\ req["main"].pc = "download"
          /\ req' = [req EXCEPT !["main"] = [req["main"] EXCEPT !.pc = "restore"]]
      BY <1>32, <2>1, <2>4 DEF Download, At, Go
    <3>2. /\ req'["main"].pc = "restore" /\ req'["main"].dev = req["main"].dev
          /\ req'["main"].gate = req["main"].gate /\ req'["main"].snap = req["main"].snap
          /\ req'["main"].covered = req["main"].covered /\ req'["cancel"] = req["cancel"]
      BY <1>1, <3>1 DEF Request
    <3>3. MainSound'
      BY <1>1, <2>2, <3>1, <3>2 DEF MainSound, Asking, Captured, Chosen
    <3> QED
      BY <1>1, <2>2, <3>2, <3>3 DEF GateInv, CancelSound, GatesSound
  <2> QED
    BY <1>32, <2>3, <2>4 DEF Download
<1>33. CASE Restore(r)
  <2>1. r = "main" /\ Go(r, "lift")
    BY <1>33, <1>2 DEF Restore, At, CancelPc
  <2>2. GatesFall
    BY <1>33, <1>7 DEF Restore, GatesFall, NoRow, NoGates
  <2> QED
    BY <1>4, <2>1, <2>2 DEF Pc, Asking, Captured, Chosen
<1>34. CASE LiftGate(r)
  <2>1. GatesFall
    BY <1>34, <1>7 DEF LiftGate, GatesFall
  <2> QED
    BY <1>34, <1>6, <2>1 DEF LiftGate
<1>35. CASE ResetSession(r)
  <2>1. r = "main" /\ Go(r, "mark")
    BY <1>35, <1>2 DEF ResetSession, At, CancelPc
  <2>2. GatesFall
    BY <1>35 DEF ResetSession, SessionReset, GatesFall, NoRow
  <2> QED
    BY <1>4, <2>1, <2>2 DEF Pc, Asking, Captured, Chosen
<1>36. CASE MarkBootstrapped(r)
  <2>1. GatesFall
    BY <1>36, <1>7 DEF MarkBootstrapped, GatesFall, NoGates
  <2> QED
    BY <1>36, <1>6, <2>1 DEF MarkBootstrapped
<1> QED
  BY <1>10, <1>11, <1>12, <1>13, <1>14, <1>15, <1>16, <1>17, <1>18, <1>19, <1>20,
     <1>21, <1>22, <1>23, <1>24, <1>25, <1>26, <1>27, <1>28, <1>29, <1>30, <1>31,
     <1>32, <1>33, <1>34, <1>35, <1>36 DEF Handler

\* A request that begins at a step without a gate.
LEMMA StartFrame ==
    ASSUME TypeOK, CancelSound, NEW r \in Slot, NEW kind, NEW pc \in Pc,
           pc \notin Asking \union Captured \union Chosen,
           r = "main" \/ pc \in CancelPc,
           Start(r, kind, pc)
    PROVE  CancelSound' /\ MainFree
<1> DEFINE new == [Idle EXCEPT !.kind = kind, !.pc = pc, !.dev = Me,
                               !.agreed = agreed \/ kind = "approve"]
<1>1. req \in [Slot -> Request] /\ "main" \in Slot /\ "cancel" \in Slot
  BY DEF TypeOK, Slot
<1>2. new.pc = pc /\ new.key = 0
  BY DEF Idle
<1> HIDE DEF new
<1>3. req' = [req EXCEPT ![r] = new]
  BY DEF Start, new
<1>4. \A s \in Slot : req'[s] = IF s = r THEN new ELSE req[s]
  BY <1>1, <1>3
<1>5. CASE r = "main"
  BY <1>1, <1>2, <1>4, <1>5 DEF CancelSound, MainFree
<1>6. CASE r = "cancel" /\ pc \in CancelPc
  BY <1>1, <1>2, <1>4, <1>6 DEF CancelSound, MainFree
<1> QED
  BY <1>5, <1>6 DEF Slot

\* Nor does what the user, the other devices and faults do.
LEMMA OtherGates ==
    ASSUME TypeOK, GateInv,
           \/ User \/ Interface \/ Answer \/ Peers \/ StaleCursor \/ Reload
           \/ (\E r \in Slot : RequestFails(r)) \/ Crash \/ UNCHANGED vars
    PROVE  GateInv'
<1> USE DEF local, memory
<1>1. /\ req \in [Slot -> Request] /\ "main" \in Slot /\ "cancel" \in Slot
      /\ CancelSound /\ GatesSound /\ MainSound
  BY DEF TypeOK, Slot, GateInv
<1>2. ASSUME GatesFall, CancelSound', MainFree PROVE GateInv'
  BY <1>2, GatesFrame DEF GateInv
<1>3. ASSUME GatesFall, UNCHANGED req PROVE GateInv'
  <2>1. CancelSound' /\ MainFree
    BY <1>1, <1>3 DEF CancelSound, MainFree
  <2> QED
    BY <1>2, <1>3, <2>1
<1>4. ASSUME GatesFall, NEW kind, NEW pc \in Pc, Start("main", kind, pc),
             pc \notin Asking \union Captured \union Chosen
      PROVE  GateInv'
  BY <1>1, <1>2, <1>4, StartFrame
<1>5. Idle.pc = "idle" /\ Idle.key = 0
  BY DEF Idle
<1>6. ASSUME GatesFall, req' = [s \in Slot |-> Idle] PROVE GateInv'
  <2>1. CancelSound' /\ MainFree
    BY <1>1, <1>5, <1>6 DEF CancelSound, CancelPc, MainFree, Asking, Captured, Chosen
  <2> QED
    BY <1>2, <1>6, <2>1
<1>7. /\ round \in Nat
      /\ config \in [Device -> [row : BOOLEAN, boot : BOOLEAN, gate : Nat]]
      /\ memGate \in [Device -> Nat]
  BY SessionAssumption DEF TypeOK, Gate
<1>8. CASE User
  <2>1. CASE EnableSync
    BY <1>4, <2>1, SameGates DEF EnableSync, Pc, Asking, Captured, Chosen
  <2>2. CASE ReinitializeSync
    BY <1>4, <2>2, SameGates DEF ReinitializeSync, Pc, Asking, Captured, Chosen
  <2>3. CASE ClearSyncData
    BY <1>4, <2>3, SameGates DEF ClearSyncData, Pc, Asking, Captured, Chosen
  <2>4. CASE CancelFlow
    <3>1. CancelSound' /\ MainFree
      BY <1>1, <2>4, StartFrame DEF CancelFlow, Pc, CancelPc, Asking, Captured, Chosen
    <3> QED
      BY <1>2, <2>4, <3>1, SameGates DEF CancelFlow
  <2>5. CASE SignOut
    <3>1. GatesFall
      BY <1>7, <2>5 DEF SignOut, ClearGates, NoGates, GatesFall
    <3> QED
      BY <1>3, <2>5, <3>1 DEF SignOut
  <2>6. CASE BeginPairing
    <3>1. /\ req' = [req EXCEPT !["main"] = [Idle EXCEPT !.kind = "begin", !.pc = "confirm",
                                                         !.dev = Me, !.gate = round + 1]]
          /\ round' = round + 1 /\ UNCHANGED <<config, memGate>>
      BY <2>6 DEF BeginPairing
    <3>2. /\ req'["cancel"] = req["cancel"] /\ req'["main"].pc = "confirm"
          /\ req'["main"].dev = Me /\ req'["main"].gate = round'
      BY <1>1, <3>1 DEF Idle
    <3>3. Me \in Device
      <4>1. SyncState # "fresh"
        BY <2>6 DEF BeginPairing
      <4>2. Me # NoDevice
        BY <4>1 DEF SyncState
      <4> QED
        BY <4>2 DEF TypeOK, Identity, Me
    <3>4. GatesSound'
      BY <1>1, <1>7, <3>1 DEF GatesSound
    <3>5. MainSound'
      BY <3>2, <3>3 DEF MainSound, Asking, Captured, Chosen
    <3> QED
      BY <1>1, <3>2, <3>4, <3>5 DEF GateInv, CancelSound
  <2>7. CASE EnterRows
    BY <1>3, <2>7, SameGates DEF EnterRows
  <2> QED
    BY <1>8, <2>1, <2>2, <2>3, <2>4, <2>5, <2>6, <2>7 DEF User
<1>9. CASE Interface
  <2>1. CASE PollFlow
    BY <1>4, <2>1, SameGates DEF PollFlow, Pc, Asking, Captured, Chosen
  <2>2. CASE CheckOverwrite
    <3>1. GatesFall
      BY <2>2, SameGates DEF CheckOverwrite
    <3>2. CASE UNCHANGED req
      BY <1>3, <3>1, <3>2
    <3>3. CASE req' = [req EXCEPT !["main"] =
                         [Idle EXCEPT !.kind = "reconcile", !.pc = "capture", !.dev = Me,
                                      !.agreed = agreed, !.keep = Me \in approvals']]
      <4>1. req'["cancel"] = req["cancel"] /\ req'["main"].pc = "capture"
        BY <1>1, <3>3 DEF Idle
      <4> QED
        BY <1>1, <1>2, <3>1, <4>1 DEF CancelSound, MainFree, Asking, Captured, Chosen
    <3> QED
      BY <2>2, <3>2, <3>3 DEF CheckOverwrite
  <2> QED
    BY <1>9, <2>1, <2>2 DEF Interface
<1>10. CASE Answer
  <2>1. CASE ApproveOverwrite
    BY <1>4, <2>1, SameGates DEF ApproveOverwrite, Pc, Asking, Captured, Chosen
  <2>2. CASE AllowOverwrite
    BY <1>4, <2>2, SameGates DEF AllowOverwrite, Pc, Asking, Captured, Chosen
  <2>3. CASE RetryPairing
    BY <1>3, <2>3, SameGates DEF RetryPairing
  <2> QED
    BY <1>10, <2>1, <2>2, <2>3 DEF Answer
<1>11. CASE Peers
  BY <1>3, <1>11, SameGates DEF Peers, PeerUploads, PeerPushes, PeerJoins, PeerRemoves
<1>12. CASE StaleCursor
  BY <1>3, <1>12, SameGates DEF StaleCursor
<1>13. CASE Reload
  BY <1>6, <1>13, SameGates DEF Reload
<1>14. ASSUME NEW r \in Slot, RequestFails(r) PROVE GateInv'
  <2>1. GatesFall
    BY <1>14, SameGates DEF RequestFails
  <2>2. Done(r)
    BY <1>14 DEF RequestFails, Conclude
  <2> QED
    BY <1>1, <1>2, <2>1, <2>2, DoneFrame
<1>15. CASE Crash
  <2>1. GatesFall
    BY <1>15 DEF Crash, GatesFall, NoGates
  <2> QED
    BY <1>6, <1>15, <2>1 DEF Crash
<1>16. CASE UNCHANGED vars
  BY <1>3, <1>16, SameGates DEF vars
<1> QED
  BY <1>8, <1>9, <1>10, <1>11, <1>12, <1>13, <1>14, <1>15, <1>16

LEMMA GateInvHolds == Spec => []GateInv
<1>1. Init => GateInv
  BY DEF Init, GateInv, CancelSound, GatesSound, MainSound, Slot, Idle, NoRow, NoGates,
         Asking, Captured, Chosen, CancelPc
<1>2. TypeOK /\ GateInv /\ [Next]_vars => GateInv'
  BY HandlerGates, OtherGates DEF Next
<1> QED
  BY <1>1, <1>2, TypeCorrect, PTL DEF Spec

\* As long as a freshness gate is stored, also across restarts, no snapshot is
\* restored that is older than the gate and did not cover the log, although the
\* decision and the restore are awaits apart (Decide, Download, Restore).
THEOREM GateObeyedHolds == Spec => GateObeyed
<1>1. ASSUME GateInv, NEW r \in Slot, Restore(r)
      PROVE  req[r].snap >= config[req[r].dev].gate \/ req[r].covered
  <2>1. r = "main"
    BY <1>1 DEF Restore, At, GateInv, CancelSound, CancelPc, Slot
  <2> QED
    BY <1>1, <2>1 DEF Restore, At, GateInv, MainSound, Chosen
<1>2. GateInv => \A r \in Slot : Restore(r) => \/ req[r].snap >= config[req[r].dev].gate
                                              \/ req[r].covered
  BY <1>1
<1> QED
  BY <1>2, GateInvHolds, PTL DEF Spec, GateObeyed

-----------------------------------------------------------------------------
(***************************************************************************)
(* The log of a team.  A bootstrapped device that the server still trusts  *)
(* holds a position in the log of the team it belongs to (TeamSound); what *)
(* the request under way must not forget until it stores the position is   *)
(* said by Turn, for its step pc, its device dev and its key, the server   *)
(* cl, the configuration cf, the cursor cu and the device id in secret.    *)
(***************************************************************************)
Vouched == {"save_key", "reset", "mark", "persist", "decide", "download", "restore", "lift"}
Keyless == {"reset_team", "forget", "enroll", "save_identity", "keys", "clear_identity",
            "clear_session"}
Own == {"confirm", "gate_memory", "gate_sqlite", "check_rows", "allow", "capture", "verify"}

Was(cl, d) == cl.trust[d] \in {"trusted", "revoked"}
CanUse(cl, d) == cl.trust[d] \in {"untrusted", "trusted"}

TeamSound ==
    /\ cloud.peer => cloud.keyed
    /\ \A d \in Device :
          /\ cloud.trust[d] = "trusted" => cloud.keyed
          /\ config[d].boot => Was(cloud, d)
          /\ config[d].boot /\ CanUse(cloud, d) => cursor \in {0, cloud.epoch}

Turn(pc, dev, key, cl, cf, cu, id) ==
    /\ pc \notin {"delete_device", "clear_gate"}
    /\ (pc \in Vouched \/ (pc \in {"memory", "sqlite"} /\ key # 0)) =>
          dev \in Device /\ Was(cl, dev)
    /\ pc \in Keyless => key = 0
    /\ pc \in {"save_identity", "keys"} =>
          dev \in Device /\ (~cl.keyed => ~cf[dev].boot)
    /\ pc = "confirm" => cl.keyed
    /\ pc \in Own => id \in {dev, NoDevice}
    /\ pc \in {"download", "restore"} /\ CanUse(cl, dev) => key = cl.epoch
    /\ pc = "mark" => cu = 0

TurnSound ==
    Turn(req["main"].pc, req["main"].dev, req["main"].key, cloud, config, cursor, Me)

TeamInv == TeamSound /\ TurnSound

\* What others do to the server: devices are revoked, keys are made once, and an
\* epoch that begins where there were keys begins without the old devices.
CloudCalm(cl, cl2) ==
    /\ \A d \in Device : cl2.trust[d] \in {cl.trust[d], "revoked"}
    /\ cl.keyed => cl2.keyed
    /\ cl2.peer => cl2.keyed
    /\ cl2.epoch = cl.epoch \/ ~cl.keyed \/ (\A d \in Device : ~CanUse(cl2, d))

\* A step after which no device is bootstrapped, and no position held, that was not
\* before it.
Calm ==
    /\ CloudCalm(cloud, cloud')
    /\ \A d \in Device : config'[d].boot => config[d].boot
    /\ cursor' \in {cursor, 0}
    /\ Me' \in {Me, NoDevice}

\* Whatever others do, the request keeps what it relies on.
LEMMA TurnFrame ==
    ASSUME NEW pc, NEW dev, NEW key, NEW cl, NEW cl2, NEW cf, NEW cf2, NEW cu, NEW cu2,
           NEW id, NEW id2, Turn(pc, dev, key, cl, cf, cu, id), CloudCalm(cl, cl2),
           \A d \in Device : cl.trust[d] = "trusted" => cl.keyed,
           \A d \in Device : cf2[d].boot => cf[d].boot,
           cu2 \in {cu, 0}, id2 \in {id, NoDevice}
    PROVE  Turn(pc, dev, key, cl2, cf2, cu2, id2)
<1>1. /\ pc \notin {"delete_device", "clear_gate"}
      /\ pc \in Keyless => key = 0
      /\ pc = "confirm" => cl2.keyed
      /\ pc \in Own => id2 \in {dev, NoDevice}
      /\ pc = "mark" => cu2 = 0
  BY DEF Turn, CloudCalm
<1>2. (pc \in Vouched \/ (pc \in {"memory", "sqlite"} /\ key # 0)) =>
          dev \in Device /\ Was(cl2, dev)
  BY DEF Turn, CloudCalm, Was
<1>3. pc \in {"save_identity", "keys"} =>
          dev \in Device /\ (~cl2.keyed => ~cf2[dev].boot)
  BY DEF Turn, CloudCalm
<1>4. ASSUME pc \in {"download", "restore"}, CanUse(cl2, dev) PROVE key = cl2.epoch
  <2>1. dev \in Device /\ Was(cl, dev)
    BY <1>4 DEF Turn, Vouched
  <2>2. cl.trust[dev] = "trusted"
    BY <1>4, <2>1 DEF CloudCalm, CanUse, Was
  <2>3. cl2.epoch = cl.epoch
    BY <1>4, <2>1, <2>2 DEF CloudCalm
  <2> QED
    BY <1>4, <2>2, <2>3 DEF Turn, CanUse
<1> QED
  BY <1>1, <1>2, <1>3, <1>4 DEF Turn

LEMMA TeamFrame ==
    ASSUME TeamSound, Calm
    PROVE  TeamSound'
<1>1. cloud'.peer => cloud'.keyed
  BY DEF Calm, CloudCalm
<1>2. ASSUME NEW d \in Device
      PROVE  /\ cloud'.trust[d] = "trusted" => cloud'.keyed
             /\ config'[d].boot => Was(cloud', d)
  BY <1>2 DEF TeamSound, Calm, CloudCalm, Was
<1>3. ASSUME NEW d \in Device, config'[d].boot, CanUse(cloud', d)
      PROVE  cursor' \in {0, cloud'.epoch}
  <2>1. cloud.trust[d] = "trusted" /\ CanUse(cloud, d)
    BY <1>3 DEF TeamSound, Calm, CloudCalm, Was, CanUse
  <2>2. cloud'.epoch = cloud.epoch
    BY <1>3, <2>1 DEF TeamSound, Calm, CloudCalm
  <2> QED
    BY <1>3, <2>1, <2>2 DEF TeamSound, Calm
<1> QED
  BY <1>1, <1>2, <1>3 DEF TeamSound

\* A calm step in which the request keeps its turn, or moves to a step whose turn
\* it is already.
LEMMA CalmFrame ==
    ASSUME TeamInv, Calm, NEW pc, NEW dev, NEW key,
           Turn(pc, dev, key, cloud, config, cursor, Me),
           req'["main"].pc = pc, req'["main"].dev = dev, req'["main"].key = key
    PROVE  TeamInv'
<1>1. TeamSound'
  BY TeamFrame DEF TeamInv
<1>2. \A d \in Device : cloud.trust[d] = "trusted" => cloud.keyed
  BY DEF TeamInv, TeamSound
<1>3. Turn(pc, dev, key, cloud', config', cursor', Me')
  BY <1>2, TurnFrame DEF Calm
<1> QED
  BY <1>1, <1>3 DEF TeamInv, TurnSound

LEMMA CalmStay ==
    ASSUME TeamInv, Calm, req'["main"] = req["main"]
    PROVE  TeamInv'
BY CalmFrame DEF TeamInv, TurnSound

\* An idle request relies on nothing.
LEMMA CalmIdle ==
    ASSUME TeamInv, Calm, req'["main"] = Idle
    PROVE  TeamInv'
<1>1. Turn("idle", NoDevice, 0, cloud, config, cursor, Me)
  BY DEF Turn, Vouched, Keyless, Own
<1> QED
  BY <1>1, CalmFrame DEF Idle

LEMMA CalmDone ==
    ASSUME TypeOK, TeamInv, Calm, NEW r \in Slot, Done(r)
    PROVE  TeamInv'
<1>1. req \in [Slot -> Request] /\ Slot = {"main", "cancel"}
  BY DEF TypeOK, Slot
<1>2. CASE r = "main"
  BY <1>1, <1>2, CalmIdle DEF Done
<1>3. CASE r # "main"
  BY <1>1, <1>3, CalmStay DEF Done
<1> QED
  BY <1>2, <1>3

LEMMA CalmGo ==
    ASSUME TypeOK, TeamInv, Calm, NEW r \in Slot, NEW pc \in Pc, Go(r, pc),
           r = "main" => Turn(pc, req["main"].dev, req["main"].key, cloud, config, cursor, Me)
    PROVE  TeamInv'
<1>1. req \in [Slot -> Request] /\ "main" \in Slot
  BY DEF TypeOK, Slot
<1>2. CASE r = "main"
  <2>1. req' = [req EXCEPT !["main"] = [req["main"] EXCEPT !.pc = pc]]
    BY <1>2 DEF Go
  <2>2. /\ req'["main"].pc = pc /\ req'["main"].dev = req["main"].dev
        /\ req'["main"].key = req["main"].key
    BY <1>1, <2>1 DEF Request
  <2> QED
    BY <1>2, <2>2, CalmFrame
<1>3. CASE r # "main"
  BY <1>1, <1>3, CalmStay DEF Go
<1> QED
  BY <1>2, <1>3

\* A request that starts.
LEMMA CalmStart ==
    ASSUME TypeOK, TeamInv, Calm, NEW kind, NEW pc \in Pc, Start("main", kind, pc),
           Turn(pc, Me, 0, cloud, config, cursor, Me)
    PROVE  TeamInv'
<1>1. req \in [Slot -> Request] /\ "main" \in Slot
  BY DEF TypeOK, Slot
<1>2. req'["main"].pc = pc /\ req'["main"].dev = Me /\ req'["main"].key = 0
  BY <1>1 DEF Start, Idle
<1> QED
  BY <1>2, CalmFrame

LEMMA SameCloud ==
    ASSUME TeamInv, UNCHANGED cloud
    PROVE  CloudCalm(cloud, cloud')
BY DEF TeamInv, TeamSound, CloudCalm

LEMMA SameTeam ==
    ASSUME TeamInv, UNCHANGED <<cloud, config, cursor, secret>>
    PROVE  Calm
BY SameCloud DEF Calm, Me

\* No step of a handler takes a device on in a former team's log.
LEMMA HandlerTeam ==
    ASSUME TypeOK, GateInv, TeamInv, NEW r \in Slot, Handler(r)
    PROVE  TeamInv'
<1> USE DEF local, memory
<1> DEFINE q == req["main"]
           Holds(pc) == Turn(pc, q.dev, q.key, cloud, config, cursor, Me)
<1>1. /\ req \in [Slot -> Request] /\ "main" \in Slot /\ "cancel" \in Slot
      /\ Slot = {"main", "cancel"} /\ CancelSound /\ MainSound
      /\ TeamSound /\ Holds(q.pc) /\ q \in Request
  BY DEF TypeOK, Slot, GateInv, TeamInv, TurnSound
<1>2. r = "main" \/ req[r].pc \in CancelPc
  BY <1>1 DEF CancelSound
<1>3. /\ config \in [Device -> [row : BOOLEAN, boot : BOOLEAN, gate : Gate]]
      /\ cloud \in Cloud /\ secret \in Identity
  BY DEF TypeOK
<1>4. ASSUME NEW pc \in Pc, Calm, Go(r, pc), r = "main" => Holds(pc) PROVE TeamInv'
  BY <1>4, CalmGo
<1>5. ASSUME Calm, Done(r) PROVE TeamInv'
  BY <1>5, CalmDone
<1>6. ASSUME Calm, NEW outcome, Conclude(r, outcome) PROVE TeamInv'
  BY <1>5, <1>6 DEF Conclude
<1>7. r = "main" => Holds(req[r].pc)
  BY <1>1
<1> HIDE DEF Holds
<1>10. CASE ResetTeam(r)
  <2>1. r = "main"
    BY <1>10, <1>2 DEF ResetTeam, At, CancelPc
  <2>2. /\ \A d \in Device : cloud'.trust[d] = IF cloud.trust[d] = "absent" THEN "absent"
                                               ELSE "revoked"
        /\ ~cloud'.peer
        /\ UNCHANGED <<config, cursor>>
    BY <1>10, <1>3 DEF ResetTeam, Revoked, Cloud
  <2>3. TeamSound'
    BY <1>1, <2>2 DEF TeamSound, Was, CanUse
  <2>4. q.key = 0
    BY <1>7, <1>10, <2>1 DEF ResetTeam, At, Holds, Turn, Keyless
  <2>5. req'["main"].pc = "forget" /\ req'["main"].key = 0
    BY <1>1, <1>10, <2>1, <2>4 DEF ResetTeam, Go, Request
  <2>6. TurnSound'
    BY <2>5 DEF TurnSound, Turn, Vouched, Own
  <2> QED
    BY <2>3, <2>6 DEF TeamInv
<1>11. CASE ForgetIdentity(r)
  <2>1. r = "main"
    BY <1>11, <1>2 DEF ForgetIdentity, At, CancelPc
  <2>2. Holds("enroll")
    BY <1>7, <1>11, <2>1 DEF ForgetIdentity, At, Holds, Turn, Keyless, Vouched, Own
  <2>3. Calm
    BY <1>11, SameCloud DEF ForgetIdentity, Calm, Me, NoIdentity
  <2> QED
    BY <1>4, <1>11, <2>2, <2>3 DEF ForgetIdentity, Pc
<1>12. CASE Enroll(r)
  <2>1. r = "main"
    BY <1>12, <1>2 DEF Enroll, At, CancelPc
  <2>2. PICK d \in Device :
            /\ IF \E k \in Device : Usable(k) THEN Usable(d) ELSE cloud.trust[d] = "absent"
            /\ req' = [req EXCEPT !["main"].pc = "save_identity", !["main"].dev = d]
            /\ cloud' = [cloud EXCEPT !.trust[d] = IF Usable(d) THEN @ ELSE "untrusted"]
    BY <1>12, <2>1 DEF Enroll
  <2>3. UNCHANGED <<config, cursor, secret>>
    BY <1>12 DEF Enroll
  <2>4. /\ \A k \in Device : k # d => cloud'.trust[k] = cloud.trust[k]
        /\ cloud'.trust[d] = IF Usable(d) THEN cloud.trust[d] ELSE "untrusted"
        /\ cloud'.peer = cloud.peer /\ cloud'.keyed = cloud.keyed
        /\ cloud'.epoch = cloud.epoch
    BY <1>3, <2>2 DEF Cloud
  <2>5. Usable(d) \/ cloud.trust[d] = "absent"
    BY <2>2
  <2>6. TeamSound'
    <3>1. CASE Usable(d)
      BY <1>1, <2>3, <2>4, <3>1 DEF TeamSound, Was, CanUse, Usable
    <3>2. CASE cloud.trust[d] = "absent"
      <4>1. ~config[d].boot
        BY <1>1, <3>2 DEF TeamSound, Was
      <4>2. cloud'.trust[d] = "untrusted"
        BY <2>4, <3>2 DEF Usable
      <4> QED
        BY <1>1, <2>3, <2>4, <4>1, <4>2 DEF TeamSound, Was, CanUse
    <3> QED
      BY <2>5, <3>1, <3>2
  <2>7. q.key = 0
    BY <1>7, <1>12, <2>1 DEF Enroll, At, Holds, Turn, Keyless
  <2>8. /\ req'["main"].pc = "save_identity" /\ req'["main"].dev = d
        /\ req'["main"].key = 0
    BY <1>1, <2>2, <2>7 DEF Request
  <2>9. ~cloud'.keyed => ~config'[d].boot
    BY <1>1, <2>3, <2>4, <2>5 DEF TeamSound, Was, Usable
  <2>10. TurnSound'
    BY <2>8, <2>9 DEF TurnSound, Turn, Vouched, Own
  <2> QED
    BY <2>6, <2>10 DEF TeamInv
<1>13. CASE SaveIdentity(r)
  <2>1. r = "main"
    BY <1>13, <1>2 DEF SaveIdentity, At, CancelPc
  <2>2. /\ q.key = 0 /\ q.dev \in Device
        /\ ~cloud.keyed => ~config[q.dev].boot
    BY <1>7, <1>13, <2>1 DEF SaveIdentity, At, Holds, Turn, Keyless
  <2>3. UNCHANGED <<cloud, config, cursor>>
    BY <1>13 DEF SaveIdentity
  <2>4. PICK pc \in {"memory", "keys"} : Go(r, pc)
    BY <1>13 DEF SaveIdentity
  <2>5. /\ req'["main"].pc = pc /\ req'["main"].dev = q.dev
        /\ req'["main"].key = 0
    BY <1>1, <2>1, <2>2, <2>4 DEF Go, Request
  <2>6. TeamSound'
    BY <1>1, <2>3 DEF TeamSound
  <2>7. TurnSound'
    BY <2>2, <2>3, <2>5 DEF TurnSound, Turn, Vouched, Own
  <2> QED
    BY <2>6, <2>7 DEF TeamInv
<1>14. CASE InitializeKeys(r)
  <2>1. r = "main" /\ req[r].pc = "keys"
    BY <1>14, <1>2 DEF InitializeKeys, At, CancelPc
  <2>2. /\ q.key = 0 /\ q.dev \in Device
        /\ ~cloud.keyed => ~config[q.dev].boot
    BY <1>7, <2>1 DEF Holds, Turn, Keyless
  <2>3. UNCHANGED <<config, cursor, secret>>
    BY <1>14 DEF InitializeKeys
  <2>4. CASE UNCHANGED cloud /\ Go(r, "memory")
    <3>1. Holds("memory")
      BY <2>2 DEF Holds, Turn, Vouched, Own
    <3> QED
      BY <1>4, <2>3, <2>4, <3>1, SameTeam DEF Pc
  <2>5. CASE /\ ~cloud.keyed
             /\ cloud' = [cloud EXCEPT !.epoch = @ + 1, !.keyed = TRUE,
                                       !.trust[q.dev] = "trusted"]
             /\ req' = [req EXCEPT ![r].pc = "save_key", ![r].key = cloud.epoch + 1]
    <3>1. /\ cloud'.keyed
          /\ \A d \in Device : d # q.dev => cloud'.trust[d] = cloud.trust[d]
          /\ cloud'.trust[q.dev] = "trusted"
      BY <1>3, <2>2, <2>5 DEF Cloud
    <3>2. ASSUME NEW d \in Device, d # q.dev, config[d].boot PROVE ~CanUse(cloud', d)
      BY <1>1, <2>5, <3>1, <3>2 DEF TeamSound, Was, CanUse
    <3>3. TeamSound'
      BY <1>1, <2>2, <2>3, <2>5, <3>1, <3>2 DEF TeamSound, Was
    <3>4. /\ req'["main"].pc = "save_key" /\ req'["main"].dev = q.dev
      BY <1>1, <2>1, <2>5 DEF Request
    <3>5. TurnSound'
      BY <2>2, <3>1, <3>4 DEF TurnSound, Turn, Keyless, Own, Was
    <3> QED
      BY <3>3, <3>5 DEF TeamInv
  <2> QED
    BY <1>14, <2>1, <2>4, <2>5 DEF InitializeKeys
<1>15. CASE SaveKey(r)
  <2>1. r = "main"
    BY <1>15, <1>2 DEF SaveKey, At, CancelPc
  <2>2. Holds("memory")
    BY <1>7, <1>15, <2>1 DEF SaveKey, At, Holds, Turn, Vouched, Keyless, Own
  <2>3. Me' = Me
    BY <1>3, <1>15 DEF SaveKey, Me, Identity
  <2>4. Calm
    BY <1>15, <2>3, SameCloud DEF SaveKey, Calm
  <2> QED
    BY <1>4, <1>15, <2>2, <2>4 DEF SaveKey, Pc
<1>16. CASE ForgetGates(r)
  <2>1. ASSUME r = "main" PROVE Holds("sqlite")
    BY <1>7, <1>16, <2>1 DEF ForgetGates, At, Holds, Turn, Vouched, Keyless, Own
  <2> QED
    BY <1>4, <1>16, <2>1, SameTeam DEF ForgetGates, Pc
<1>17. CASE ForgetStoredGates(r)
  <2>1. \A d \in Device : config'[d].boot => config[d].boot
    BY <1>3, <1>17 DEF ForgetStoredGates, ClearGates
  <2>2. Calm
    BY <1>17, <2>1, SameCloud DEF ForgetStoredGates, Calm, Me
  <2>3. CASE req[r].kind = "cancel"
    <3>1. req' = [req EXCEPT ![r] = [Idle EXCEPT !.kind = "clear", !.pc = "clear_identity"]]
      BY <1>17, <2>3 DEF ForgetStoredGates
    <3>2. CASE r = "main"
      <4>1. /\ req'["main"].pc = "clear_identity" /\ req'["main"].dev = NoDevice
            /\ req'["main"].key = 0
        BY <1>1, <3>1, <3>2 DEF Idle
      <4>2. Turn("clear_identity", NoDevice, 0, cloud, config, cursor, Me)
        BY DEF Turn, Vouched, Own
      <4> QED
        BY <2>2, <4>1, <4>2, CalmFrame
    <3>3. CASE r # "main"
      BY <1>1, <2>2, <3>1, <3>3, CalmStay
    <3> QED
      BY <3>2, <3>3
  <2>4. CASE req[r].kind # "cancel" /\ req[r].key # 0
    <3>1. Go(r, "reset")
      BY <1>17, <2>4 DEF ForgetStoredGates
    <3>2. ASSUME r = "main" PROVE Holds("reset")
      BY <1>7, <1>17, <2>4, <3>2 DEF ForgetStoredGates, At, Holds, Turn, Keyless, Own
    <3> QED
      BY <1>4, <2>2, <3>1, <3>2 DEF Pc
  <2>5. CASE req[r].kind # "cancel" /\ ~(req[r].key # 0)
    <3>1. Done(r)
      BY <1>17, <2>5 DEF ForgetStoredGates
    <3> QED
      BY <1>5, <2>2, <3>1
  <2> QED
    BY <2>3, <2>4, <2>5
<1>18. CASE ClearIdentity(r)
  <2>1. Calm
    BY <1>18, SameCloud DEF ClearIdentity, Calm, Me, NoIdentity
  <2>2. ASSUME r = "main" PROVE Holds("clear_session")
    BY <1>7, <1>18, <2>2 DEF ClearIdentity, At, Holds, Turn, Keyless, Vouched, Own
  <2> QED
    BY <1>4, <1>18, <2>1, <2>2 DEF ClearIdentity, Pc
<1>19. CASE ClearSession(r)
  <2>1. Calm
    BY <1>19, SameCloud DEF ClearSession, SessionReset, NoRow, Calm, Me
  <2>2. ASSUME r = "main" PROVE Holds("memory")
    BY <1>7, <1>19, <2>2 DEF ClearSession, At, Holds, Turn, Keyless, Vouched, Own
  <2> QED
    BY <1>4, <1>19, <2>1, <2>2 DEF ClearSession, Pc
<1>20. CASE DeleteDevice(r)
  <2>1. r # "main"
    BY <1>7, <1>20 DEF DeleteDevice, At, Holds, Turn
  <2>2. \/ cloud' = [cloud EXCEPT !.trust[req[r].dev] = "revoked"]
        \/ cloud' = cloud
    BY <1>20 DEF DeleteDevice
  <2>3. CloudCalm(cloud, cloud')
    BY <1>1, <1>3, <2>2 DEF Cloud, CloudCalm, TeamSound
  <2>4. Calm
    BY <1>20, <2>3 DEF DeleteDevice, Calm, Me
  <2> QED
    BY <1>4, <1>20, <2>1, <2>4 DEF DeleteDevice, Pc
<1>21. CASE ClearGate(r)
  <2>1. r # "main"
    BY <1>7, <1>21 DEF ClearGate, At, Holds, Turn
  <2>2. \A d \in Device : config'[d].boot => config[d].boot
    BY <1>3, <1>21 DEF ClearGate
  <2>3. Calm
    BY <1>21, <2>2, SameCloud DEF ClearGate, Calm, Me
  <2> QED
    BY <1>4, <1>21, <2>1, <2>3 DEF ClearGate, Pc
<1>22. CASE Confirm(r)
  <2>1. r = "main" /\ q.pc = "confirm" /\ Usable(q.dev)
    BY <1>22, <1>2 DEF Confirm, At, CancelPc
  <2>2. q.dev \in Device
    BY <1>1, <2>1 DEF MainSound, Asking
  <2>3. cloud.keyed /\ Me \in {q.dev, NoDevice}
    BY <1>7, <2>1 DEF Holds, Turn, Own
  <2>4. cloud' = [cloud EXCEPT !.trust[q.dev] = "trusted"]
        /\ UNCHANGED <<config, cursor, secret>>
    BY <1>22, <2>1 DEF Confirm
  <2>5. /\ \A d \in Device : d # q.dev => cloud'.trust[d] = cloud.trust[d]
        /\ cloud'.trust[q.dev] = "trusted"
        /\ cloud'.keyed /\ cloud'.epoch = cloud.epoch
    BY <1>3, <2>2, <2>3, <2>4 DEF Cloud
  <2>6. TeamSound'
    BY <1>1, <2>1, <2>2, <2>4, <2>5 DEF TeamSound, Was, CanUse, Usable
  <2>7. req'["main"].pc = "gate_memory" /\ req'["main"].dev = q.dev
    BY <1>1, <1>22, <2>1 DEF Confirm, Go, Request
  <2>8. Me' \in {q.dev, NoDevice}
    BY <2>3, <2>4 DEF Me
  <2>9. TurnSound'
    BY <2>7, <2>8 DEF TurnSound, Turn, Vouched, Keyless
  <2> QED
    BY <2>6, <2>9 DEF TeamInv
<1>23. CASE ConfirmRefused(r)
  BY <1>5, <1>23, SameTeam DEF ConfirmRefused
<1>24. CASE SetGate(r)
  <2>1. ASSUME r = "main" PROVE Holds("gate_sqlite")
    BY <1>7, <1>24, <2>1 DEF SetGate, At, Holds, Turn, Keyless, Vouched, Own
  <2> QED
    BY <1>4, <1>24, <2>1, SameTeam DEF SetGate, Pc
<1>25. CASE StoreGate(r)
  <2>1. ASSUME r = "main" PROVE Holds("check_rows")
    BY <1>7, <1>25, <2>1 DEF StoreGate, At, Holds, Turn, Keyless, Vouched, Own
  <2>2. \A d \in Device : config'[d].boot => config[d].boot
    BY <1>3, <1>25 DEF StoreGate
  <2>3. Calm
    BY <1>25, <2>2, SameCloud DEF StoreGate, Calm, Me
  <2> QED
    BY <1>4, <1>25, <2>1, <2>3 DEF StoreGate, Pc
<1>26. CASE CheckRows(r)
  <2>1. ASSUME r = "main" PROVE Holds("capture")
    BY <1>7, <1>26, <2>1 DEF CheckRows, At, Holds, Turn, Keyless, Vouched, Own
  <2>2. Calm /\ (Done(r) \/ Go(r, "capture"))
    BY <1>26, SameTeam DEF CheckRows
  <2> QED
    BY <1>4, <1>5, <2>1, <2>2 DEF Pc
<1>27. CASE KeepApproval(r)
  <2>1. r = "main"
    BY <1>27, <1>2 DEF KeepApproval, At, CancelPc
  <2>2. Holds("capture")
    BY <1>7, <1>27, <2>1 DEF KeepApproval, At, Holds, Turn, Keyless, Vouched, Own
  <2>3. req' = [req EXCEPT !["main"].pc = "capture", !["main"].keep = TRUE]
    BY <1>27, <2>1 DEF KeepApproval
  <2>4. /\ req'["main"].pc = "capture" /\ req'["main"].dev = q.dev
        /\ req'["main"].key = q.key
    BY <1>1, <2>3 DEF Request
  <2> QED
    BY <1>27, <2>2, <2>4, CalmFrame, SameTeam DEF KeepApproval, Holds
<1>28. CASE CaptureGate(r)
  <2>1. r = "main"
    BY <1>28, <1>2 DEF CaptureGate, At, CancelPc
  <2>2. Calm
    BY <1>28, SameTeam DEF CaptureGate
  <2>3. CASE Conclude(r, "error")
    BY <1>6, <2>2, <2>3
  <2> DEFINE gate == IF memGate[q.dev] # 0 THEN memGate[q.dev] ELSE config[q.dev].gate
  <2>4. CASE req' = [req EXCEPT !["main"].pc = "verify", !["main"].gate = gate]
    <3> HIDE DEF gate
    <3>1. /\ req'["main"].pc = "verify" /\ req'["main"].dev = q.dev
          /\ req'["main"].key = q.key
      BY <1>1, <2>4 DEF Request
    <3>2. Holds("verify")
      BY <1>7, <1>28, <2>1 DEF CaptureGate, At, Holds, Turn, Keyless, Vouched, Own
    <3> QED
      BY <2>2, <3>1, <3>2, CalmFrame DEF Holds
  <2> QED
    BY <1>28, <2>1, <2>3, <2>4 DEF CaptureGate
<1>29. CASE Verify(r)
  <2>1. r = "main" /\ q.pc = "verify"
    BY <1>29, <1>2 DEF Verify, At, CancelPc
  <2>2. Calm
    BY <1>29, SameTeam DEF Verify
  <2>3. CASE Conclude(r, "not_ready")
    BY <1>6, <2>2, <2>3
  <2>4. CASE SyncState = "ready" /\ Go(r, "persist")
    <3>1. Me # NoDevice /\ cloud.trust[Me] = "trusted"
      BY <2>4 DEF SyncState
    <3>2. Me = q.dev
      BY <1>7, <2>1, <3>1 DEF Holds, Turn, Own
    <3>3. q.dev \in Device
      BY <1>1, <2>1 DEF MainSound, Captured
    <3>4. Holds("persist")
      BY <3>1, <3>2, <3>3 DEF Holds, Turn, Keyless, Own, Was
    <3> QED
      BY <1>4, <2>2, <2>4, <3>4 DEF Pc
  <2> QED
    BY <1>29, <2>3, <2>4 DEF Verify
<1>30. CASE PersistConfig(r)
  <2>1. ASSUME r = "main" PROVE Holds("decide")
    BY <1>7, <1>30, <2>1 DEF PersistConfig, At, Holds, Turn, Keyless, Vouched, Own
  <2>2. \A d \in Device : config'[d].boot => config[d].boot
    BY <1>3, <1>30 DEF PersistConfig
  <2>3. Calm
    BY <1>30, <2>2, SameCloud DEF PersistConfig, Calm, Me
  <2> QED
    BY <1>4, <1>30, <2>1, <2>3 DEF PersistConfig, Pc
<1>31. CASE Decide(r)
  <2>1. r = "main" /\ q.pc = "decide"
    BY <1>31, <1>2 DEF Decide, At, CancelPc
  <2>2. Calm
    BY <1>31, SameTeam DEF Decide
  <2>3. ASSUME NEW outcome, Conclude(r, outcome) PROVE TeamInv'
    BY <1>6, <2>2, <2>3
  <2>4. q.dev \in Device /\ Was(cloud, q.dev)
    BY <1>7, <2>1 DEF Holds, Turn, Vouched
  <2>5. ASSUME NEW pc \in {"reset", "download"},
               req' = [req EXCEPT !["main"].pc = pc, !["main"].snap = cloud.snap,
                                  !["main"].covered = cloud.covers,
                                  !["main"].key = cloud.epoch]
        PROVE  TeamInv'
    <3>1. /\ req'["main"].pc = pc /\ req'["main"].dev = q.dev
          /\ req'["main"].key = cloud.epoch
      BY <1>1, <2>5 DEF Request
    <3>2. Turn(pc, q.dev, cloud.epoch, cloud, config, cursor, Me)
      BY <2>4 DEF Turn, Keyless, Own
    <3> QED
      BY <2>2, <3>1, <3>2, CalmFrame
  <2>6. \/ Conclude(r, "error") \/ Conclude(r, "skipped") \/ Conclude(r, "requested")
        \/ req' = [req EXCEPT ![r].pc = IF cloud.snap = NoSnapshot THEN "reset" ELSE "download",
                              ![r].snap = cloud.snap, ![r].covered = cloud.covers,
                              ![r].key = cloud.epoch]
    BY <1>31 DEF Decide
  <2> QED
    BY <2>1, <2>3, <2>5, <2>6
<1>32. CASE Download(r)
  <2>1. ASSUME r = "main" PROVE Holds("restore")
    BY <1>7, <1>32, <2>1 DEF Download, At, Holds, Turn, Keyless, Vouched, Own
  <2>2. Calm /\ (Go(r, "restore") \/ Conclude(r, "error"))
    BY <1>32, SameTeam DEF Download
  <2> QED
    BY <1>4, <1>6, <2>1, <2>2 DEF Pc
<1>33. CASE Restore(r)
  <2>0. At(r, "restore") /\ Go(r, "lift") /\ cursor' = req[r].key /\ cloud' = cloud
    BY <1>33, Zenon DEF Restore
  <2>1. r = "main" /\ q.pc = "restore"
    BY <2>0, <1>2 DEF At, CancelPc
  <2>2. /\ q.dev \in Device /\ Was(cloud, q.dev)
        /\ CanUse(cloud, q.dev) => q.key = cloud.epoch
    BY <1>7, <2>1 DEF Holds, Turn, Vouched
  <2>3. ASSUME NEW d \in Device, d # q.dev PROVE ~config'[d].boot
    <3>1. config'[d] = NoRow
      BY <1>33, <2>1, <2>3, Zenon DEF Restore
    <3> QED
      BY <3>1 DEF NoRow
  <2>4. TeamSound'
    BY <1>1, <2>0, <2>1, <2>2, <2>3 DEF TeamSound
  <2>5. req'["main"].pc = "lift" /\ req'["main"].dev = q.dev
    BY <1>1, <2>0, <2>1 DEF Go, Request
  <2>6. TurnSound'
    BY <2>0, <2>2, <2>5 DEF TurnSound, Turn, Keyless, Own, Was
  <2> QED
    BY <2>4, <2>6 DEF TeamInv
<1>34. CASE LiftGate(r)
  <2>1. \A d \in Device : config'[d].boot => config[d].boot
    BY <1>3, <1>34 DEF LiftGate
  <2>2. Calm
    BY <1>34, <2>1, SameCloud DEF LiftGate, Calm, Me
  <2> QED
    BY <1>6, <1>34, <2>2 DEF LiftGate
<1>35. CASE ResetSession(r)
  <2>1. r = "main" /\ q.pc = "reset"
    BY <1>35, <1>2 DEF ResetSession, At, CancelPc
  <2>2. q.dev \in Device /\ Was(cloud, q.dev)
    BY <1>7, <2>1 DEF Holds, Turn, Vouched
  <2>3. cursor' = 0 /\ UNCHANGED cloud /\ Calm
    BY <1>35, SameCloud DEF ResetSession, SessionReset, NoRow, Calm, Me
  <2>4. TeamSound'
    BY <1>1, <2>3, TeamFrame
  <2>5. req'["main"].pc = "mark" /\ req'["main"].dev = q.dev
    BY <1>1, <1>35, <2>1 DEF ResetSession, Go, Request
  <2>6. TurnSound'
    BY <2>2, <2>3, <2>5 DEF TurnSound, Turn, Keyless, Own
  <2> QED
    BY <2>4, <2>6 DEF TeamInv
<1>36. CASE MarkBootstrapped(r)
  <2>1. r = "main" /\ q.pc = "mark"
    BY <1>36, <1>2 DEF MarkBootstrapped, At, CancelPc
  <2>2. q.dev \in Device /\ Was(cloud, q.dev) /\ cursor = 0
    BY <1>7, <2>1 DEF Holds, Turn, Vouched
  <2>3. UNCHANGED <<cloud, cursor>>
        /\ \A d \in Device : d # q.dev => config'[d] = config[d]
    BY <1>3, <1>36, <2>1 DEF MarkBootstrapped
  <2>4. TeamSound'
    BY <1>1, <2>2, <2>3 DEF TeamSound
  <2>5. req'["main"].pc = "idle"
    BY <1>1, <1>36, <2>1 DEF MarkBootstrapped, Conclude, Done, Idle
  <2>6. TurnSound'
    BY <2>5 DEF TurnSound, Turn, Vouched, Keyless, Own
  <2> QED
    BY <2>4, <2>6 DEF TeamInv
<1> QED
  BY <1>10, <1>11, <1>12, <1>13, <1>14, <1>15, <1>16, <1>17, <1>18, <1>19, <1>20, <1>21,
     <1>22, <1>23, <1>24, <1>25, <1>26, <1>27, <1>28, <1>29, <1>30, <1>31, <1>32, <1>33,
     <1>34, <1>35, <1>36 DEF Handler

LEMMA OtherTeam ==
    ASSUME TypeOK, GateInv, TeamInv,
           \/ User \/ Interface \/ Answer \/ Peers \/ StaleCursor \/ Reload
           \/ (\E r \in Slot : RequestFails(r)) \/ Crash \/ UNCHANGED vars
    PROVE  TeamInv'
<1> USE DEF local, memory
<1>1. /\ req \in [Slot -> Request] /\ "main" \in Slot /\ "cancel" \in Slot
      /\ TeamSound /\ cloud \in Cloud /\ secret \in Identity
      /\ config \in [Device -> [row : BOOLEAN, boot : BOOLEAN, gate : Gate]]
  BY DEF TypeOK, Slot, TeamInv
<1>2. ASSUME Calm, UNCHANGED req PROVE TeamInv'
  BY <1>2, CalmStay
<1>3. ASSUME Calm, NEW kind, NEW pc \in Pc, Start("main", kind, pc),
             pc \in {"enroll", "reset_team", "clear_identity", "capture", "allow"}
      PROVE  TeamInv'
  <2>1. Turn(pc, Me, 0, cloud, config, cursor, Me)
    BY <1>3 DEF Turn, Vouched, Keyless, Own
  <2> QED
    BY <1>3, <2>1, CalmStart
<1>4. ASSUME Calm, req' = [s \in Slot |-> Idle] PROVE TeamInv'
  BY <1>1, <1>4, CalmIdle
<1>5. CASE User
  <2>1. CASE EnableSync
    BY <1>3, <2>1, SameTeam DEF EnableSync, Pc
  <2>2. CASE ReinitializeSync
    BY <1>3, <2>2, SameTeam DEF ReinitializeSync, Pc
  <2>3. CASE ClearSyncData
    BY <1>3, <2>3, SameTeam DEF ClearSyncData, Pc
  <2>4. CASE CancelFlow
    <3>1. req'["main"] = req["main"]
      BY <1>1, <2>4 DEF CancelFlow, Start
    <3> QED
      BY <2>4, <3>1, CalmStay, SameTeam DEF CancelFlow
  <2>5. CASE SignOut
    <3>1. \A d \in Device : config'[d].boot => config[d].boot
      BY <1>1, <2>5 DEF SignOut, ClearGates
    <3>2. Calm
      BY <2>5, <3>1, SameCloud DEF SignOut, Calm, Me
    <3> QED
      BY <1>2, <2>5, <3>2 DEF SignOut
  <2>6. CASE BeginPairing
    <3>1. /\ req' = [req EXCEPT !["main"] = [Idle EXCEPT !.kind = "begin", !.pc = "confirm",
                                                         !.dev = Me, !.gate = round + 1]]
          /\ secret' = [secret EXCEPT !.key = cloud.epoch] /\ cloud.peer
          /\ UNCHANGED <<cloud, config, cursor>>
      BY <2>6 DEF BeginPairing
    <3>2. /\ req'["main"].pc = "confirm" /\ req'["main"].dev = Me /\ req'["main"].key = 0
      BY <1>1, <3>1 DEF Idle
    <3>3. Me' = Me
      BY <1>1, <3>1 DEF Me, Identity
    <3>4. Calm
      BY <3>1, <3>3, SameCloud DEF Calm
    <3>5. Turn("confirm", Me, 0, cloud, config, cursor, Me)
      BY <1>1, <3>1 DEF TeamSound, Turn, Vouched, Keyless
    <3> QED
      BY <3>2, <3>4, <3>5, CalmFrame
  <2>7. CASE EnterRows
    BY <1>2, <2>7, SameTeam DEF EnterRows
  <2> QED
    BY <1>5, <2>1, <2>2, <2>3, <2>4, <2>5, <2>6, <2>7 DEF User
<1>6. CASE Interface
  <2>1. CASE PollFlow
    BY <1>3, <2>1, SameTeam DEF PollFlow, Pc
  <2>2. CASE CheckOverwrite
    <3>1. Calm
      BY <2>2, SameTeam DEF CheckOverwrite
    <3>2. CASE UNCHANGED req
      BY <1>2, <3>1, <3>2
    <3>3. CASE req' = [req EXCEPT !["main"] =
                         [Idle EXCEPT !.kind = "reconcile", !.pc = "capture", !.dev = Me,
                                      !.agreed = agreed, !.keep = Me \in approvals']]
      <4>1. /\ req'["main"].pc = "capture" /\ req'["main"].dev = Me
            /\ req'["main"].key = 0
        BY <1>1, <3>3 DEF Idle
      <4>2. Turn("capture", Me, 0, cloud, config, cursor, Me)
        BY DEF Turn, Vouched, Keyless
      <4> QED
        BY <3>1, <4>1, <4>2, CalmFrame
    <3> QED
      BY <2>2, <3>2, <3>3 DEF CheckOverwrite
  <2> QED
    BY <1>6, <2>1, <2>2 DEF Interface
<1>7. CASE Answer
  <2>1. CASE ApproveOverwrite
    BY <1>3, <2>1, SameTeam DEF ApproveOverwrite, Pc
  <2>2. CASE AllowOverwrite
    BY <1>3, <2>2, SameTeam DEF AllowOverwrite, Pc
  <2>3. CASE RetryPairing
    BY <1>2, <2>3, SameTeam DEF RetryPairing
  <2> QED
    BY <1>7, <2>1, <2>2, <2>3 DEF Answer
<1>8. CASE Peers
  <2>1. UNCHANGED <<config, cursor, secret, req>>
    BY <1>8 DEF Peers, PeerUploads, PeerPushes, PeerJoins, PeerRemoves
  <2>2. CASE PeerUploads \/ PeerPushes
    <3>1. CloudCalm(cloud, cloud')
      BY <1>1, <2>2 DEF PeerUploads, PeerPushes, CloudCalm, TeamSound, Cloud
    <3> QED
      BY <1>2, <2>1, <3>1 DEF Calm, Me
  <2>3. CASE PeerJoins
    <3>1. CloudCalm(cloud, cloud')
      BY <1>1, <2>3 DEF PeerJoins, CloudCalm, Cloud
    <3> QED
      BY <1>2, <2>1, <3>1 DEF Calm, Me
  <2>4. CASE PeerRemoves
    <3>1. cloud.keyed
      BY <1>1, <2>4 DEF PeerRemoves, TeamSound
    <3>2. ASSUME cloud'.trust = Revoked, cloud'.keyed
          PROVE  CloudCalm(cloud, cloud')
      <4>1. \A d \in Device : cloud'.trust[d] = IF cloud.trust[d] = "absent" THEN "absent"
                                                ELSE "revoked"
        BY <3>2 DEF Revoked
      <4> QED
        BY <3>2, <4>1 DEF CloudCalm, CanUse
    <3>3. CASE cloud' = [cloud EXCEPT !.peer = FALSE]
      <4>1. CloudCalm(cloud, cloud')
        BY <1>1, <3>3 DEF CloudCalm, Cloud
      <4> QED
        BY <1>2, <2>1, <4>1 DEF Calm, Me
    <3>4. CASE cloud' = [cloud EXCEPT !.trust = Revoked]
      <4>1. cloud'.trust = Revoked /\ cloud'.keyed
        BY <1>1, <3>1, <3>4 DEF Cloud
      <4> QED
        BY <1>2, <2>1, <3>2, <4>1 DEF Calm, Me
    <3>5. CASE cloud' = [cloud EXCEPT !.trust = Revoked, !.epoch = @ + 1,
                                      !.snap = NoSnapshot, !.covers = FALSE]
      <4>1. cloud'.trust = Revoked /\ cloud'.keyed
        BY <1>1, <3>1, <3>5 DEF Cloud
      <4> QED
        BY <1>2, <2>1, <3>2, <4>1 DEF Calm, Me
    <3> QED
      BY <2>4, <3>3, <3>4, <3>5 DEF PeerRemoves
  <2> QED
    BY <1>8, <2>2, <2>3, <2>4 DEF Peers
<1>9. CASE StaleCursor
  BY <1>2, <1>9, SameTeam DEF StaleCursor
<1>10. CASE Reload
  BY <1>4, <1>10, SameTeam DEF Reload
<1>11. ASSUME NEW r \in Slot, RequestFails(r) PROVE TeamInv'
  <2>1. Calm /\ Done(r)
    BY <1>11, SameTeam DEF RequestFails, Conclude
  <2> QED
    BY <2>1, CalmDone
<1>12. CASE Crash
  BY <1>4, <1>12, SameTeam DEF Crash
<1>13. CASE UNCHANGED vars
  BY <1>2, <1>13, SameTeam DEF vars
<1> QED
  BY <1>5, <1>6, <1>7, <1>8, <1>9, <1>10, <1>11, <1>12, <1>13

LEMMA TeamInvHolds == Spec => []TeamInv
<1>1. Init => TeamInv
  <2>1. ASSUME Init PROVE TeamInv
    <3>1. /\ \A d \in Device : cloud.trust[d] = "absent" /\ ~config[d].boot
          /\ cloud.peer => cloud.keyed
      BY <2>1 DEF Init, NoRow
    <3>2. TeamSound
      BY <3>1 DEF TeamSound
    <3>3. req["main"].pc = "idle"
      BY <2>1 DEF Init, Slot, Idle
    <3>4. TurnSound
      BY <3>3 DEF TurnSound, Turn, Vouched, Keyless, Own
    <3> QED
      BY <3>2, <3>4 DEF TeamInv
  <2> QED
    BY <2>1
<1>2. TypeOK /\ GateInv /\ TeamInv /\ [Next]_vars => TeamInv'
  BY HandlerTeam, OtherTeam DEF Next
<1> QED
  BY <1>1, <1>2, TypeCorrect, GateInvHolds, PTL DEF Spec

\* A device that is ready and bootstrapped never goes on from a position in the log
\* of a former team, whatever becomes of the requests that write the position, the
\* mark and the key one after the other (SessionReset, Restore, MarkBootstrapped).
THEOREM CursorBelongsHolds == Spec => []CursorBelongs
<1>1. ASSUME TypeOK, TeamInv, SyncState = "ready", config[Me].boot
      PROVE  cursor \in {0, cloud.epoch}
  <2>1. Me # NoDevice /\ Usable(Me)
    BY <1>1 DEF SyncState
  <2>2. Me \in Device
    BY <1>1, <2>1 DEF TypeOK, Identity, Me
  <2> QED
    BY <1>1, <2>1, <2>2 DEF TeamInv, TeamSound, CanUse, Usable
<1>2. TypeOK /\ TeamInv => CursorBelongs
  BY <1>1 DEF CursorBelongs
<1> QED
  BY <1>2, TypeCorrect, TeamInvHolds, PTL

-----------------------------------------------------------------------------
(***************************************************************************)
(* The consent.  It is given in one request, and may be used in a later    *)
(* one, after the device has gone through steps that take the consent back *)
(* elsewhere.  FlowSound says which requests may be under way together and *)
(* with which phase of the pairing flow; HeldSound that an approval which  *)
(* is kept, or about to be, is of the device at hand while it is ready;    *)
(* AskedSound that the consent behind it still stands; PathSound that the  *)
(* request on its way to a restore has it.                                 *)
(***************************************************************************)
Main == req["main"]
Side == req["cancel"]

PairSteps == {"confirm", "gate_memory", "gate_sqlite", "check_rows"}
Path == {"capture", "verify", "persist", "decide", "download", "restore"}
BootSteps == Path \union {"lift", "reset", "mark"}
EnableSteps == {"reset_team", "forget", "enroll", "save_identity", "keys", "save_key",
                "memory", "sqlite", "reset", "mark"}
ClearSteps == {"clear_identity", "clear_session", "memory", "sqlite"}

FlowSound ==
    /\ Main.kind = "none" => Main.pc = "idle"
    /\ Main.kind = "enable" => Main.pc \in EnableSteps
    /\ Main.kind = "clear" => Main.pc \in ClearSteps /\ Main.key = 0
    /\ Main.kind = "begin" => Main.pc \in PairSteps \union BootSteps
    /\ Main.kind \in {"poll", "approve"} => Main.pc \in BootSteps
    /\ Main.kind = "reconcile" => Main.pc \in BootSteps \union {"allow"}
    /\ Main.kind # "cancel"
    /\ Side # Idle => /\ Side.kind \in {"cancel", "clear"}
                      /\ Main.kind \in {"none", "poll", "approve"}
    /\ Side.kind = "clear" => flow = "none"
    /\ Main.kind \in {"enable", "clear", "begin", "reconcile"} => flow = "none"
    /\ Main.kind \in {"poll", "approve"} => flow # "overwrite"
    /\ Main.kind = "begin" => ui = "pairing"
    /\ Main.kind \in {"enable", "clear"} => ui # "asking"
    /\ Main.keep => Main.kind = "reconcile"
    /\ ui # "pairing" => flow = "none"

\* The user has been asked about d and has answered, or is about to.
Asked(d) == d \in approvals \/ (Main.keep /\ Main.dev = d)
Held(d) == Asked(d) \/ (Main.pc = "allow" /\ Main.dev = d) \/ (ui = "asking" /\ Me = d)

HeldSound ==
    \A d \in Device : Held(d) =>
        /\ Was(cloud, d)
        /\ CanUse(cloud, d) =>
              /\ Me = d /\ secret.key # 0 /\ secret.key = cloud.epoch
              /\ cloud.trust[d] = "trusted"
              /\ ui \in {"closed", "asking"} /\ Side = Idle
              /\ \/ Main.kind = "none"
                 \/ Main.kind = "reconcile" /\ Main.dev = d
                 \/ Main.kind = "enable" /\ Main.pc = "reset_team"

\* No keys are made for a device that the user has been asked about.
KeysSound == Main.pc \in {"save_identity", "keys"} /\ ~cloud.keyed => ~Asked(Main.dev)

AskedSound ==
    \A d \in Device : Asked(d) /\ CanUse(cloud, d) =>
        /\ agreed \/ (config[d].boot /\ cloud.snap # NoSnapshot)
        /\ Main.pc \in {"reset", "mark"} => agreed

SnapSound ==
    Main.pc \in {"download", "restore"} /\ CanUse(cloud, Main.dev) => cloud.snap # NoSnapshot

PathSound ==
    /\ Main.pc = "allow" => agreed
    /\ Main.pc \in Path =>
          /\ Main.kind = "begin" => rows = "none"
          /\ Main.kind \in {"poll", "approve"} => rows = "none" \/ Main.agreed
          /\ Main.kind = "reconcile" =>
                rows = "none" \/ agreed \/ (Main.dev \in Device /\ config[Main.dev].boot)
    /\ flow \in {"waiting", "bootstrapping"} =>
          \/ rows = "none" \/ agreed
          \/ Main.pc = "lift" /\ Main.kind \in {"poll", "approve"}

ConsentInv ==
    FlowSound /\ HeldSound /\ KeysSound /\ AskedSound /\ SnapSound /\ PathSound

\* Nobody has been asked about a device that the server still knows.
Nobody == \A d \in Device : Held(d) => ~CanUse(cloud, d)

LEMMA Elsewhere ==
    ASSUME HeldSound,
           \/ Side # Idle
           \/ Main.kind \in {"clear", "begin", "poll", "approve"}
           \/ Main.kind = "enable" /\ Main.pc # "reset_team"
    PROVE  Nobody
BY DEF HeldSound, Nobody

LEMMA NobodyFrame ==
    ASSUME HeldSound, Nobody,
           \A d \in Device : Held(d)' => Held(d),
           \A d \in Device : Held(d) /\ cloud.trust[d] = "revoked" =>
                               cloud'.trust[d] = "revoked"
    PROVE  HeldSound' /\ AskedSound'
<1>1. ASSUME NEW d \in Device, Held(d)' PROVE cloud'.trust[d] = "revoked"
  BY <1>1 DEF HeldSound, Nobody, Was, CanUse
<1>2. HeldSound'
  BY <1>1 DEF HeldSound, Was, CanUse
<1>3. AskedSound'
  BY <1>1 DEF AskedSound, CanUse, Held
<1> QED
  BY <1>2, <1>3

\* Steps that only go on with what has begun.
LEMMA HeldFrame ==
    ASSUME HeldSound, UNCHANGED <<cloud, secret>>, Side' = Side,
           \A d \in Device : Held(d)' => Held(d),
           \/ ui' = ui \/ ui' = "closed"
           \/ Main.kind \notin {"none", "reconcile", "enable"},
           \/ Main'.kind = "none"
           \/ Main'.kind = Main.kind /\ Main'.dev = Main.dev /\ Main'.pc = Main.pc
           \/ Main'.kind = Main.kind /\ Main'.dev = Main.dev /\ Main.pc # "reset_team"
    PROVE  HeldSound'
<1>1. ASSUME NEW d \in Device, Held(d)' PROVE Held(d) /\ Was(cloud', d)
  BY <1>1 DEF HeldSound
<1>2. ASSUME NEW d \in Device, Held(d)', CanUse(cloud', d)
      PROVE  /\ Me' = d /\ secret'.key # 0 /\ secret'.key = cloud'.epoch
             /\ cloud'.trust[d] = "trusted"
             /\ ui' \in {"closed", "asking"} /\ Side' = Idle
             /\ \/ Main'.kind = "none"
                \/ Main'.kind = "reconcile" /\ Main'.dev = d
                \/ Main'.kind = "enable" /\ Main'.pc = "reset_team"
  <2>1. /\ Me = d /\ secret.key # 0 /\ secret.key = cloud.epoch
        /\ cloud.trust[d] = "trusted"
        /\ ui \in {"closed", "asking"} /\ Side = Idle
        /\ \/ Main.kind = "none"
           \/ Main.kind = "reconcile" /\ Main.dev = d
           \/ Main.kind = "enable" /\ Main.pc = "reset_team"
    BY <1>1, <1>2 DEF HeldSound
  <2> QED
    BY <2>1 DEF Me
<1> QED
  BY <1>1, <1>2 DEF HeldSound

\* A request that is not on its way to a restore, and a flow that does not wait.
LEMMA OffPath ==
    ASSUME Main'.pc \notin Path \union {"allow"}, flow' \notin {"waiting", "bootstrapping"}
    PROVE  SnapSound' /\ PathSound'
BY DEF SnapSound, PathSound, Path

LEMMA MainGo ==
    ASSUME TypeOK, NEW pc \in Pc, Go("main", pc)
    PROVE  /\ Main'.pc = pc /\ Main'.kind = Main.kind /\ Main'.dev = Main.dev
           /\ Main'.keep = Main.keep /\ Main'.agreed = Main.agreed /\ Main'.key = Main.key
           /\ Side' = Side
<1>1. req \in [Slot -> Request] /\ "main" \in Slot
  BY DEF TypeOK, Slot
<1>2. req' = [req EXCEPT !["main"] = [req["main"] EXCEPT !.pc = pc]]
  BY DEF Go
<1> QED
  BY <1>1, <1>2 DEF Main, Side, Request, Slot

LEMMA SideGo ==
    ASSUME TypeOK, NEW pc \in Pc, Go("cancel", pc)
    PROVE  Main' = Main /\ Side'.pc = pc /\ Side'.kind = Side.kind
<1>1. req \in [Slot -> Request] /\ "cancel" \in Slot
  BY DEF TypeOK, Slot
<1>2. req' = [req EXCEPT !["cancel"] = [req["cancel"] EXCEPT !.pc = pc]]
  BY DEF Go
<1> QED
  BY <1>1, <1>2 DEF Main, Side, Request, Slot

LEMMA MainDone ==
    ASSUME TypeOK, Done("main")
    PROVE  Main' = Idle /\ Side' = Side
BY DEF TypeOK, Slot, Done, Main, Side

LEMMA SideDone ==
    ASSUME TypeOK, Done("cancel")
    PROVE  Main' = Main /\ Side' = Idle
BY DEF TypeOK, Slot, Done, Main, Side

\* A cancellation beside another request takes no consent that one relies on.
LEMMA SideFrame ==
    ASSUME TypeOK, GateInv, ConsentInv, Side # Idle, Main' = Main,
           \/ Side' = Idle
           \/ Side'.kind = Side.kind
           \/ Side'.kind = "clear" /\ flow' = "none",
           \A d \in Device : cloud'.trust[d] \in {cloud.trust[d], "revoked"},
           cloud'.snap = cloud.snap, cloud'.keyed = cloud.keyed,
           Me' \in {Me, NoDevice}, approvals' = approvals,
           rows = "none" => rows' = "none",
           flow' \in {flow, "none"}, agreed' = agreed \/ flow' = "none",
           ui' = ui \/ (ui' = "closed" /\ flow' = "none")
    PROVE  ConsentInv'
<1>1. /\ FlowSound /\ HeldSound /\ SnapSound /\ PathSound /\ MainSound
      /\ Main.kind \in {"none", "poll", "approve"} /\ Side.kind \in {"cancel", "clear"}
  BY DEF ConsentInv, GateInv, FlowSound
<1>2. Main.pc \in BootSteps \union {"idle"}
  BY <1>1 DEF FlowSound
<1>3. FlowSound'
  <2>1. Idle.kind = "none"
    BY DEF Idle
  <2>2. /\ Side' # Idle => Side'.kind \in {"cancel", "clear"}
        /\ Side'.kind = "clear" => flow' = "none"
    BY <1>1, <2>1 DEF FlowSound
  <2> QED
    BY <1>1, <2>2 DEF FlowSound
<1>4. HeldSound' /\ AskedSound'
  <2>1. \A d \in Device : Held(d)' => Held(d)
    BY SessionAssumption DEF Held, Asked
  <2> QED
    BY <1>1, <2>1, Elsewhere, NobodyFrame
<1>5. KeysSound'
  BY <1>2 DEF KeysSound, BootSteps, Path
<1>6. SnapSound'
  <2>1. Main.pc \in {"download", "restore"} => Main.dev \in Device
    BY <1>1 DEF MainSound, Main, Chosen
  <2> QED
    BY <1>1, <2>1 DEF SnapSound, CanUse
<1>7. PathSound'
  BY <1>1, <1>2 DEF PathSound, BootSteps, Path
<1> QED
  BY <1>3, <1>4, <1>5, <1>6, <1>7 DEF ConsentInv

LEMMA SideConsent ==
    ASSUME TypeOK, GateInv, ConsentInv, Handler("cancel")
    PROVE  ConsentInv'
<1> USE DEF local, memory
<1> DEFINE r == "cancel"
<1>1. /\ Side.pc \in CancelPc /\ r \in Slot /\ cloud \in Cloud
      /\ rows \in {"none", "own", "shared", "restored"}
  BY DEF GateInv, CancelSound, Side, TypeOK, Slot
<1>2. Idle.pc = "idle"
  BY DEF Idle
<1>3. ASSUME NEW pc \in Pc, Go(r, pc) PROVE Main' = Main /\ Side'.kind = Side.kind
  BY <1>3, SideGo
<1>4. CASE DeleteDevice(r)
  <2>1. /\ Side # Idle /\ Go(r, "clear_gate")
        /\ UNCHANGED <<secret, local, memory, ui, round, agreed>>
    BY <1>2, <1>4 DEF DeleteDevice, At, Side
  <2>2. cloud' = [cloud EXCEPT !.trust[req[r].dev] = "revoked"] \/ cloud' = cloud
    BY <1>4 DEF DeleteDevice
  <2>3. /\ \A d \in Device : cloud'.trust[d] \in {cloud.trust[d], "revoked"}
        /\ cloud'.snap = cloud.snap /\ cloud'.keyed = cloud.keyed
    BY <1>1, <2>2 DEF Cloud
  <2>4. Main' = Main /\ Side'.kind = Side.kind
    BY <1>3, <2>1 DEF Pc
  <2> QED
    BY <2>1, <2>3, <2>4, SideFrame DEF Me
<1>5. CASE ClearGate(r)
  <2>1. Side # Idle /\ Go(r, "clear_identity")
    BY <1>2, <1>5 DEF ClearGate, At, Side
  <2>2. Main' = Main /\ Side'.kind = Side.kind
    BY <1>3, <2>1 DEF Pc
  <2>3. UNCHANGED <<secret, rows, flow, approvals, ui, cloud, agreed>>
    BY <1>5 DEF ClearGate
  <2> QED
    BY <2>1, <2>2, <2>3, SideFrame DEF Me
<1>6. CASE ClearIdentity(r)
  <2>1. Side # Idle /\ Go(r, "clear_session")
    BY <1>2, <1>6 DEF ClearIdentity, At, Side
  <2>2. Main' = Main /\ Side'.kind = Side.kind
    BY <1>3, <2>1 DEF Pc
  <2>3. UNCHANGED <<rows, flow, approvals, ui, cloud, agreed>> /\ Me' = NoDevice
    BY <1>6 DEF ClearIdentity, Me, NoIdentity
  <2> QED
    BY <2>1, <2>2, <2>3, SideFrame
<1>7. CASE ClearSession(r)
  <2>1. Side # Idle /\ Go(r, "memory")
    BY <1>2, <1>7 DEF ClearSession, At, Side
  <2>2. Main' = Main /\ Side'.kind = Side.kind
    BY <1>3, <2>1 DEF Pc
  <2>3. /\ UNCHANGED <<secret, flow, approvals, ui, cloud, agreed>>
        /\ rows = "none" => rows' = "none"
    BY <1>7 DEF ClearSession, SessionReset
  <2> QED
    BY <2>1, <2>2, <2>3, SideFrame DEF Me
<1>8. CASE ForgetGates(r)
  <2>1. Side # Idle /\ Go(r, "sqlite")
    BY <1>2, <1>8 DEF ForgetGates, At, Side
  <2>2. Main' = Main /\ Side'.kind = Side.kind
    BY <1>3, <2>1 DEF Pc
  <2>3. UNCHANGED <<secret, rows, flow, approvals, ui, cloud, agreed>>
    BY <1>8 DEF ForgetGates
  <2> QED
    BY <2>1, <2>2, <2>3, SideFrame DEF Me
<1>9. CASE ForgetStoredGates(r)
  <2>1. Side # Idle
    BY <1>2, <1>9 DEF ForgetStoredGates, At, Side
  <2>2. UNCHANGED <<secret, rows, approvals, cloud>>
    BY <1>9 DEF ForgetStoredGates
  <2>3. Side.kind \in {"cancel", "clear"} /\ (Side.kind = "clear" => flow = "none")
    BY <2>1 DEF ConsentInv, FlowSound
  <2>4. CASE Side.kind = "cancel"
    <3>1. /\ req' = [req EXCEPT ![r] = [Idle EXCEPT !.kind = "clear", !.pc = "clear_identity"]]
          /\ flow' = "none" /\ ui' = ui
      BY <1>9, <2>4 DEF ForgetStoredGates, Side
    <3>2. Main' = Main /\ Side'.kind = "clear"
      BY <3>1 DEF TypeOK, Slot, Main, Side, Idle
    <3> QED
      BY <2>1, <2>2, <3>1, <3>2, SideFrame DEF Me
  <2>5. CASE Side.kind # "cancel"
    <3>1. req["cancel"].key = 0
      BY DEF GateInv, CancelSound
    <3>2. Done(r) /\ flow' = flow /\ ui' = "closed"
      BY <1>9, <2>3, <2>5, <3>1 DEF ForgetStoredGates, Side
    <3>3. Main' = Main /\ Side' = Idle
      BY <3>2, SideDone
    <3> QED
      BY <2>1, <2>2, <2>3, <2>5, <3>2, <3>3, SideFrame DEF Me
  <2> QED
    BY <2>4, <2>5
<1> QED
  <2>1. \A pc \in Pc \ CancelPc : ~At(r, pc)
    BY <1>1 DEF At, Side
  <2> QED
    BY <1>4, <1>5, <1>6, <1>7, <1>8, <1>9, <2>1
       DEF Handler, ResetTeam, ForgetIdentity, Enroll, SaveIdentity, InitializeKeys, SaveKey,
           Confirm, ConfirmRefused, SetGate, StoreGate, CheckRows, KeepApproval, CaptureGate,
           Verify, PersistConfig, Decide, Download, Restore, LiftGate, ResetSession,
           MarkBootstrapped, Pc, CancelPc

\* Enrolment and clearing go on alone: no flow, no approval of a device in use.
LEMMA AloneFrame ==
    ASSUME TypeOK, ConsentInv, Main.kind \in {"enable", "clear"}, Nobody,
           Side' = Side, approvals' = approvals, flow' = flow, ui' \in {ui, "closed"},
           \A d \in Device : d \in approvals /\ cloud.trust[d] = "revoked" =>
                               cloud'.trust[d] = "revoked",
           \/ Main' = Idle
           \/ /\ Main'.kind = Main.kind /\ Main'.keep = Main.keep
              /\ Main.kind = "enable" => Main'.pc \in EnableSteps
              /\ Main.kind = "clear" => Main'.pc \in ClearSteps /\ Main'.key = 0,
           KeysSound'
    PROVE  ConsentInv'
<1>1. /\ FlowSound /\ HeldSound /\ flow = "none" /\ Side = Idle /\ ~Main.keep
      /\ ui # "asking" /\ Main.keep \in BOOLEAN
  BY DEF ConsentInv, FlowSound, TypeOK, Slot, Request, Main
<1>2. /\ Idle.kind = "none" /\ Idle.pc = "idle" /\ Idle.keep = FALSE
  BY DEF Idle
<1>3. /\ Main'.pc \notin Path \union {"allow"} /\ ~Main'.keep
      /\ Main'.kind \in {"none", Main.kind}
  BY <1>1, <1>2 DEF EnableSteps, ClearSteps, Path
<1>4. FlowSound'
  BY <1>1, <1>2, <1>3 DEF FlowSound
<1>5. HeldSound' /\ AskedSound'
  <2>1. \A d \in Device : Held(d)' => Held(d) /\ d \in approvals
    BY <1>1, <1>3 DEF Held, Asked
  <2>2. \A d \in Device : Held(d) => d \in approvals
    BY <1>1 DEF Held, Asked, FlowSound, EnableSteps, ClearSteps
  <2> QED
    BY <1>1, <2>1, <2>2, NobodyFrame
<1>6. SnapSound' /\ PathSound'
  BY <1>1, <1>3, OffPath
<1> QED
  BY <1>4, <1>5, <1>6 DEF ConsentInv

LEMMA AloneConsent ==
    ASSUME TypeOK, GateInv, TeamInv, ConsentInv, NEW r, r = "main",
           \/ ResetTeam(r) \/ ForgetIdentity(r) \/ Enroll(r) \/ SaveIdentity(r)
           \/ InitializeKeys(r) \/ SaveKey(r) \/ ForgetGates(r) \/ ForgetStoredGates(r)
           \/ ClearIdentity(r) \/ ClearSession(r) \/ DeleteDevice(r) \/ ClearGate(r)
    PROVE  ConsentInv'
<1> USE DEF local, memory
<1>1. /\ r \in Slot /\ req \in [Slot -> Request] /\ Main \in Request /\ cloud \in Cloud
      /\ Main.kind \in Kind /\ FlowSound /\ HeldSound /\ KeysSound /\ TeamSound
  BY DEF TypeOK, Slot, Main, Request, ConsentInv, TeamInv
<1>2. ASSUME Main.pc \in EnableSteps \union ClearSteps, Main.pc \notin {"reset", "mark"}
      PROVE  Main.kind \in {"enable", "clear"}
  BY <1>1, <1>2 DEF FlowSound, Kind, EnableSteps, ClearSteps, PairSteps, BootSteps, Path
<1>3. Main.pc \notin {"delete_device", "clear_gate"}
  BY <1>1 DEF FlowSound, Kind, EnableSteps, ClearSteps, PairSteps, BootSteps, Path
<1>4. ASSUME NEW pc \in Pc, Go(r, pc)
      PROVE  /\ Main'.pc = pc /\ Main'.kind = Main.kind /\ Main'.dev = Main.dev
             /\ Main'.keep = Main.keep /\ Main'.key = Main.key /\ Side' = Side
  BY <1>4, MainGo
<1>5. ASSUME Main.pc \in {"forget", "enroll", "save_identity", "keys", "save_key"}
      PROVE  Main.kind = "enable" /\ Nobody
  <2>1. Main.kind = "enable"
    BY <1>1, <1>5 DEF FlowSound, Kind, ClearSteps, PairSteps, BootSteps, Path
  <2> QED
    BY <1>1, <1>5, <2>1, Elsewhere
<1>6. ASSUME Main.pc \in ClearSteps
      PROVE  /\ Main.kind \in {"enable", "clear"} /\ Nobody
             /\ Main.pc \in {"clear_identity", "clear_session"} => Main.kind = "clear"
             /\ Main.kind = "clear" => Main.key = 0
  <2>1. /\ Main.kind \in {"enable", "clear"}
        /\ Main.pc \in {"clear_identity", "clear_session"} => Main.kind = "clear"
        /\ Main.kind = "clear" => Main.key = 0
    BY <1>1, <1>6 DEF FlowSound, Kind, EnableSteps, ClearSteps, PairSteps, BootSteps, Path
  <2> QED
    BY <1>1, <1>6, <2>1, Elsewhere DEF ClearSteps
<1>7. CASE ResetTeam(r)
  <2>1. Main.pc = "reset_team" /\ Go(r, "forget")
    BY <1>7 DEF ResetTeam, At, Main
  <2>2. Main.kind = "enable"
    BY <1>1, <2>1 DEF FlowSound, Kind, ClearSteps, PairSteps, BootSteps, Path
  <2>3. /\ Main'.pc = "forget" /\ Main'.kind = "enable" /\ Main'.dev = Main.dev
        /\ Main'.keep = Main.keep /\ Side' = Side
    BY <1>4, <2>1, <2>2 DEF Pc
  <2>4. \A d \in Device : cloud'.trust[d] = IF cloud.trust[d] = "absent" THEN "absent"
                                            ELSE "revoked"
    BY <1>1, <1>7 DEF ResetTeam, Revoked, Cloud
  <2>5. UNCHANGED <<secret, flow, approvals, ui>>
    BY <1>7 DEF ResetTeam
  <2>6. FlowSound'
    BY <1>1, <2>2, <2>3, <2>5 DEF FlowSound, EnableSteps
  <2>7. \A d \in Device : Held(d)' => Held(d)
    BY <2>3, <2>5 DEF Held, Asked, Me
  <2>8. HeldSound' /\ AskedSound'
    BY <1>1, <2>4, <2>7 DEF HeldSound, AskedSound, Was, CanUse
  <2>9. KeysSound'
    BY <2>3 DEF KeysSound
  <2>10. SnapSound' /\ PathSound'
    BY <1>1, <2>2, <2>3, <2>5, OffPath DEF FlowSound, Path
  <2> QED
    BY <2>6, <2>8, <2>9, <2>10 DEF ConsentInv
<1>8. CASE ForgetIdentity(r)
  <2>1. Main.pc = "forget" /\ Go(r, "enroll")
    BY <1>8 DEF ForgetIdentity, At, Main
  <2>2. UNCHANGED <<cloud, flow, approvals, ui>>
    BY <1>8 DEF ForgetIdentity
  <2>3. /\ Main'.pc = "enroll" /\ Main'.kind = Main.kind /\ Main'.keep = Main.keep
        /\ Side' = Side
    BY <1>4, <2>1 DEF Pc
  <2>4. KeysSound'
    BY <2>3 DEF KeysSound
  <2> QED
    BY <1>5, <2>1, <2>2, <2>3, <2>4, AloneFrame DEF EnableSteps
<1>9. CASE Enroll(r)
  <2>1. Main.pc = "enroll"
    BY <1>9 DEF Enroll, At, Main
  <2>2. PICK d \in Device :
            /\ IF \E k \in Device : Usable(k) THEN Usable(d) ELSE cloud.trust[d] = "absent"
            /\ req' = [req EXCEPT !["main"].pc = "save_identity", !["main"].dev = d]
            /\ cloud' = [cloud EXCEPT !.trust[d] = IF Usable(d) THEN @ ELSE "untrusted"]
    BY <1>9 DEF Enroll
  <2>3. UNCHANGED <<flow, approvals, ui>>
    BY <1>9 DEF Enroll
  <2>4. /\ Main'.pc = "save_identity" /\ Main'.kind = Main.kind /\ Main'.keep = Main.keep
        /\ Main'.dev = d /\ Side' = Side
    BY <1>1, <2>2 DEF Main, Side, Request, Slot
  <2>5. Usable(d) \/ cloud.trust[d] = "absent"
    BY <2>2
  <2>6. /\ \A k \in Device : cloud.trust[k] = "revoked" => cloud'.trust[k] = "revoked"
        /\ cloud'.keyed = cloud.keyed
    BY <1>1, <2>2, <2>5 DEF Cloud, Usable
  <2>7. ASSUME ~cloud'.keyed PROVE ~Asked(d)'
    <3>1. cloud.trust[d] \notin {"trusted", "revoked"}
      BY <1>1, <2>5, <2>6, <2>7 DEF TeamSound, Usable
    <3>2. d \notin approvals
      BY <1>1, <3>1 DEF HeldSound, Held, Asked, Was
    <3>3. ~Main.keep
      BY <1>1, <1>5, <2>1 DEF FlowSound
    <3> QED
      BY <2>3, <2>4, <3>2, <3>3 DEF Asked
  <2>8. KeysSound'
    BY <2>4, <2>7 DEF KeysSound
  <2> QED
    BY <1>5, <2>1, <2>3, <2>4, <2>6, <2>8, AloneFrame DEF EnableSteps
<1>10. CASE SaveIdentity(r)
  <2>1. Main.pc = "save_identity" /\ (Go(r, "memory") \/ Go(r, "keys"))
    BY <1>10 DEF SaveIdentity, At, Main
  <2>2. UNCHANGED <<cloud, flow, approvals, ui>>
    BY <1>10 DEF SaveIdentity
  <2>3. /\ Main'.pc \in {"memory", "keys"} /\ Main'.kind = Main.kind
        /\ Main'.keep = Main.keep /\ Main'.dev = Main.dev /\ Side' = Side
    BY <1>4, <2>1 DEF Pc
  <2>4. KeysSound'
    BY <1>1, <2>1, <2>2, <2>3 DEF KeysSound, Asked
  <2> QED
    BY <1>5, <2>1, <2>2, <2>3, <2>4, AloneFrame DEF EnableSteps
<1>11. CASE InitializeKeys(r)
  <2>1. Main.pc = "keys"
    BY <1>11 DEF InitializeKeys, At, Main
  <2>2. UNCHANGED <<flow, approvals, ui>>
    BY <1>11 DEF InitializeKeys
  <2>3. CASE UNCHANGED cloud /\ Go(r, "memory")
    <3>1. /\ Main'.pc = "memory" /\ Main'.kind = Main.kind /\ Main'.keep = Main.keep
          /\ Side' = Side
      BY <1>4, <2>3 DEF Pc
    <3>2. KeysSound'
      BY <3>1 DEF KeysSound
    <3> QED
      BY <1>5, <2>1, <2>2, <2>3, <3>1, <3>2, AloneFrame DEF EnableSteps
  <2>4. CASE /\ ~cloud.keyed
             /\ cloud' = [cloud EXCEPT !.epoch = @ + 1, !.keyed = TRUE,
                                       !.trust[req[r].dev] = "trusted"]
             /\ req' = [req EXCEPT ![r].pc = "save_key", ![r].key = cloud.epoch + 1]
    <3>1. /\ Main'.pc = "save_key" /\ Main'.kind = Main.kind /\ Main'.keep = Main.keep
          /\ Side' = Side
      BY <1>1, <2>4 DEF Main, Side, Request, Slot
    <3>2. KeysSound'
      BY <3>1 DEF KeysSound
    <3>3. Main.dev \notin approvals
      BY <1>1, <2>1, <2>4 DEF KeysSound, Asked
    <3>4. \A d \in Device : d # Main.dev => cloud'.trust[d] = cloud.trust[d]
      BY <1>1, <2>4 DEF Cloud, Main
    <3> QED
      BY <1>5, <2>1, <2>2, <3>1, <3>2, <3>3, <3>4, AloneFrame DEF EnableSteps
  <2> QED
    BY <1>11, <2>3, <2>4 DEF InitializeKeys
<1>12. CASE SaveKey(r)
  <2>1. Main.pc = "save_key" /\ Go(r, "memory")
    BY <1>12 DEF SaveKey, At, Main
  <2>2. UNCHANGED <<cloud, flow, approvals, ui>>
    BY <1>12 DEF SaveKey
  <2>3. /\ Main'.pc = "memory" /\ Main'.kind = Main.kind /\ Main'.keep = Main.keep
        /\ Side' = Side
    BY <1>4, <2>1 DEF Pc
  <2>4. KeysSound'
    BY <2>3 DEF KeysSound
  <2> QED
    BY <1>5, <2>1, <2>2, <2>3, <2>4, AloneFrame DEF EnableSteps
<1>13. CASE ForgetGates(r)
  <2>1. Main.pc = "memory" /\ Go(r, "sqlite")
    BY <1>13 DEF ForgetGates, At, Main
  <2>2. UNCHANGED <<cloud, flow, approvals, ui>>
    BY <1>13 DEF ForgetGates
  <2>3. /\ Main'.pc = "sqlite" /\ Main'.kind = Main.kind /\ Main'.keep = Main.keep
        /\ Main'.key = Main.key /\ Side' = Side
    BY <1>4, <2>1 DEF Pc
  <2>4. KeysSound'
    BY <2>3 DEF KeysSound
  <2> QED
    BY <1>6, <2>1, <2>2, <2>3, <2>4, AloneFrame DEF EnableSteps, ClearSteps
<1>14. CASE ForgetStoredGates(r)
  <2>1. Main.pc = "sqlite"
    BY <1>14 DEF ForgetStoredGates, At, Main
  <2>2. UNCHANGED <<cloud, approvals>>
    BY <1>14 DEF ForgetStoredGates
  <2>3. /\ Main.kind \in {"enable", "clear"} /\ Nobody
        /\ Main.kind = "clear" => Main.key = 0
    BY <1>6, <2>1 DEF ClearSteps
  <2>4. CASE Main.key # 0
    <3>1. Go(r, "reset") /\ UNCHANGED <<flow, ui>>
      BY <1>14, <2>3, <2>4 DEF ForgetStoredGates, Main
    <3>2. /\ Main'.pc = "reset" /\ Main'.kind = Main.kind /\ Main'.keep = Main.keep
          /\ Side' = Side
      BY <1>4, <3>1 DEF Pc
    <3>3. KeysSound'
      BY <3>2 DEF KeysSound
    <3> QED
      BY <2>2, <2>3, <2>4, <3>1, <3>2, <3>3, AloneFrame DEF EnableSteps
  <2>5. CASE ~(Main.key # 0)
    <3>1. Done(r) /\ flow' = flow /\ ui' \in {ui, "closed"}
      BY <1>14, <2>3, <2>5 DEF ForgetStoredGates, Main
    <3>2. Main' = Idle /\ Side' = Side
      BY <3>1, MainDone
    <3>3. KeysSound'
      BY <3>2 DEF KeysSound, Idle
    <3> QED
      BY <2>2, <2>3, <3>1, <3>2, <3>3, AloneFrame
  <2> QED
    BY <2>4, <2>5
<1>15. CASE ClearIdentity(r)
  <2>1. Main.pc = "clear_identity" /\ Go(r, "clear_session")
    BY <1>15 DEF ClearIdentity, At, Main
  <2>2. UNCHANGED <<cloud, flow, approvals, ui>>
    BY <1>15 DEF ClearIdentity
  <2>3. /\ Main'.pc = "clear_session" /\ Main'.kind = Main.kind /\ Main'.keep = Main.keep
        /\ Main'.key = Main.key /\ Side' = Side
    BY <1>4, <2>1 DEF Pc
  <2>4. KeysSound'
    BY <2>3 DEF KeysSound
  <2> QED
    BY <1>6, <2>1, <2>2, <2>3, <2>4, AloneFrame DEF ClearSteps
<1>16. CASE ClearSession(r)
  <2>1. Main.pc = "clear_session" /\ Go(r, "memory")
    BY <1>16 DEF ClearSession, At, Main
  <2>2. UNCHANGED <<cloud, flow, approvals, ui>>
    BY <1>16 DEF ClearSession
  <2>3. /\ Main'.pc = "memory" /\ Main'.kind = Main.kind /\ Main'.keep = Main.keep
        /\ Main'.key = Main.key /\ Side' = Side
    BY <1>4, <2>1 DEF Pc
  <2>4. KeysSound'
    BY <2>3 DEF KeysSound
  <2> QED
    BY <1>6, <2>1, <2>2, <2>3, <2>4, AloneFrame DEF ClearSteps
<1>17. CASE DeleteDevice(r) \/ ClearGate(r)
  BY <1>3, <1>17 DEF DeleteDevice, ClearGate, At, Main
<1> QED
  BY <1>7, <1>8, <1>9, <1>10, <1>11, <1>12, <1>13, <1>14, <1>15, <1>16, <1>17

\* A request that ends with an outcome.
LEMMA ConcludeFrame ==
    ASSUME TypeOK, ConsentInv, NEW outcome, Conclude("main", outcome),
           UNCHANGED <<secret, cloud, agreed>>, Main.pc \in BootSteps,
           outcome = "requested" => Main.pc \in Path,
           rows = "none" => rows' = "none",
           \A d \in Device : config[d].boot => config'[d].boot
    PROVE  ConsentInv'
<1>1. /\ FlowSound /\ HeldSound /\ AskedSound /\ PathSound /\ Main.kind \in Kind
      /\ Main.keep \in BOOLEAN
  BY DEF ConsentInv, TypeOK, Slot, Request, Main
<1>2. /\ Idle.kind = "none" /\ Idle.pc = "idle" /\ Idle.keep = FALSE
  BY DEF Idle
<1>3. Main' = Idle /\ Side' = Side
  BY MainDone DEF Conclude
<1>4. Main.kind \in {"enable", "begin", "poll", "approve", "reconcile"}
  BY <1>1 DEF FlowSound, Kind, ClearSteps, BootSteps, Path
<1>5. /\ flow' \in {"none", "waiting"}
      /\ flow' = "waiting" =>
            /\ outcome = "requested" /\ ui' = "pairing" /\ flow' # "none"
            /\ Main.kind = "begin" \/ (Main.kind \in {"poll", "approve"} /\ flow # "none")
            /\ Side.kind # "clear"
  <2>1. CASE Main.kind = "begin"
    <3>1. /\ flow' = IF outcome = "requested" THEN "waiting" ELSE flow
          /\ outcome = "requested" => ui' = ui
      BY <2>1 DEF Conclude, Main
    <3> QED
      BY <1>1, <1>2, <2>1, <3>1 DEF FlowSound
  <2>2. CASE Main.kind \in {"poll", "approve"}
    <3>1. /\ flow' = IF outcome = "requested" /\ flow # "none" THEN "waiting" ELSE "none"
          /\ outcome = "requested" => ui' = ui
      BY <2>2 DEF Conclude, Main
    <3> QED
      BY <1>1, <2>2, <3>1 DEF FlowSound
  <2>3. CASE Main.kind \in {"enable", "reconcile"}
    <3>1. flow' = flow
      BY <2>3 DEF Conclude, Main
    <3> QED
      BY <1>1, <2>3, <3>1 DEF FlowSound
  <2> QED
    BY <1>4, <2>1, <2>2, <2>3
<1>6. /\ ui' \in {ui, "closed", "failed"}
      /\ ui' # "pairing" => flow' = "none"
  BY <1>5 DEF Conclude
<1>7. FlowSound'
  BY <1>1, <1>2, <1>3, <1>5, <1>6 DEF FlowSound
<1>8. \A d \in Device : Asked(d)' => Asked(d)
  <2>1. approvals' \subseteq approvals \union (IF Main.keep THEN {Main.dev} ELSE {})
    BY <1>1 DEF Conclude, Main
  <2> QED
    BY <1>2, <1>3, <2>1 DEF Asked
<1>9. HeldSound'
  <2>1. \A d \in Device : Held(d)' => Held(d)
    BY <1>2, <1>3, <1>6, <1>8 DEF Held, Me
  <2>2. ui' = ui \/ ui' = "closed" \/ Main.kind \notin {"none", "reconcile", "enable"}
    BY DEF Conclude, Main
  <2> QED
    BY <1>1, <1>2, <1>3, <2>1, <2>2, HeldFrame
<1>10. AskedSound'
  BY <1>1, <1>2, <1>3, <1>8 DEF AskedSound, CanUse
<1>11. KeysSound' /\ SnapSound'
  BY <1>2, <1>3 DEF KeysSound, SnapSound
<1>12. PathSound'
  <2>1. Main'.pc \notin Path \union {"allow"}
    BY <1>2, <1>3 DEF Path
  <2>2. ASSUME flow' = "waiting" PROVE rows = "none" \/ agreed
    <3>1. Main.pc \in Path /\ Main.pc # "lift"
      BY <1>5, <2>2 DEF Path
    <3>2. CASE Main.kind = "begin"
      BY <1>1, <3>1, <3>2 DEF PathSound
    <3>3. CASE Main.kind \in {"poll", "approve"} /\ flow # "none"
      <4>1. flow \in {"waiting", "bootstrapping"}
        BY <1>1, <3>3 DEF FlowSound, TypeOK
      <4> QED
        BY <1>1, <3>1, <4>1 DEF PathSound
    <3> QED
      BY <1>5, <2>2, <3>2, <3>3
  <2> QED
    BY <1>5, <2>1, <2>2 DEF PathSound
<1> QED
  BY <1>7, <1>9, <1>10, <1>11, <1>12 DEF ConsentInv

\* A request that goes on.
LEMMA StepFrame ==
    ASSUME TypeOK, ConsentInv, NEW pc \in BootSteps, Main'.pc = pc, Side' = Side,
           Main'.kind = Main.kind, Main'.dev = Main.dev, Main'.keep = Main.keep,
           Main'.agreed = Main.agreed,
           Main.kind \in {"begin", "poll", "approve", "reconcile"} \/ pc = "mark",
           UNCHANGED <<secret, cloud, approvals, flow, ui, agreed>>,
           rows = "none" => rows' = "none",
           Main.pc \in {"check_rows"} \union BootSteps, Main.pc # "lift",
           \A d \in Device : config[d].boot => config'[d].boot \/ Main.pc = "reset",
           pc = "reset" => cloud.snap = NoSnapshot,
           pc = "mark" => Main.pc = "reset",
           pc \in Path => Main.pc \in Path \/ rows' = "none",
           pc \in Path => Main.pc # "reset",
           pc \in {"download", "restore"} => Main.pc = "download" \/ cloud.snap # NoSnapshot
    PROVE  ConsentInv'
<1>1. /\ FlowSound /\ HeldSound /\ AskedSound /\ SnapSound /\ PathSound /\ Main.kind \in Kind
      /\ pc \in Pc
  BY DEF ConsentInv, TypeOK, Slot, Request, Main, BootSteps, Path, Pc
<1>2. /\ Main'.pc = pc /\ Main'.kind = Main.kind /\ Main'.dev = Main.dev
      /\ Main'.keep = Main.keep /\ Main'.agreed = Main.agreed /\ Side' = Side
  OBVIOUS
<1>3. Main.kind \in {"begin", "poll", "approve", "reconcile", "enable"}
  BY <1>1 DEF FlowSound, Kind, ClearSteps, BootSteps, Path, PairSteps
<1>4. FlowSound'
  BY <1>1, <1>2, <1>3 DEF FlowSound, EnableSteps
<1>5. pc \notin {"allow", "save_identity", "keys"}
  BY DEF BootSteps, Path
<1>6. HeldSound'
  <2>1. \A d \in Device : Held(d)' => Held(d)
    BY <1>2, <1>5 DEF Held, Asked, Me
  <2>2. Main.pc # "reset_team"
    BY DEF BootSteps, Path
  <2> QED
    BY <1>1, <1>2, <2>1, <2>2, HeldFrame
<1>7. AskedSound'
  <2>1. ASSUME NEW d \in Device, Asked(d)', CanUse(cloud', d)
        PROVE  /\ agreed' \/ (config'[d].boot /\ cloud'.snap # NoSnapshot)
               /\ pc \in {"reset", "mark"} => agreed'
    <3>1. Asked(d) /\ CanUse(cloud, d)
      BY <1>2, <2>1 DEF Asked, CanUse
    <3>2. /\ agreed \/ (config[d].boot /\ cloud.snap # NoSnapshot)
          /\ Main.pc \in {"reset", "mark"} => agreed
      BY <1>1, <3>1 DEF AskedSound
    <3> QED
      BY <3>2
  <2> QED
    BY <1>2, <2>1 DEF AskedSound
<1>8. KeysSound'
  BY <1>2, <1>5 DEF KeysSound
<1>9. SnapSound'
  BY <1>1, <1>2 DEF SnapSound, CanUse
<1>10. PathSound'
  BY <1>1, <1>2, <1>5 DEF PathSound
<1> QED
  BY <1>4, <1>6, <1>7, <1>8, <1>9, <1>10 DEF ConsentInv

\* The first steps of a pairing: the device was not to be used until now.
LEMMA PairFrame ==
    ASSUME TypeOK, ConsentInv, Main.pc \in PairSteps, Side' = Side, approvals' = approvals,
           \A d \in Device : cloud.trust[d] = "revoked" => cloud'.trust[d] = "revoked",
           \/ Main'.kind = Main.kind /\ Main'.keep = Main.keep /\ Main'.pc \in PairSteps
              /\ flow' = flow /\ ui' = ui
           \/ Main' = Idle /\ flow' = "overwrite" /\ ui' = ui
           \/ Main' = Idle /\ flow' = flow /\ ui' = "closed"
    PROVE  ConsentInv'
<1>1. /\ FlowSound /\ HeldSound /\ Main.kind \in Kind /\ Main.keep \in BOOLEAN
  BY DEF ConsentInv, TypeOK, Slot, Request, Main
<1>2. /\ Idle.kind = "none" /\ Idle.pc = "idle" /\ Idle.keep = FALSE
  BY DEF Idle
<1>3. Main.kind = "begin"
  BY <1>1 DEF FlowSound, Kind, EnableSteps, ClearSteps, BootSteps, Path, PairSteps
<1>4. ui = "pairing" /\ flow = "none" /\ Side = Idle /\ ~Main.keep
  BY <1>1, <1>3 DEF FlowSound
<1>5. /\ Main'.pc \notin Path \union {"allow"} /\ ~Main'.keep
      /\ Main'.pc \notin {"save_identity", "keys"}
      /\ flow' \notin {"waiting", "bootstrapping"} /\ ui' # "asking"
  BY <1>2, <1>4 DEF PairSteps, Path
<1>6. FlowSound'
  BY <1>2, <1>3, <1>4 DEF FlowSound
<1>7. HeldSound' /\ AskedSound'
  <2>1. \A d \in Device : Held(d)' => Held(d)
    BY <1>5 DEF Held, Asked
  <2> QED
    BY <1>1, <1>3, <2>1, Elsewhere, NobodyFrame
<1>8. KeysSound'
  BY <1>5 DEF KeysSound
<1> QED
  BY <1>5, <1>6, <1>7, <1>8, OffPath DEF ConsentInv

LEMMA PairConsent ==
    ASSUME TypeOK, ConsentInv, NEW r, r = "main",
           Confirm(r) \/ ConfirmRefused(r) \/ SetGate(r) \/ StoreGate(r) \/ CheckRows(r)
    PROVE  ConsentInv'
<1> USE DEF local, memory
<1>1. /\ r \in Slot /\ req \in [Slot -> Request] /\ Main \in Request /\ cloud \in Cloud
      /\ Main.kind \in Kind /\ FlowSound
  BY DEF TypeOK, Slot, Main, Request, ConsentInv
<1>2. ASSUME NEW pc \in PairSteps, Go(r, pc)
      PROVE  Main'.kind = Main.kind /\ Main'.keep = Main.keep /\ Main'.pc \in PairSteps
             /\ Side' = Side
  <2>1. pc \in Pc
    BY DEF PairSteps, Pc
  <2> QED
    BY <1>2, <2>1, MainGo
<1>3. CASE Confirm(r)
  <2>1. Main.pc = "confirm" /\ CanUse(cloud, Main.dev) /\ Go(r, "gate_memory")
    BY <1>3 DEF Confirm, At, Main, Usable, CanUse
  <2>2. UNCHANGED <<approvals, flow, ui>>
    BY <1>3 DEF Confirm
  <2>3. \A d \in Device : cloud.trust[d] = "revoked" => cloud'.trust[d] = "revoked"
    BY <1>1, <1>3, <2>1 DEF Confirm, Cloud, Main, CanUse
  <2> QED
    BY <1>2, <2>1, <2>2, <2>3, PairFrame DEF PairSteps
<1>4. CASE ConfirmRefused(r)
  <2>1. Main.pc = "confirm" /\ Done(r) /\ UNCHANGED <<approvals, flow, cloud>> /\ ui' = "closed"
    BY <1>4 DEF ConfirmRefused, At, Main
  <2>2. Main' = Idle /\ Side' = Side
    BY <2>1, MainDone
  <2> QED
    BY <2>1, <2>2, PairFrame DEF PairSteps
<1>5. CASE SetGate(r)
  <2>1. Main.pc = "gate_memory" /\ Go(r, "gate_sqlite") /\ UNCHANGED <<approvals, flow, ui, cloud>>
    BY <1>5 DEF SetGate, At, Main
  <2> QED
    BY <1>2, <2>1, PairFrame DEF PairSteps
<1>6. CASE StoreGate(r)
  <2>1. Main.pc = "gate_sqlite" /\ Go(r, "check_rows") /\ UNCHANGED <<approvals, flow, ui, cloud>>
    BY <1>6 DEF StoreGate, At, Main
  <2> QED
    BY <1>2, <2>1, PairFrame DEF PairSteps
<1>7. CASE CheckRows(r)
  <2>1. Main.pc = "check_rows" /\ UNCHANGED <<secret, local, memGate, approvals, cloud, agreed>>
    BY <1>7 DEF CheckRows, At, Main
  <2>2. \/ Done(r) /\ ui' = "closed" /\ flow' = flow
        \/ Done(r) /\ flow' = "overwrite" /\ ui' = ui
        \/ rows = "none" /\ Go(r, "capture") /\ UNCHANGED <<flow, ui>>
    BY <1>7 DEF CheckRows
  <2>3. ASSUME Done(r) PROVE Main' = Idle /\ Side' = Side
    BY <2>3, MainDone
  <2>4. CASE rows = "none" /\ Go(r, "capture") /\ UNCHANGED <<flow, ui>>
    <3>1. Main.kind = "begin"
      BY <1>1, <2>1 DEF FlowSound, Kind, EnableSteps, ClearSteps, BootSteps, Path
    <3> QED
      BY <2>1, <2>4, <3>1, MainGo, StepFrame DEF BootSteps, Path, Pc
  <2> QED
    BY <2>1, <2>2, <2>3, <2>4, PairFrame DEF PairSteps
<1> QED
  BY <1>3, <1>4, <1>5, <1>6, <1>7

LEMMA BootConsent ==
    ASSUME TypeOK, GateInv, TeamInv, ConsentInv, NEW r, r = "main",
           \/ KeepApproval(r) \/ CaptureGate(r) \/ Verify(r) \/ PersistConfig(r) \/ Decide(r)
           \/ Download(r) \/ Restore(r) \/ LiftGate(r) \/ ResetSession(r) \/ MarkBootstrapped(r)
    PROVE  ConsentInv'
<1> USE DEF local, memory
<1>1. /\ r \in Slot /\ req \in [Slot -> Request] /\ Main \in Request /\ cloud \in Cloud
      /\ config \in [Device -> [row : BOOLEAN, boot : BOOLEAN, gate : Gate]]
      /\ Main.kind \in Kind /\ FlowSound /\ HeldSound /\ AskedSound /\ SnapSound /\ PathSound
  BY DEF TypeOK, Slot, Main, Request, ConsentInv
<1>2. ASSUME Main.pc \in Path \union {"lift"}
      PROVE  Main.kind \in {"begin", "poll", "approve", "reconcile"}
  BY <1>1, <1>2 DEF FlowSound, Kind, EnableSteps, ClearSteps, Path
<1>0. ASSUME NEW pc \in BootSteps, Go(r, pc)
       PROVE  /\ Main'.pc = pc /\ Main'.kind = Main.kind /\ Main'.dev = Main.dev
              /\ Main'.keep = Main.keep /\ Main'.agreed = Main.agreed /\ Side' = Side
  <2>1. pc \in Pc
    BY DEF BootSteps, Path, Pc
  <2> QED
    BY <1>0, <2>1, MainGo
<1>3. CASE KeepApproval(r)
  <2>1. /\ Main.pc = "allow" /\ approvals' = approvals \union {Main.dev}
        /\ req' = [req EXCEPT !["main"].pc = "capture", !["main"].keep = TRUE]
        /\ UNCHANGED <<secret, config, rows, flow, ui, cloud, agreed>>
    BY <1>3 DEF KeepApproval, At, Main
  <2>2. /\ Main'.pc = "capture" /\ Main'.kind = Main.kind /\ Main'.dev = Main.dev /\ Main'.keep
        /\ Main'.agreed = Main.agreed /\ Side' = Side
    BY <1>1, <2>1 DEF Main, Side, Request, Slot
  <2>3. Main.kind = "reconcile" /\ agreed
    BY <1>1, <2>1 DEF FlowSound, PathSound, Kind, EnableSteps, ClearSteps, BootSteps, Path, PairSteps
  <2>4. flow = "none"
    BY <1>1, <2>3 DEF FlowSound
  <2>5. FlowSound'
    BY <1>1, <2>1, <2>2, <2>3 DEF FlowSound, BootSteps, Path
  <2>6. HeldSound'
    <3>1. \A d \in Device : Held(d)' => Held(d)
      BY <2>1, <2>2 DEF Held, Asked, Me
    <3> QED
      BY <1>1, <2>1, <2>2, <3>1, HeldFrame
  <2>7. AskedSound'
    BY <2>1, <2>3 DEF AskedSound
  <2>8. KeysSound' /\ SnapSound'
    BY <2>2 DEF KeysSound, SnapSound
  <2>9. PathSound'
    BY <2>1, <2>2, <2>3, <2>4 DEF PathSound
  <2> QED
    BY <2>5, <2>6, <2>7, <2>8, <2>9 DEF ConsentInv
<1>4. CASE CaptureGate(r)
  <2>1. Main.pc = "capture" /\ UNCHANGED <<secret, config, rows, cloud, agreed>>
    BY <1>4 DEF CaptureGate, At, Main
  <2>2. CASE Conclude(r, "error")
    BY <2>1, <2>2, ConcludeFrame DEF BootSteps, Path
  <2>3. CASE /\ UNCHANGED <<flow, approvals, ui>>
             /\ \E gate : req' = [req EXCEPT ![r].pc = "verify", ![r].gate = gate]
    <3>1. /\ Main'.pc = "verify" /\ Main'.kind = Main.kind /\ Main'.dev = Main.dev
          /\ Main'.keep = Main.keep /\ Main'.agreed = Main.agreed /\ Side' = Side
      BY <1>1, <2>3 DEF Main, Side, Request, Slot
    <3> QED
      BY <1>2, <2>1, <2>3, <3>1, StepFrame DEF BootSteps, Path
  <2> QED
    BY <1>4, <2>2, <2>3 DEF CaptureGate
<1>5. CASE Verify(r)
  <2>1. /\ Main.pc = "verify" /\ UNCHANGED <<secret, config, rows, cloud, agreed>>
        /\ \/ Go(r, "persist") /\ UNCHANGED <<flow, approvals, ui>>
           \/ Conclude(r, "not_ready")
    BY <1>5 DEF Verify, At, Main
  <2>2. CASE Conclude(r, "not_ready")
    BY <2>1, <2>2, ConcludeFrame DEF BootSteps, Path
  <2>3. CASE Go(r, "persist") /\ UNCHANGED <<flow, approvals, ui>>
    BY <1>2, <2>1, <2>3, <1>0, StepFrame DEF BootSteps, Path
  <2> QED
    BY <2>1, <2>2, <2>3
<1>6. CASE PersistConfig(r)
  <2>1. /\ Main.pc = "persist" /\ Go(r, "decide")
        /\ UNCHANGED <<secret, rows, cloud, agreed, flow, approvals, ui>>
    BY <1>6 DEF PersistConfig, At, Main
  <2>2. \A d \in Device : config'[d].boot = config[d].boot
    BY <1>1, <1>6 DEF PersistConfig
  <2> QED
    BY <1>2, <2>1, <2>2, <1>0, StepFrame DEF BootSteps, Path
<1>7. CASE Decide(r)
  <2>1. Main.pc = "decide" /\ UNCHANGED <<secret, config, rows, cloud, agreed>>
    BY <1>7 DEF Decide, At, Main
  <2>2. ASSUME NEW outcome, Conclude(r, outcome) PROVE ConsentInv'
    BY <2>1, <2>2, ConcludeFrame DEF BootSteps, Path
  <2>3. CASE /\ req' = [req EXCEPT ![r].pc = IF cloud.snap = NoSnapshot THEN "reset" ELSE "download",
                                   ![r].snap = cloud.snap, ![r].covered = cloud.covers,
                                   ![r].key = cloud.epoch]
             /\ UNCHANGED <<memory, ui>>
    <3>1. /\ Main'.kind = Main.kind /\ Main'.dev = Main.dev
          /\ Main'.pc = IF cloud.snap = NoSnapshot THEN "reset" ELSE "download"
          /\ Main'.keep = Main.keep /\ Main'.agreed = Main.agreed /\ Side' = Side
      BY <1>1, <2>3 DEF Main, Side, Request, Slot
    <3>2. Main.kind \in {"begin", "poll", "approve", "reconcile"}
      BY <1>2, <2>1 DEF Path
    <3>3. CASE cloud.snap = NoSnapshot
      BY <2>1, <2>3, <3>1, <3>2, <3>3, StepFrame DEF BootSteps, Path
    <3>4. CASE cloud.snap # NoSnapshot
      BY <2>1, <2>3, <3>1, <3>2, <3>4, StepFrame DEF BootSteps, Path
    <3> QED
      BY <3>3, <3>4
  <2>4. \/ Conclude(r, "error") \/ Conclude(r, "skipped") \/ Conclude(r, "requested")
        \/ /\ req' = [req EXCEPT ![r].pc = IF cloud.snap = NoSnapshot THEN "reset" ELSE "download",
                                 ![r].snap = cloud.snap, ![r].covered = cloud.covers,
                                 ![r].key = cloud.epoch]
           /\ UNCHANGED <<memory, ui>>
    BY <1>7 DEF Decide
  <2> QED
    BY <2>2, <2>3, <2>4
<1>8. CASE Download(r)
  <2>1. /\ Main.pc = "download" /\ UNCHANGED <<secret, config, rows, cloud, agreed>>
        /\ \/ Go(r, "restore") /\ UNCHANGED <<flow, approvals, ui>>
           \/ Conclude(r, "error")
    BY <1>8 DEF Download, At, Main
  <2>2. CASE Conclude(r, "error")
    BY <2>1, <2>2, ConcludeFrame DEF BootSteps, Path
  <2>3. CASE Go(r, "restore") /\ UNCHANGED <<flow, approvals, ui>>
    BY <1>2, <2>1, <2>3, <1>0, StepFrame DEF BootSteps, Path
  <2> QED
    BY <2>1, <2>2, <2>3
<1>9. CASE Restore(r)
  <2>1. Main.pc = "restore" /\ Go(r, "lift") /\ rows' = "restored" /\ agreed' = FALSE
    BY <1>9, Zenon DEF Restore, At, Main
  <2>2. UNCHANGED <<secret, flow, approvals, ui, cloud>>
    BY <1>9, Zenon DEF Restore
  <2>3. config' = [d \in Device |-> IF d = Main.dev
                     THEN [config[d] EXCEPT !.row = TRUE, !.boot = TRUE] ELSE NoRow]
    BY <1>9, Zenon DEF Restore, Main
  <2>4. Main.dev \in Device
    BY <2>1 DEF GateInv, MainSound, Chosen, Main
  <2>5. config'[Main.dev].boot
    BY <1>1, <2>3, <2>4
  <2>6. /\ Main'.pc = "lift" /\ Main'.kind = Main.kind /\ Main'.dev = Main.dev
        /\ Main'.keep = Main.keep /\ Side' = Side
    BY <2>1, MainGo DEF Pc
  <2>7. Main.kind \in {"begin", "poll", "approve", "reconcile"}
    BY <1>2, <2>1 DEF Path
  <2>8. FlowSound'
    BY <1>1, <2>2, <2>6, <2>7 DEF FlowSound, BootSteps
  <2>9. \A d \in Device : Held(d)' => Held(d)
    BY <2>2, <2>6 DEF Held, Asked, Me
  <2>10. HeldSound'
    BY <1>1, <2>1, <2>2, <2>6, <2>9, HeldFrame
  <2>11. AskedSound'
    <3>1. ASSUME NEW d \in Device, Asked(d)', CanUse(cloud', d)
          PROVE  config'[d].boot /\ cloud'.snap # NoSnapshot
      <4>1. Held(d) /\ CanUse(cloud, d)
        BY <2>2, <2>9, <3>1 DEF Held
      <4>2. Main.dev = d
        BY <1>1, <2>1, <2>7, <4>1 DEF HeldSound
      <4> QED
        BY <1>1, <2>1, <2>2, <2>5, <4>1, <4>2 DEF SnapSound
    <3> QED
      BY <2>6, <3>1 DEF AskedSound
  <2>12. KeysSound' /\ SnapSound'
    BY <2>6 DEF KeysSound, SnapSound
  <2>13. PathSound'
    BY <1>1, <2>2, <2>6, <2>7 DEF PathSound, FlowSound, Path
  <2> QED
    BY <2>8, <2>10, <2>11, <2>12, <2>13 DEF ConsentInv
<1>10. CASE LiftGate(r)
  <2>1. Main.pc = "lift" /\ Conclude(r, "applied") /\ UNCHANGED <<secret, rows, cloud, agreed>>
    BY <1>10 DEF LiftGate, At, Main
  <2>2. \A d \in Device : config'[d].boot = config[d].boot
    BY <1>1, <1>10 DEF LiftGate
  <2> QED
    BY <2>1, <2>2, ConcludeFrame DEF BootSteps
<1>11. CASE ResetSession(r)
  <2>1. /\ Main.pc = "reset" /\ Go(r, "mark")
        /\ UNCHANGED <<secret, flow, approvals, ui, cloud, agreed>>
        /\ rows = "none" => rows' = "none"
    BY <1>11 DEF ResetSession, SessionReset, At, Main
  <2> QED
    BY <2>1, <1>0, StepFrame DEF BootSteps, Path
<1>12. CASE MarkBootstrapped(r)
  <2>1. /\ Main.pc = "mark" /\ Conclude(r, "skipped") /\ UNCHANGED <<secret, cloud, agreed>>
        /\ rows = "none" => rows' = "none"
    BY <1>12 DEF MarkBootstrapped, At, Main
  <2>2. \A d \in Device : config[d].boot => config'[d].boot
    BY <1>1, <1>12 DEF MarkBootstrapped
  <2> QED
    BY <2>1, <2>2, ConcludeFrame DEF BootSteps
<1> QED
  BY <1>3, <1>4, <1>5, <1>6, <1>7, <1>8, <1>9, <1>10, <1>11, <1>12

LEMMA MainStart ==
    ASSUME TypeOK, NEW kind, NEW pc, Start("main", kind, pc)
    PROVE  /\ Main = Idle /\ Side' = Side
           /\ Main'.kind = kind /\ Main'.pc = pc /\ Main'.dev = Me /\ Main'.keep = FALSE
           /\ Main'.key = 0 /\ Main'.agreed = (agreed \/ kind = "approve")
<1> DEFINE new == [Idle EXCEPT !.kind = kind, !.pc = pc, !.dev = Me,
                               !.agreed = agreed \/ kind = "approve"]
<1>1. req \in [Slot -> Request] /\ "main" \in Slot /\ "cancel" \in Slot
  BY DEF TypeOK, Slot
<1>2. /\ new.kind = kind /\ new.pc = pc /\ new.dev = Me /\ new.keep = FALSE /\ new.key = 0
      /\ new.agreed = (agreed \/ kind = "approve")
  BY DEF Idle
<1> HIDE DEF new
<1>3. req["main"] = Idle /\ req' = [req EXCEPT !["main"] = new]
  BY DEF Start, new
<1> QED
  BY <1>1, <1>2, <1>3 DEF Main, Side

\* A device that the user has been asked about, and that the server knows, is ready.
LEMMA HeldReady ==
    ASSUME TypeOK, HeldSound, SyncState # "ready" \/ ui \notin {"closed", "asking"}
    PROVE  Nobody
<1>1. ASSUME NEW d \in Device, Held(d), CanUse(cloud, d) PROVE FALSE
  <2>1. /\ Me = d /\ secret.key # 0 /\ secret.key = cloud.epoch
        /\ cloud.trust[d] = "trusted" /\ ui \in {"closed", "asking"}
    BY <1>1 DEF HeldSound
  <2>2. Me # NoDevice /\ Usable(Me)
    BY <2>1, SessionAssumption DEF Usable
  <2> QED
    BY <2>1, <2>2 DEF SyncState
<1> QED
  BY <1>1 DEF Nobody

LEMMA ReadyMeans ==
    ASSUME TypeOK, SyncState = "ready"
    PROVE  /\ Me \in Device /\ secret.key # 0 /\ secret.key = cloud.epoch
           /\ cloud.trust[Me] = "trusted"
<1>1. Me # NoDevice /\ Usable(Me)
  BY DEF SyncState
<1>2. Me \in Device
  BY <1>1 DEF TypeOK, Identity, Me
<1>3. ~(secret.key = 0 \/ cloud.trust[Me] # "trusted")
  BY <1>1 DEF SyncState
<1>4. secret.key = cloud.epoch
  BY <1>1, <1>3 DEF SyncState
<1> QED
  BY <1>2, <1>3, <1>4

\* A request that begins when nobody has been asked.
LEMMA BeginFrame ==
    ASSUME TypeOK, ConsentInv, Nobody, UNCHANGED <<cloud, approvals>>, ~Main'.keep,
           Main'.pc \notin {"allow", "save_identity", "keys", "download", "restore"},
           ui' # "asking"
    PROVE  HeldSound' /\ AskedSound' /\ KeysSound' /\ SnapSound'
<1>1. \A d \in Device : Held(d)' => Held(d)
  BY DEF Held, Asked
<1>2. HeldSound' /\ AskedSound'
  BY <1>1, NobodyFrame DEF ConsentInv
<1>3. KeysSound' /\ SnapSound'
  BY DEF KeysSound, SnapSound
<1> QED
  BY <1>2, <1>3

LEMMA QuietMeans ==
    ASSUME Quiet
    PROVE  Main = Idle /\ Side = Idle
BY DEF Quiet, Slot, Main, Side

\* Steps that change nothing the consent rests on.
LEMMA SameConsent ==
    ASSUME ConsentInv, UNCHANGED <<secret, approvals, ui, flow, req, cloud, agreed>>,
           rows' = rows \/ (Main = Idle /\ flow = "none"),
           \A d \in Device : config'[d].boot = config[d].boot
    PROVE  ConsentInv'
<1>1. FlowSound /\ HeldSound /\ KeysSound /\ AskedSound /\ SnapSound /\ PathSound
  BY DEF ConsentInv
<1>2. Main' = Main /\ Side' = Side
  BY DEF Main, Side
<1>3. Idle.pc = "idle"
  BY DEF Idle
<1>4. \A d \in Device : Asked(d)' = Asked(d) /\ Held(d)' = Held(d)
  BY <1>2 DEF Asked, Held, Me
<1>5. FlowSound'
  BY <1>1, <1>2 DEF FlowSound
<1>6. HeldSound'
  BY <1>1, <1>2, <1>4 DEF HeldSound, Me
<1>7. KeysSound' /\ SnapSound'
  BY <1>1, <1>2 DEF KeysSound, SnapSound, Asked
<1>8. AskedSound'
  BY <1>1, <1>2, <1>4 DEF AskedSound
<1>9. PathSound'
  BY <1>1, <1>2, <1>3 DEF PathSound, Path
<1> QED
  BY <1>5, <1>6, <1>7, <1>8, <1>9 DEF ConsentInv

LEMMA UserConsent ==
    ASSUME TypeOK, GateInv, ConsentInv, User
    PROVE  ConsentInv'
<1> USE DEF local, memory
<1>1. /\ req \in [Slot -> Request] /\ FlowSound /\ HeldSound /\ AskedSound /\ PathSound
      /\ Main.kind \in Kind
      /\ config \in [Device -> [row : BOOLEAN, boot : BOOLEAN, gate : Gate]]
      /\ flow \in {"none", "overwrite", "waiting", "bootstrapping"}
  BY DEF TypeOK, ConsentInv, Slot, Main, Request
<1>2. /\ Idle.kind = "none" /\ Idle.pc = "idle" /\ Idle.keep = FALSE
  BY DEF Idle
<1>3. CASE EnableSync
  <2>1. /\ ui = "closed" /\ SyncState = "fresh" /\ Quiet /\ Start("main", "enable", "enroll")
        /\ UNCHANGED <<ui, flow, approvals, cloud>>
    BY <1>3 DEF EnableSync
  <2>2. Nobody
    BY <1>1, <2>1, HeldReady
  <2>3. /\ Main'.kind = "enable" /\ Main'.pc = "enroll" /\ Main'.keep = FALSE /\ Side' = Idle
    BY <2>1, MainStart, QuietMeans
  <2>4. flow = "none"
    BY <1>1, <2>1 DEF FlowSound
  <2>5. FlowSound'
    BY <1>2, <2>1, <2>3, <2>4 DEF FlowSound, EnableSteps
  <2>6. PathSound'
    BY <2>1, <2>3, <2>4 DEF PathSound, Path
  <2> QED
    BY <2>1, <2>2, <2>3, <2>5, <2>6, BeginFrame DEF ConsentInv
<1>4. CASE ReinitializeSync
  <2>1. /\ ui = "closed" /\ Quiet /\ Start("main", "enable", "reset_team")
        /\ UNCHANGED <<secret, config, ui, flow, approvals, cloud, agreed>>
    BY <1>4 DEF ReinitializeSync
  <2>2. /\ Main'.kind = "enable" /\ Main'.pc = "reset_team" /\ Main'.keep = FALSE /\ Side' = Idle
        /\ Main = Idle /\ Side = Idle
    BY <2>1, MainStart, QuietMeans
  <2>3. flow = "none"
    BY <1>1, <2>1 DEF FlowSound
  <2>4. FlowSound'
    BY <1>2, <2>1, <2>2, <2>3 DEF FlowSound, EnableSteps
  <2>5. \A d \in Device : (Held(d)' => Held(d)) /\ (Asked(d)' => Asked(d))
    BY <2>1, <2>2 DEF Held, Asked, Me
  <2>6. HeldSound'
    BY <1>1, <2>1, <2>2, <2>5 DEF HeldSound, Me, Was, CanUse
  <2>7. AskedSound'
    BY <1>1, <2>1, <2>2, <2>5 DEF AskedSound, CanUse
  <2>8. KeysSound' /\ SnapSound'
    BY <2>2 DEF KeysSound, SnapSound
  <2>9. PathSound'
    BY <2>1, <2>2, <2>3 DEF PathSound, Path
  <2> QED
    BY <2>4, <2>6, <2>7, <2>8, <2>9 DEF ConsentInv
<1>5. CASE ClearSyncData
  <2>1. /\ ui = "failed" \/ (ui = "closed" /\ SyncState \in {"recovery", "registered"})
        /\ Quiet /\ Start("main", "clear", "clear_identity")
        /\ UNCHANGED <<ui, flow, approvals, cloud>>
    BY <1>5 DEF ClearSyncData
  <2>2. Nobody
    BY <1>1, <2>1, HeldReady
  <2>3. /\ Main'.kind = "clear" /\ Main'.pc = "clear_identity" /\ Main'.keep = FALSE
        /\ Main'.key = 0 /\ Side' = Idle
    BY <2>1, MainStart, QuietMeans
  <2>4. flow = "none"
    BY <1>1, <2>1 DEF FlowSound
  <2>5. FlowSound'
    BY <1>2, <2>1, <2>3, <2>4 DEF FlowSound, ClearSteps
  <2>6. PathSound'
    BY <2>1, <2>3, <2>4 DEF PathSound, Path
  <2> QED
    BY <2>1, <2>2, <2>3, <2>5, <2>6, BeginFrame DEF ConsentInv
<1>6. CASE CancelFlow
  <2>1. /\ ui = "pairing" /\ flow \in {"overwrite", "waiting"}
        /\ Start("cancel", "cancel", "delete_device")
        /\ UNCHANGED <<config, ui, flow, approvals, cloud, rows, agreed>>
    BY <1>6 DEF CancelFlow
  <2>2. Main' = Main
    BY <1>1, <2>1 DEF Start, Main, Slot
  <2>3. Side'.kind = "cancel"
    <3> DEFINE new == [Idle EXCEPT !.kind = "cancel", !.pc = "delete_device", !.dev = Me,
                                   !.agreed = agreed \/ "cancel" = "approve"]
    <3>1. new.kind = "cancel"
      BY DEF Idle
    <3> HIDE DEF new
    <3>2. req' = [req EXCEPT !["cancel"] = new]
      BY <2>1 DEF Start, new
    <3> QED
      BY <1>1, <3>1, <3>2 DEF Side, Slot
  <2>4. Main.kind \in {"none", "poll", "approve"}
    BY <1>1, <2>1 DEF FlowSound, Kind
  <2>5. FlowSound'
    BY <1>1, <2>1, <2>2, <2>3, <2>4 DEF FlowSound
  <2>6. HeldSound' /\ AskedSound'
    <3>1. Nobody
      BY <1>1, <2>1, HeldReady
    <3>2. \A d \in Device : Held(d)' => Held(d)
      BY <2>1, <2>2 DEF Held, Asked
    <3> QED
      BY <1>1, <2>1, <3>1, <3>2, NobodyFrame
  <2>7. KeysSound' /\ SnapSound' /\ PathSound'
    BY <2>1, <2>2 DEF ConsentInv, KeysSound, SnapSound, PathSound, Asked
  <2> QED
    BY <2>5, <2>6, <2>7 DEF ConsentInv
<1>7. CASE SignOut
  <2>1. UNCHANGED <<secret, rows, approvals, ui, flow, req, cloud, agreed>>
    BY <1>7 DEF SignOut
  <2>2. \A d \in Device : config'[d].boot = config[d].boot
    BY <1>1, <1>7 DEF SignOut, ClearGates
  <2> QED
    BY <2>1, <2>2, SameConsent
<1>8. CASE BeginPairing
  <2>1. /\ ui = "closed" /\ SyncState \in {"registered", "stale"} /\ Quiet /\ ui' = "pairing"
        /\ req' = [req EXCEPT !["main"] = [Idle EXCEPT !.kind = "begin", !.pc = "confirm",
                                                       !.dev = Me, !.gate = round + 1]]
        /\ UNCHANGED <<flow, approvals, cloud>>
    BY <1>8 DEF BeginPairing
  <2>2. Nobody
    BY <1>1, <2>1, HeldReady
  <2>3. Main'.kind = "begin" /\ Main'.pc = "confirm" /\ Main'.keep = FALSE /\ Side' = Idle
    <3> DEFINE new == [Idle EXCEPT !.kind = "begin", !.pc = "confirm", !.dev = Me,
                                   !.gate = round + 1]
    <3>1. new.kind = "begin" /\ new.pc = "confirm" /\ new.keep = FALSE
      BY DEF Idle
    <3> HIDE DEF new
    <3>2. req' = [req EXCEPT !["main"] = new]
      BY <2>1 DEF new
    <3> QED
      BY <1>1, <2>1, <3>1, <3>2, QuietMeans DEF Main, Side, Slot
  <2>4. flow = "none"
    BY <1>1, <2>1 DEF FlowSound
  <2>5. FlowSound'
    BY <1>2, <2>1, <2>3, <2>4 DEF FlowSound, PairSteps
  <2>6. PathSound'
    BY <2>1, <2>3, <2>4 DEF PathSound, Path
  <2> QED
    BY <2>1, <2>2, <2>3, <2>5, <2>6, BeginFrame DEF ConsentInv
<1>9. CASE EnterRows
  <2>1. /\ Quiet /\ flow = "none"
        /\ UNCHANGED <<secret, config, approvals, ui, flow, req, cloud, agreed>>
    BY <1>9 DEF EnterRows
  <2> QED
    BY <2>1, QuietMeans, SameConsent
<1> QED
  BY <1>3, <1>4, <1>5, <1>6, <1>7, <1>8, <1>9 DEF User

LEMMA InterfaceConsent ==
    ASSUME TypeOK, GateInv, ConsentInv, Interface \/ Answer
    PROVE  ConsentInv'
<1> USE DEF local, memory
<1>1. /\ req \in [Slot -> Request] /\ FlowSound /\ HeldSound /\ AskedSound /\ PathSound
      /\ approvals \subseteq Device \union {NoDevice}
  BY DEF TypeOK, ConsentInv
<1>2. /\ Idle.kind = "none" /\ Idle.pc = "idle" /\ Idle.keep = FALSE
  BY DEF Idle
<1>3. CASE PollFlow
  <2>1. /\ ui = "pairing" /\ flow = "waiting" /\ Start("main", "poll", "capture")
        /\ UNCHANGED <<rows, config, ui, flow, approvals, cloud, agreed>>
    BY <1>3 DEF PollFlow
  <2>2. Nobody
    BY <1>1, <2>1, HeldReady
  <2>3. /\ Main = Idle /\ Main'.kind = "poll" /\ Main'.pc = "capture" /\ Main'.keep = FALSE
        /\ (agreed => Main'.agreed) /\ Side' = Side
    BY <2>1, MainStart
  <2>4. rows = "none" \/ agreed
    BY <1>1, <1>2, <2>1, <2>3 DEF PathSound
  <2>5. FlowSound'
    BY <1>1, <1>2, <2>1, <2>3 DEF FlowSound, BootSteps, Path
  <2>6. PathSound'
    BY <2>1, <2>3, <2>4 DEF PathSound
  <2> QED
    BY <2>1, <2>2, <2>3, <2>5, <2>6, BeginFrame DEF ConsentInv
<1>4. CASE ApproveOverwrite
  <2>1. /\ ui = "pairing" /\ flow = "overwrite" /\ Start("main", "approve", "capture")
        /\ flow' = "bootstrapping" /\ agreed' = TRUE
        /\ UNCHANGED <<rows, config, ui, approvals, cloud>>
    BY <1>4 DEF ApproveOverwrite
  <2>2. Nobody
    BY <1>1, <2>1, HeldReady
  <2>3. /\ Main = Idle /\ Main'.kind = "approve" /\ Main'.pc = "capture" /\ Main'.keep = FALSE
        /\ Main'.agreed /\ Side' = Side
    BY <2>1, MainStart
  <2>4. FlowSound'
    BY <1>1, <1>2, <2>1, <2>3 DEF FlowSound, BootSteps, Path
  <2>5. PathSound'
    BY <2>1, <2>3 DEF PathSound
  <2> QED
    BY <2>1, <2>2, <2>3, <2>4, <2>5, BeginFrame DEF ConsentInv
<1>5. CASE RetryPairing
  <2>1. /\ ui = "failed" /\ Quiet /\ ui' = "closed"
        /\ UNCHANGED <<secret, local, memory, req, cloud>>
    BY <1>5 DEF RetryPairing
  <2>2. Nobody /\ Main = Idle /\ Main' = Main /\ Side' = Side
    BY <1>1, <2>1, HeldReady, QuietMeans DEF Main, Side
  <2>3. flow = "none"
    BY <1>1, <2>1 DEF FlowSound
  <2>4. FlowSound'
    BY <1>1, <1>2, <2>1, <2>2, <2>3 DEF FlowSound
  <2>5. PathSound'
    BY <1>2, <2>1, <2>2, <2>3 DEF PathSound, Path
  <2> QED
    BY <1>2, <2>1, <2>2, <2>4, <2>5, BeginFrame DEF ConsentInv
<1>6. CASE CheckOverwrite
  <2>1. /\ Quiet /\ ui = "closed" /\ SyncState = "ready"
        /\ UNCHANGED <<secret, rows, config, flow, cloud, agreed>>
    BY <1>6 DEF CheckOverwrite
  <2>2. Main = Idle /\ Side = Idle
    BY <2>1, QuietMeans
  <2>3. /\ Me \in Device /\ secret.key # 0 /\ secret.key = cloud.epoch
        /\ cloud.trust[Me] = "trusted"
    BY <2>1, ReadyMeans
  <2>4. flow = "none"
    BY <1>1, <2>1 DEF FlowSound
  <2>5. CASE ui' = "asking" /\ req' = req /\ approvals' = approvals
    <3>1. Main' = Main /\ Side' = Side
      BY <2>5 DEF Main, Side
    <3>2. \A d \in Device : /\ Asked(d)' => Asked(d)
                            /\ Held(d)' => Held(d) \/ d = Me
      BY <1>2, <2>1, <2>2, <2>5, <3>1 DEF Held, Asked, Me
    <3>3. FlowSound'
      BY <1>1, <1>2, <2>1, <2>2, <2>4, <2>5, <3>1 DEF FlowSound
    <3>4. HeldSound'
      <4>1. ASSUME NEW d \in Device, Held(d)' PROVE Was(cloud, d) /\ (CanUse(cloud, d) => Me = d)
        BY <1>1, <2>3, <3>2, <4>1 DEF HeldSound, Was
      <4>2. ASSUME NEW d \in Device, Held(d)', CanUse(cloud, d)
            PROVE  cloud.trust[d] = "trusted"
        BY <2>3, <4>1, <4>2
      <4> QED
        BY <1>2, <2>1, <2>2, <2>3, <2>5, <3>1, <4>1, <4>2 DEF HeldSound, Was, CanUse, Me
    <3>5. AskedSound'
      BY <1>1, <2>1, <3>1, <3>2 DEF AskedSound, CanUse
    <3>6. KeysSound' /\ SnapSound'
      BY <1>2, <2>2, <3>1 DEF KeysSound, SnapSound
    <3>7. PathSound'
      BY <1>2, <2>2, <2>4, <2>1, <3>1 DEF PathSound, Path
    <3> QED
      BY <3>3, <3>4, <3>5, <3>6, <3>7 DEF ConsentInv
  <2>6. CASE /\ IF NeedsBootstrap(Me)
                THEN (rows = "none" \/ Me \in approvals) /\ approvals' = approvals
                ELSE approvals' = approvals \ {Me}
             /\ req' = [req EXCEPT !["main"] =
                          [Idle EXCEPT !.kind = "reconcile", !.pc = "capture", !.dev = Me,
                                       !.agreed = agreed, !.keep = Me \in approvals']]
             /\ ui' = ui
    <3>1. /\ Main'.kind = "reconcile" /\ Main'.pc = "capture" /\ Main'.dev = Me
          /\ Main'.keep => Me \in approvals'
          /\ Side' = Idle
      <4> DEFINE new == [Idle EXCEPT !.kind = "reconcile", !.pc = "capture", !.dev = Me,
                                     !.agreed = agreed, !.keep = Me \in approvals']
      <4>1. /\ new.kind = "reconcile" /\ new.pc = "capture" /\ new.dev = Me
            /\ new.keep = (Me \in approvals')
        BY DEF Idle
      <4> HIDE DEF new
      <4>2. req' = [req EXCEPT !["main"] = new]
        BY <2>6 DEF new
      <4> QED
        BY <1>1, <2>2, <4>1, <4>2 DEF Main, Side, Slot
    <3>2. approvals' \subseteq approvals
      BY <2>6
    <3>3. \A d \in Device : /\ Asked(d)' => Asked(d)
                            /\ Held(d)' => Held(d)
      BY <2>1, <2>6, <3>1, <3>2 DEF Held, Asked, Me
    <3>4. rows = "none" \/ agreed \/ config[Me].boot
      <4>1. CASE ~NeedsBootstrap(Me)
        BY <4>1 DEF NeedsBootstrap
      <4>2. CASE Me \in approvals
        BY <1>1, <2>3, <4>2 DEF AskedSound, Asked, CanUse
      <4> QED
        BY <2>6, <4>1, <4>2
    <3>5. FlowSound'
      BY <1>1, <1>2, <2>1, <2>4, <2>6, <3>1 DEF FlowSound, BootSteps, Path
    <3>6. HeldSound'
      <4>1. ASSUME NEW d \in Device, Held(d)'
            PROVE  /\ Was(cloud, d)
                   /\ CanUse(cloud, d) => Me = d /\ cloud.trust[d] = "trusted"
        BY <1>1, <3>3, <4>1 DEF HeldSound
      <4> QED
        BY <2>1, <2>3, <2>6, <3>1, <4>1 DEF HeldSound, Was, CanUse, Me
    <3>7. AskedSound'
      BY <1>1, <2>1, <3>1, <3>3 DEF AskedSound, CanUse
    <3>8. KeysSound' /\ SnapSound'
      BY <3>1 DEF KeysSound, SnapSound
    <3>9. PathSound'
      BY <2>1, <2>3, <2>4, <3>1, <3>4 DEF PathSound
    <3> QED
      BY <3>5, <3>6, <3>7, <3>8, <3>9 DEF ConsentInv
  <2>7. \/ ui' = "asking" /\ req' = req /\ approvals' = approvals
        \/ /\ IF NeedsBootstrap(Me)
              THEN (rows = "none" \/ Me \in approvals) /\ approvals' = approvals
              ELSE approvals' = approvals \ {Me}
           /\ req' = [req EXCEPT !["main"] =
                        [Idle EXCEPT !.kind = "reconcile", !.pc = "capture", !.dev = Me,
                                     !.agreed = agreed, !.keep = Me \in approvals']]
           /\ ui' = ui
    BY <1>6 DEF CheckOverwrite
  <2> QED
    BY <2>5, <2>6, <2>7
<1>7. CASE AllowOverwrite
  <2>1. /\ ui = "asking" /\ Me # NoDevice /\ Quiet /\ Start("main", "reconcile", "allow")
        /\ agreed' = TRUE /\ UNCHANGED <<secret, rows, config, flow, approvals, ui, cloud>>
    BY <1>7 DEF AllowOverwrite
  <2>2. /\ Main = Idle /\ Side' = Idle /\ Main'.kind = "reconcile" /\ Main'.pc = "allow"
        /\ Main'.dev = Me /\ Main'.keep = FALSE
    <3>1. Side = Idle
      BY <2>1, QuietMeans
    <3>2. Start("main", "reconcile", "allow")
      BY <2>1
    <3> QED
      BY <3>1, <3>2, MainStart
  <2>3. flow = "none"
    BY <1>1, <2>1 DEF FlowSound
  <2>4. \A d \in Device : Held(d)' => Held(d)
    BY <2>1, <2>2 DEF Held, Asked, Me
  <2>5. FlowSound'
    BY <1>1, <1>2, <2>1, <2>2, <2>3 DEF FlowSound
  <2>6. HeldSound'
    <3>1. ASSUME NEW d \in Device, Held(d)'
          PROVE  /\ Was(cloud, d)
                 /\ CanUse(cloud, d) => /\ Me = d /\ cloud.trust[d] = "trusted"
                                        /\ secret.key # 0 /\ secret.key = cloud.epoch
      BY <1>1, <2>4, <3>1 DEF HeldSound
    <3> QED
      BY <2>1, <2>2, <3>1 DEF HeldSound, Was, CanUse, Me
  <2>7. AskedSound'
    BY <2>1 DEF AskedSound
  <2>8. KeysSound' /\ SnapSound'
    BY <2>2 DEF KeysSound, SnapSound
  <2>9. PathSound'
    BY <2>1, <2>2, <2>3 DEF PathSound, Path
  <2> QED
    BY <2>5, <2>6, <2>7, <2>8, <2>9 DEF ConsentInv
<1> QED
  BY <1>3, <1>4, <1>5, <1>6, <1>7 DEF Interface, Answer

\* What others do to the server leaves the device its snapshot, or revokes it.
LEMMA PeersConsent ==
    ASSUME TypeOK, GateInv, TeamInv, ConsentInv, Peers
    PROVE  ConsentInv'
<1> USE DEF local, memory
<1>1. /\ cloud \in Cloud /\ round \in Gate
      /\ FlowSound /\ HeldSound /\ AskedSound /\ PathSound /\ KeysSound /\ SnapSound /\ TeamSound
      /\ MainSound
  BY DEF TypeOK, ConsentInv, TeamInv, GateInv
<1>2. /\ UNCHANGED <<secret, config, rows, flow, approvals, ui, req, agreed>>
      /\ \A d \in Device : cloud'.trust[d] \in {cloud.trust[d], "revoked"}
      /\ cloud.keyed => cloud'.keyed
      /\ cloud'.epoch = cloud.epoch \/ ~cloud.keyed \/ (\A d \in Device : ~CanUse(cloud', d))
      /\ \/ cloud.snap # NoSnapshot => cloud'.snap # NoSnapshot
         \/ \A d \in Device : ~CanUse(cloud', d)
  <2>1. CASE PeerUploads
    <3>1. round # NoSnapshot
      BY <1>1, SessionAssumption DEF Gate, NoSnapshot
    <3> QED
      BY <1>1, <2>1, <3>1 DEF PeerUploads, Cloud
  <2>2. CASE PeerPushes
    BY <1>1, <2>2 DEF PeerPushes, Cloud
  <2>3. CASE PeerJoins
    BY <1>1, <2>3 DEF PeerJoins, Cloud
  <2>4. CASE PeerRemoves
    <3>1. UNCHANGED <<secret, config, rows, flow, approvals, ui, req, agreed>>
      BY <2>4 DEF PeerRemoves
    <3>2. \A d \in Device : Revoked[d] = IF cloud.trust[d] = "absent" THEN "absent" ELSE "revoked"
      BY DEF Revoked
    <3>3. CASE cloud' = [cloud EXCEPT !.peer = FALSE]
      BY <1>1, <3>1, <3>3 DEF Cloud
    <3>4. CASE cloud' = [cloud EXCEPT !.trust = Revoked]
      BY <1>1, <3>1, <3>2, <3>4 DEF Cloud, CanUse
    <3>5. CASE cloud' = [cloud EXCEPT !.trust = Revoked, !.epoch = @ + 1,
                                      !.snap = NoSnapshot, !.covers = FALSE]
      BY <1>1, <3>1, <3>2, <3>5 DEF Cloud, CanUse
    <3> QED
      BY <2>4, <3>3, <3>4, <3>5 DEF PeerRemoves
  <2> QED
    BY <2>1, <2>2, <2>3, <2>4 DEF Peers
<1>3. Main' = Main /\ Side' = Side /\ \A d \in Device : Held(d)' = Held(d) /\ Asked(d)' = Asked(d)
  BY <1>2 DEF Main, Side, Held, Asked, Me
<1>4. FlowSound'
  BY <1>1, <1>2, <1>3 DEF FlowSound
<1>5. HeldSound'
  <2>1. ASSUME NEW d \in Device, Held(d) PROVE Was(cloud', d)
    BY <1>1, <1>2, <2>1 DEF HeldSound, Was
  <2>2. ASSUME NEW d \in Device, Held(d), CanUse(cloud', d)
        PROVE  /\ cloud'.trust[d] = cloud.trust[d] /\ CanUse(cloud, d)
               /\ cloud'.epoch = cloud.epoch
    <3>1. cloud'.trust[d] = cloud.trust[d] /\ CanUse(cloud, d)
      BY <1>2, <2>2 DEF CanUse
    <3>2. cloud.trust[d] = "trusted"
      BY <1>1, <2>2, <3>1 DEF HeldSound
    <3>3. cloud.keyed
      BY <1>1, <3>2 DEF TeamSound
    <3> QED
      BY <1>2, <2>2, <3>1, <3>3
  <2> QED
    BY <1>1, <1>2, <1>3, <2>1, <2>2 DEF HeldSound, Me
<1>6. KeysSound'
  BY <1>1, <1>2, <1>3 DEF KeysSound, Asked
<1>7. AskedSound'
  <2>1. ASSUME NEW d \in Device, Asked(d), CanUse(cloud', d)
        PROVE  /\ agreed \/ (config[d].boot /\ cloud'.snap # NoSnapshot)
               /\ Main.pc \in {"reset", "mark"} => agreed
    <3>1. CanUse(cloud, d)
      BY <1>2, <2>1 DEF CanUse
    <3>2. /\ agreed \/ (config[d].boot /\ cloud.snap # NoSnapshot)
          /\ Main.pc \in {"reset", "mark"} => agreed
      BY <1>1, <2>1, <3>1 DEF AskedSound
    <3> QED
      BY <1>2, <2>1, <3>2
  <2> QED
    BY <1>2, <1>3, <2>1 DEF AskedSound
<1>8. SnapSound'
  <2>1. ASSUME Main.pc \in {"download", "restore"}, CanUse(cloud', Main.dev)
        PROVE  cloud'.snap # NoSnapshot
    <3>1. Main.dev \in Device
      BY <1>1, <2>1 DEF MainSound, Main, Chosen
    <3>2. CanUse(cloud, Main.dev)
      BY <1>2, <2>1, <3>1 DEF CanUse
    <3> QED
      BY <1>1, <1>2, <2>1, <3>1, <3>2 DEF SnapSound
  <2> QED
    BY <1>3, <2>1 DEF SnapSound
<1>9. PathSound'
  BY <1>1, <1>2, <1>3 DEF PathSound
<1> QED
  BY <1>4, <1>5, <1>6, <1>7, <1>8, <1>9 DEF ConsentInv

LEMMA FaultConsent ==
    ASSUME TypeOK, GateInv, ConsentInv,
           \/ StaleCursor \/ Reload \/ (\E r \in Slot : RequestFails(r)) \/ Crash
           \/ UNCHANGED vars
    PROVE  ConsentInv'
<1> USE DEF local, memory
<1>1. /\ FlowSound /\ HeldSound /\ AskedSound /\ PathSound /\ Main.kind \in Kind
      /\ "main" \in Slot /\ "cancel" \in Slot
  BY DEF TypeOK, ConsentInv, Slot, Request, Main
<1>2. /\ Idle.kind = "none" /\ Idle.pc = "idle" /\ Idle.keep = FALSE
  BY DEF Idle
<1>3. CASE StaleCursor
  BY <1>3, SameConsent DEF StaleCursor
<1>4. CASE Reload
  <2>1. /\ req' = [r \in Slot |-> Idle] /\ ui' = "closed" /\ flow' = "none"
        /\ UNCHANGED <<secret, config, rows, approvals, cloud, agreed>>
    BY <1>4 DEF Reload
  <2>2. Main' = Idle /\ Side' = Idle
    BY <1>1, <2>1 DEF Main, Side
  <2>3. \A d \in Device : (Held(d)' => Held(d)) /\ (Asked(d)' => Asked(d))
    BY <1>2, <2>1, <2>2 DEF Held, Asked
  <2>4. FlowSound'
    BY <1>2, <2>1, <2>2 DEF FlowSound
  <2>5. HeldSound'
    <3>1. ASSUME NEW d \in Device, Held(d)'
          PROVE  /\ Was(cloud, d)
                 /\ CanUse(cloud, d) => /\ Me = d /\ cloud.trust[d] = "trusted"
                                        /\ secret.key # 0 /\ secret.key = cloud.epoch
      BY <1>1, <2>3, <3>1 DEF HeldSound
    <3> QED
      BY <1>2, <2>1, <2>2, <3>1 DEF HeldSound, Was, CanUse, Me
  <2>6. AskedSound'
    BY <1>1, <1>2, <2>1, <2>2, <2>3 DEF AskedSound, CanUse
  <2>7. KeysSound' /\ SnapSound' /\ PathSound'
    BY <1>2, <2>1, <2>2 DEF KeysSound, SnapSound, PathSound, Path
  <2> QED
    BY <2>4, <2>5, <2>6, <2>7 DEF ConsentInv
<1>5. ASSUME NEW r \in Slot, RequestFails(r) PROVE ConsentInv'
  <2>1. /\ req[r].pc \in {"reset_team", "enroll", "keys", "confirm", "verify", "decide", "download"}
        /\ UNCHANGED <<secret, config, rows, cloud, agreed>>
    BY <1>5 DEF RequestFails
  <2>2. r = "main" /\ Main.pc = req[r].pc
    BY <2>1 DEF GateInv, CancelSound, CancelPc, Slot, Main
  <2>3. CASE Main.pc \in {"verify", "decide", "download"}
    <3>1. Conclude(r, "error")
      BY <1>5, <2>2, <2>3 DEF RequestFails
    <3> QED
      BY <2>1, <2>2, <2>3, <3>1, ConcludeFrame DEF BootSteps, Path
  <2>4. CASE Main.pc \in {"reset_team", "enroll", "keys", "confirm"}
    <3>1. Done(r) /\ ui' = "closed" /\ UNCHANGED <<flow, approvals>>
      BY <1>5, <2>2, <2>4 DEF RequestFails
    <3>2. Main' = Idle /\ Side' = Side
      BY <2>2, <3>1, MainDone
    <3>3. Main.kind \in {"enable", "begin"}
      BY <1>1, <2>4 DEF FlowSound, Kind, ClearSteps, BootSteps, Path
    <3>4. flow = "none" /\ Side = Idle
      BY <1>1, <3>3 DEF FlowSound
    <3>5. \A d \in Device : (Held(d)' => Held(d)) /\ (Asked(d)' => Asked(d))
      BY <1>2, <3>1, <3>2 DEF Held, Asked
    <3>6. FlowSound'
      BY <1>2, <3>1, <3>2, <3>4 DEF FlowSound
    <3>7. HeldSound'
      BY <1>1, <1>2, <2>1, <3>1, <3>2, <3>5, HeldFrame
    <3>8. AskedSound'
      BY <1>1, <1>2, <2>1, <3>2, <3>5 DEF AskedSound, CanUse
    <3>9. KeysSound' /\ SnapSound' /\ PathSound'
      BY <1>2, <3>1, <3>2, <3>4 DEF KeysSound, SnapSound, PathSound, Path
    <3> QED
      BY <3>6, <3>7, <3>8, <3>9 DEF ConsentInv
  <2> QED
    BY <2>1, <2>2, <2>3, <2>4
<1>6. CASE Crash
  <2>1. /\ req' = [r \in Slot |-> Idle] /\ ui' = "closed" /\ flow' = "none" /\ approvals' = {}
    BY <1>6 DEF Crash
  <2>2. Main' = Idle /\ Side' = Idle
    BY <1>1, <2>1 DEF Main, Side
  <2>3. \A d \in Device : ~Held(d)' /\ ~Asked(d)'
    BY <1>2, <2>1, <2>2 DEF Held, Asked
  <2>4. FlowSound'
    BY <1>2, <2>1, <2>2 DEF FlowSound
  <2>5. HeldSound' /\ AskedSound'
    BY <2>3 DEF HeldSound, AskedSound
  <2>6. KeysSound' /\ SnapSound' /\ PathSound'
    BY <1>2, <2>1, <2>2 DEF KeysSound, SnapSound, PathSound, Path
  <2> QED
    BY <2>4, <2>5, <2>6 DEF ConsentInv
<1>7. CASE UNCHANGED vars
  BY <1>7, SameConsent DEF vars
<1> QED
  BY <1>3, <1>4, <1>5, <1>6, <1>7

\* No other step puts the rows of a snapshot in the place of the user's own.
LEMMA OnlyRestore ==
    ASSUME [Next]_vars, rows = "own", rows' = "restored"
    PROVE  \E r \in Slot : Restore(r)
<1> USE DEF local, memory
<1>1. ASSUME NEW r \in Slot, Handler(r) PROVE Restore(r)
  <2>1. CASE ClearSession(r) \/ ResetSession(r)
    BY <2>1 DEF ClearSession, ResetSession, SessionReset
  <2>2. CASE MarkBootstrapped(r)
    BY <2>2 DEF MarkBootstrapped
  <2>3. CASE \/ ResetTeam(r) \/ ForgetIdentity(r) \/ Enroll(r) \/ SaveIdentity(r)
             \/ InitializeKeys(r) \/ SaveKey(r) \/ ForgetGates(r) \/ ForgetStoredGates(r)
             \/ ClearIdentity(r) \/ DeleteDevice(r) \/ ClearGate(r)
    BY <2>3 DEF ResetTeam, ForgetIdentity, Enroll, SaveIdentity, InitializeKeys, SaveKey,
                ForgetGates, ForgetStoredGates, ClearIdentity, DeleteDevice, ClearGate
  <2>4. CASE \/ Confirm(r) \/ ConfirmRefused(r) \/ SetGate(r) \/ StoreGate(r) \/ CheckRows(r)
             \/ KeepApproval(r) \/ CaptureGate(r) \/ Verify(r) \/ PersistConfig(r) \/ Decide(r)
             \/ Download(r) \/ LiftGate(r)
    BY <2>4 DEF Confirm, ConfirmRefused, SetGate, StoreGate, CheckRows, KeepApproval,
                CaptureGate, Verify, PersistConfig, Decide, Download, LiftGate
  <2> QED
    BY <1>1, <2>1, <2>2, <2>3, <2>4 DEF Handler
<1>2. ~User
  BY DEF User, EnableSync, ReinitializeSync, ClearSyncData, CancelFlow, SignOut, BeginPairing,
         EnterRows
<1>3. ~(Interface \/ Answer \/ Peers)
  BY DEF Interface, PollFlow, CheckOverwrite, Answer, ApproveOverwrite, AllowOverwrite,
         RetryPairing, Peers, PeerUploads, PeerPushes, PeerJoins, PeerRemoves
<1>4. ~(StaleCursor \/ Reload \/ (\E r \in Slot : RequestFails(r)) \/ Crash \/ UNCHANGED vars)
  BY DEF StaleCursor, Reload, RequestFails, Crash, vars
<1> QED
  BY <1>1, <1>2, <1>3, <1>4 DEF Next

\* Rows that were never shared are replaced only with the user's consent, although the
\* consent is given in one request and used in another, and a restore, a sign-out, a
\* cancelled flow, a crash or a new team may come between (ApproveOverwrite,
\* AllowOverwrite, KeepApproval, CheckOverwrite, Restore).
THEOREM ConsentedOverwriteHolds == Spec => ConsentedOverwrite
<1>1. Init => ConsentInv
  <2>1. ASSUME Init PROVE ConsentInv
    <3>1. /\ Main = Idle /\ Side = Idle /\ flow = "none" /\ approvals = {} /\ ui = "closed"
      BY <2>1 DEF Init, Main, Side, Slot
    <3>2. Idle.kind = "none" /\ Idle.pc = "idle" /\ Idle.keep = FALSE
      BY DEF Idle
    <3>3. FlowSound
      BY <3>1, <3>2 DEF FlowSound
    <3>4. \A d \in Device : ~Held(d) /\ ~Asked(d)
      BY <3>1, <3>2 DEF Held, Asked
    <3>5. HeldSound /\ AskedSound
      BY <3>4 DEF HeldSound, AskedSound
    <3>6. KeysSound /\ SnapSound /\ PathSound
      BY <3>1, <3>2 DEF KeysSound, SnapSound, PathSound, Path
    <3> QED
      BY <3>3, <3>5, <3>6 DEF ConsentInv
  <2> QED
    BY <2>1
<1>2. TypeOK /\ GateInv /\ TeamInv /\ ConsentInv /\ [Next]_vars => ConsentInv'
  <2>1. ASSUME TypeOK, GateInv, TeamInv, ConsentInv, NEW r \in Slot, Handler(r)
        PROVE  ConsentInv'
    <3>1. CASE r = "cancel"
      BY <2>1, <3>1, SideConsent
    <3>2. CASE r = "main"
      BY <2>1, <3>2, AloneConsent, PairConsent, BootConsent DEF Handler
    <3> QED
      BY <3>1, <3>2 DEF Slot
  <2> QED
    BY <2>1, UserConsent, InterfaceConsent, PeersConsent, FaultConsent DEF Next
<1>3. ASSUME TypeOK, GateInv, ConsentInv, [Next]_vars, rows = "own", rows' = "restored"
      PROVE  \/ agreed
             \/ \E r \in Slot : req[r].pc = "restore" /\ (req[r].agreed \/ config[req[r].dev].boot)
  <2>1. PICK r \in Slot : Restore(r)
    BY <1>3, OnlyRestore
  <2>2. req[r].pc = "restore"
    BY <2>1, Zenon DEF Restore, At
  <2>3. r = "main" /\ Main = req[r]
    BY <1>3, <2>2 DEF GateInv, CancelSound, CancelPc, Slot, Main
  <2>4. Main.kind \in {"begin", "poll", "approve", "reconcile"}
    <3>1. Main.kind \in Kind
      BY <1>3, <2>3 DEF TypeOK, Request, Main, Slot
    <3> QED
      BY <1>3, <2>2, <2>3, <3>1
         DEF ConsentInv, FlowSound, Kind, EnableSteps, ClearSteps
  <2>5. agreed \/ Main.agreed \/ (Main.dev \in Device /\ config[Main.dev].boot)
    BY <1>3, <2>2, <2>3, <2>4 DEF ConsentInv, PathSound, Path
  <2> QED
    BY <2>2, <2>3, <2>5
<1>4. TypeOK /\ GateInv /\ ConsentInv /\ [Next]_vars =>
        (rows = "own" /\ rows' = "restored" =>
            \/ agreed
            \/ \E r \in Slot : req[r].pc = "restore" /\ (req[r].agreed \/ config[req[r].dev].boot))
  BY <1>3
<1> QED
  BY <1>1, <1>2, <1>4, TypeCorrect, GateInvHolds, TeamInvHolds, PTL DEF Spec, ConsentedOverwrite

=============================================================================
