---------------------------- MODULE SyncSession ----------------------------
(***************************************************************************)
(* One device's sync session: enrolment, the pairing flow that joins it to *)
(* a team, the bootstrap from a snapshot of another device, the freshness  *)
(* gate that keeps an old snapshot out, and the ways a session ends.       *)
(*                                                                         *)
(* The state is spread over the keyring (secret), SQLite (config, cursor,  *)
(* rows), the memory of the process (memGate, flow, approvals) and the     *)
(* server, and no lock or transaction spans two of them.  A request of the *)
(* user interface goes through it await by await.  Between any two steps   *)
(* the other devices act, the request may be dropped (the page is          *)
(* reloaded), and the process may die.                                     *)
(*                                                                         *)
(* The user interface sends one request at a time, except that a pairing   *)
(* flow may be cancelled while it is polled or approved.  Key rotation and *)
(* the background loop are left out; the loop has modules of its own.      *)
(***************************************************************************)
EXTENDS Integers

CONSTANTS
    Device,      \* device ids the server may hand out
    NoDevice,
    MaxTeams,    \* bound: key epochs; each is a team with a log of its own
    MaxRounds,   \* bound: pairings
    MaxOthers    \* bound: dropped or failed requests, crashes, removals

ASSUME SessionAssumption ==
    /\ NoDevice \notin Device
    /\ MaxTeams \in Nat \ {0} /\ MaxRounds \in Nat /\ MaxOthers \in Nat

NoSnapshot == -1

VARIABLES
    secret,     \* keyring: the device id and the epoch of the root key, 0 for none
    config,     \* sync_device_config: row present, bootstrapped, freshness gate
    cursor,     \* sync_cursor: 0, or the epoch of the log it is a position in
    stale,      \* the last cycle ended with stale_cursor
    rows,       \* "none", "own" (never shared), "shared", "restored"
    memGate,    \* the freshness gates in memory, 0 for none
    flow,       \* phase of the pairing flow, "none" if there is none
    approvals,  \* devices with a kept approval of a ready-state overwrite
    ui,         \* "closed", "pairing" (dialog open), "failed" (its flow has ended with
                \* an error), "asking" (overwrite risk shown)
    req,        \* the requests being handled, one in each slot
    cloud,      \* the server
    round,      \* pairings so far; the time scale of snapshots and gates
    agreed,     \* the user has agreed that the rows be replaced
    used        \* counter for the bound

local == <<config, cursor, stale, rows>>
memory == <<memGate, flow, approvals>>
vars == <<secret, local, memory, ui, req, cloud, round, agreed, used>>

-----------------------------------------------------------------------------
Identity == [device : Device \union {NoDevice}, key : 0..MaxTeams]
NoIdentity == [device |-> NoDevice, key |-> 0]
NoRow == [row |-> FALSE, boot |-> FALSE, gate |-> 0]
NoGates == [d \in Device |-> 0]
Idle == [kind |-> "none", pc |-> "idle", dev |-> NoDevice, gate |-> 0,
         snap |-> NoSnapshot, key |-> 0, covered |-> FALSE, keep |-> FALSE,
         agreed |-> FALSE]

Me == secret.device
Usable(d) == cloud.trust[d] \in {"untrusted", "trusted"}

\* get_sync_state
SyncState ==
    IF Me = NoDevice THEN "fresh"
    ELSE IF ~Usable(Me) THEN "recovery"
    ELSE IF secret.key = 0 \/ cloud.trust[Me] # "trusted"
         THEN IF cloud.trust[Me] # "trusted" /\ cloud.keyed /\ ~cloud.peer
              THEN "orphaned" ELSE "registered"
    ELSE IF secret.key = cloud.epoch THEN "ready" ELSE "stale"

NeedsBootstrap(d) == ~config[d].boot \/ stale

\* A mutated form of SessionReset: the cursor survives.
SessionResetKeepsCursor ==
    /\ config' = [d \in Device |-> NoRow]
    /\ cursor' = cursor
    /\ stale' = FALSE
    /\ rows' = IF rows = "none" THEN "none" ELSE "own"

\* The rest of a session that reset_local_sync_session wipes.  The rows stay:
\* from now on they are the user's own again.
SessionReset ==
    /\ config' = [d \in Device |-> NoRow]
    /\ cursor' = 0
    /\ stale' = FALSE
    /\ rows' = IF rows = "none" THEN "none" ELSE "own"

ClearGates == config' = [d \in Device |-> [config[d] EXCEPT !.gate = 0]]

Slot == {"main", "cancel"}
At(r, pc) == req[r].pc = pc
Go(r, pc) == req' = [req EXCEPT ![r].pc = pc]
Done(r) == req' = [req EXCEPT ![r] = Idle]
Quiet == \A r \in Slot : req[r] = Idle

Init ==
    /\ secret = NoIdentity
    /\ config = [d \in Device |-> NoRow]
    /\ cursor = 0 /\ stale = FALSE
    /\ rows \in {"none", "own"}
    /\ memGate = NoGates /\ flow = "none" /\ approvals = {}
    /\ ui = "closed" /\ req = [r \in Slot |-> Idle]
    /\ cloud \in {[trust |-> [d \in Device |-> "absent"], epoch |-> e, keyed |-> e = 1,
                   peer |-> e = 1, snap |-> s, covers |-> s = 0] :
                  e \in {0, 1}, s \in {NoSnapshot, 0}}
    /\ cloud.epoch = 0 => cloud.snap = NoSnapshot
    /\ round = 0 /\ agreed = FALSE /\ used = 0

-----------------------------------------------------------------------------
(***************************************************************************)
(* Enrolment.                                                              *)
(***************************************************************************)
Start(r, kind, pc) ==
    /\ req[r] = Idle
    /\ req' = [req EXCEPT ![r] = [Idle EXCEPT !.kind = kind, !.pc = pc, !.dev = Me,
                                              !.agreed = agreed \/ kind = "approve"]]

EnableSync ==
    /\ ui = "closed" /\ SyncState = "fresh" /\ Quiet
    /\ Start("main", "enable", "enroll")
    /\ UNCHANGED <<secret, local, memory, ui, cloud, round, agreed, used>>

ReinitializeSync ==
    /\ ui = "closed" /\ SyncState \in {"orphaned", "ready"} /\ Quiet
    /\ Start("main", "enable", "reset_team")
    /\ UNCHANGED <<secret, local, memory, ui, cloud, round, agreed, used>>

Revoked == [d \in Device |-> IF cloud.trust[d] = "absent" THEN "absent" ELSE "revoked"]

ResetTeam(r) ==
    /\ At(r, "reset_team")
    /\ cloud' = [cloud EXCEPT !.trust = Revoked, !.keyed = FALSE, !.peer = FALSE,
                              !.snap = NoSnapshot, !.covers = FALSE]
    /\ Go(r, "forget")
    /\ UNCHANGED <<secret, local, memory, ui, round, agreed, used>>

ForgetIdentity(r) ==
    /\ At(r, "forget")
    /\ secret' = NoIdentity
    /\ Go(r, "enroll")
    /\ UNCHANGED <<local, memory, ui, cloud, round, agreed, used>>

\* The server knows the device by its nonce and gives it its id back.
Enroll(r) ==
    /\ At(r, "enroll")
    /\ \E d \in Device :
        /\ IF \E k \in Device : Usable(k) THEN Usable(d) ELSE cloud.trust[d] = "absent"
        /\ req' = [req EXCEPT ![r].pc = "save_identity", ![r].dev = d]
        /\ cloud' = [cloud EXCEPT !.trust[d] = IF Usable(d) THEN @ ELSE "untrusted"]
    /\ UNCHANGED <<secret, local, memory, ui, round, agreed, used>>

SaveIdentity(r) ==
    /\ At(r, "save_identity")
    /\ secret' = [device |-> req[r].dev, key |-> 0]
    /\ Go(r, IF cloud.keyed /\ cloud.peer /\ cloud.trust[req[r].dev] = "untrusted"
          THEN "memory" ELSE "keys")
    /\ UNCHANGED <<local, memory, ui, cloud, round, agreed, used>>

\* A mutated form of InitializeKeys: the new epoch is counted twice.
InitializeKeysTwice(r) ==
    /\ At(r, "keys")
    /\ ~cloud.keyed /\ cloud.epoch < MaxTeams
    /\ cloud' = [cloud EXCEPT !.epoch = @ + 1, !.keyed = TRUE,
                              !.trust[req[r].dev] = "trusted"]
    /\ req' = [req EXCEPT ![r].pc = "save_key", ![r].key = cloud'.epoch + 1]
    /\ UNCHANGED <<secret, local, memory, ui, round, agreed, used>>

\* initialize_team_keys and its commit; keys that exist call for pairing.
InitializeKeys(r) ==
    /\ At(r, "keys")
    /\ \/ /\ ~cloud.keyed /\ cloud.epoch < MaxTeams
          /\ cloud' = [cloud EXCEPT !.epoch = @ + 1, !.keyed = TRUE,
                                    !.trust[req[r].dev] = "trusted"]
          /\ req' = [req EXCEPT ![r].pc = "save_key", ![r].key = cloud.epoch + 1]
       \/ /\ cloud.keyed
          /\ Go(r, "memory")
          /\ UNCHANGED cloud
    /\ UNCHANGED <<secret, local, memory, ui, round, agreed, used>>

SaveKey(r) ==
    /\ At(r, "save_key")
    /\ secret' = [secret EXCEPT !.key = req[r].key]
    /\ Go(r, "memory")
    /\ UNCHANGED <<local, memory, ui, cloud, round, agreed, used>>

ForgetGates(r) ==
    /\ At(r, "memory")
    /\ memGate' = NoGates
    /\ Go(r, "sqlite")
    /\ UNCHANGED <<secret, local, flow, approvals, ui, cloud, round, agreed, used>>

\* The end of enable, of clear and of cancel.  A device that is ready starts
\* anew; the interface clears the session after it has cancelled the flow.
ForgetStoredGates(r) ==
    /\ At(r, "sqlite")
    /\ ClearGates
    /\ CASE req[r].kind = "cancel" ->
                /\ req' = [req EXCEPT ![r] = [Idle EXCEPT !.kind = "clear", !.pc = "clear_identity"]]
                /\ flow' = "none"
                /\ ui' = ui
         [] req[r].kind # "cancel" /\ req[r].key # 0 ->
                Go(r, "reset") /\ UNCHANGED <<flow, ui>>
         [] OTHER ->
                /\ Done(r)
                /\ flow' = flow
                /\ ui' = IF req[r].kind = "clear" THEN "closed" ELSE ui
    /\ agreed' = (agreed /\ req[r].kind = "enable")
    /\ UNCHANGED <<secret, cursor, stale, rows, memGate, approvals, cloud, round, used>>

-----------------------------------------------------------------------------
(***************************************************************************)
(* The end of a session: cleared, or a pairing flow that is cancelled.     *)
(***************************************************************************)
ClearSyncData ==
    /\ ui = "failed" \/ (ui = "closed" /\ SyncState \in {"recovery", "registered"})
    /\ Quiet
    /\ Start("main", "clear", "clear_identity")
    /\ UNCHANGED <<secret, local, memory, ui, cloud, round, agreed, used>>

ClearIdentity(r) ==
    /\ At(r, "clear_identity")
    /\ secret' = NoIdentity
    /\ Go(r, "clear_session")
    /\ UNCHANGED <<local, memory, ui, cloud, round, agreed, used>>

ClearSession(r) ==
    /\ At(r, "clear_session")
    /\ SessionReset
    /\ Go(r, "memory")
    /\ UNCHANGED <<secret, memory, ui, cloud, round, agreed, used>>

\* cancel_pairing_flow; the interface clears the session right after it.
\* It is offered with the question for consent, and while the flow waits
\* once a poll has had no answer; then the polls go on.
CancelFlow ==
    /\ ui = "pairing"
    /\ \/ flow = "overwrite" /\ used' = used
       \/ flow = "waiting" /\ used < MaxOthers /\ used' = used + 1
    /\ Start("cancel", "cancel", "delete_device")
    /\ UNCHANGED <<secret, local, memory, ui, cloud, round, agreed>>

\* The user goes on after a flow that failed: the session stays, the consent
\* does not.
RetryPairing ==
    /\ ui = "failed" /\ Quiet
    /\ ui' = "closed"
    /\ agreed' = FALSE
    /\ UNCHANGED <<secret, local, memory, req, cloud, round, used>>

\* The server may be out of reach: the device stays enrolled there.
DeleteDevice(r) ==
    /\ At(r, "delete_device")
    /\ \/ /\ Usable(req[r].dev)
          /\ cloud' = [cloud EXCEPT !.trust[req[r].dev] = "revoked"]
          /\ used' = used
       \/ /\ used < MaxOthers /\ used' = used + 1
          /\ cloud' = cloud
       \/ /\ ~Usable(req[r].dev) /\ UNCHANGED <<cloud, used>>
    /\ Go(r, "clear_gate")
    /\ UNCHANGED <<secret, local, memory, ui, round, agreed>>

ClearGate(r) ==
    /\ At(r, "clear_gate")
    /\ memGate' = [memGate EXCEPT ![req[r].dev] = 0]
    /\ config' = [config EXCEPT ![req[r].dev].gate = 0]
    /\ Go(r, "clear_identity")
    /\ UNCHANGED <<secret, cursor, stale, rows, flow, approvals, ui, cloud, round, agreed, used>>

\* Signing out ends no session but lifts the gates.
SignOut ==
    /\ used < MaxOthers /\ used' = used + 1
    /\ Quiet /\ ui = "closed"
    /\ memGate' = NoGates
    /\ ClearGates
    /\ UNCHANGED <<secret, cursor, stale, rows, flow, approvals, ui, req, cloud, round, agreed>>

-----------------------------------------------------------------------------
(***************************************************************************)
(* Pairing.                                                                *)
(***************************************************************************)
\* The key bundle of the other device has arrived: its epoch is stored and
\* its time is the gate.
BeginPairing ==
    /\ ui = "closed" /\ SyncState \in {"registered", "stale"} /\ cloud.peer
    /\ round < MaxRounds
    /\ round' = round + 1
    /\ Quiet
    /\ req' = [req EXCEPT !["main"] = [Idle EXCEPT !.kind = "begin", !.pc = "confirm",
                                                  !.dev = Me, !.gate = round + 1]]
    /\ secret' = [secret EXCEPT !.key = cloud.epoch]
    /\ ui' = "pairing"
    /\ UNCHANGED <<local, memory, cloud, agreed, used>>

Confirm(r) ==
    /\ At(r, "confirm") /\ Usable(req[r].dev)
    /\ cloud' = [cloud EXCEPT !.trust[req[r].dev] = "trusted"]
    /\ Go(r, "gate_memory")
    /\ UNCHANGED <<secret, local, memory, ui, round, agreed, used>>

SetGate(r) ==
    /\ At(r, "gate_memory")
    /\ memGate' = [memGate EXCEPT ![req[r].dev] = req[r].gate]
    /\ Go(r, "gate_sqlite")
    /\ UNCHANGED <<secret, local, flow, approvals, ui, cloud, round, agreed, used>>

StoreGate(r) ==
    /\ At(r, "gate_sqlite")
    /\ config' = [config EXCEPT ![req[r].dev].row = TRUE, ![req[r].dev].gate = req[r].gate]
    /\ Go(r, "check_rows")
    /\ UNCHANGED <<secret, cursor, stale, rows, memory, ui, cloud, round, agreed, used>>

\* A mutated form of CheckRows: local rows do not call for consent.
CheckRowsBlindly(r) ==
    /\ At(r, "check_rows")
    /\ IF NeedsBootstrap(req[r].dev)
       THEN Go(r, "capture") /\ UNCHANGED <<flow, ui>>
       ELSE Done(r) /\ ui' = "closed" /\ UNCHANGED flow
    /\ UNCHANGED <<secret, local, memGate, approvals, cloud, round, agreed, used>>

CheckRows(r) ==
    /\ At(r, "check_rows")
    /\ \/ /\ ~NeedsBootstrap(req[r].dev)
          /\ Done(r) /\ ui' = "closed" /\ flow' = flow
       \/ /\ NeedsBootstrap(req[r].dev) /\ rows # "none"
          /\ Done(r) /\ flow' = "overwrite" /\ ui' = ui
       \/ /\ NeedsBootstrap(req[r].dev) /\ rows = "none"
          /\ Go(r, "capture") /\ UNCHANGED <<flow, ui>>
    /\ UNCHANGED <<secret, local, memGate, approvals, cloud, round, agreed, used>>

PollFlow ==
    /\ ui = "pairing" /\ flow = "waiting"
    /\ Start("main", "poll", "capture")
    /\ UNCHANGED <<secret, local, memory, ui, cloud, round, agreed, used>>

ApproveOverwrite ==
    /\ ui = "pairing" /\ flow = "overwrite"
    /\ Start("main", "approve", "capture")
    /\ flow' = "bootstrapping"
    /\ agreed' = TRUE
    /\ UNCHANGED <<secret, local, memGate, approvals, ui, cloud, round, used>>

-----------------------------------------------------------------------------
(***************************************************************************)
(* Outside of a pairing: the interface checks the risk and reconciles.     *)
(***************************************************************************)
\* get_bootstrap_overwrite_check, then reconcile_ready_state without consent.
\* A bootstrapped device is checked too when the server has answered a cycle
\* with WAIT_SNAPSHOT; its approval is dropped.
CheckOverwrite ==
    /\ Quiet /\ ui = "closed" /\ SyncState = "ready"
    /\ \/ /\ NeedsBootstrap(Me) /\ rows # "none" /\ Me \notin approvals
          /\ ui' = "asking" /\ UNCHANGED <<req, approvals>>
       \/ /\ IF NeedsBootstrap(Me)
             THEN (rows = "none" \/ Me \in approvals) /\ UNCHANGED approvals
             ELSE cloud.peer /\ approvals' = approvals \ {Me}
          /\ req' = [req EXCEPT !["main"] =
                       [Idle EXCEPT !.kind = "reconcile", !.pc = "capture", !.dev = Me,
                                    !.agreed = agreed, !.keep = Me \in approvals']]
          /\ ui' = ui
    /\ UNCHANGED <<secret, local, memGate, flow, cloud, round, agreed, used>>

AllowOverwrite ==
    /\ ui = "asking" /\ Me # NoDevice /\ Quiet
    /\ Start("main", "reconcile", "allow")
    /\ agreed' = TRUE
    /\ UNCHANGED <<secret, local, memory, ui, cloud, round, used>>

KeepApproval(r) ==
    /\ At(r, "allow")
    /\ approvals' = approvals \union {req[r].dev}
    /\ req' = [req EXCEPT ![r].pc = "capture", ![r].keep = TRUE]
    /\ UNCHANGED <<secret, local, memGate, flow, ui, cloud, round, agreed, used>>

-----------------------------------------------------------------------------
(***************************************************************************)
(* sync_bootstrap_snapshot_if_needed.                                      *)
(***************************************************************************)
\* What each caller does with an outcome.
Conclude(r, outcome) ==
    LET waits == outcome = "requested" IN
    /\ Done(r)
    /\ flow' = CASE req[r].kind = "begin" -> IF waits THEN "waiting" ELSE flow
                 [] req[r].kind \in {"poll", "approve"} ->
                        IF waits /\ flow # "none" THEN "waiting" ELSE "none"
                 [] OTHER -> flow
    /\ approvals' = IF req[r].kind # "reconcile" THEN approvals
                    ELSE IF req[r].keep /\ outcome \in {"requested", "error"}
                    THEN approvals \union {req[r].dev}
                    ELSE approvals \ {req[r].dev}
    /\ ui' = CASE waits -> ui
               [] req[r].kind \in {"poll", "approve"} /\ outcome \in {"error", "not_ready"}
                     /\ req["cancel"] = Idle -> "failed"
               [] OTHER -> "closed"

\* A mutated form of CaptureGate: the gate in SQLite is not looked at.
CaptureMemoryGate(r) ==
    /\ At(r, "capture") /\ req[r].dev # NoDevice
    /\ req' = [req EXCEPT ![r].pc = "verify", ![r].gate = memGate[req[r].dev]]
    /\ UNCHANGED <<secret, local, memory, ui, cloud, round, agreed, used>>

\* The gate in memory comes first, the one in SQLite stands in for it.
CaptureGate(r) ==
    /\ At(r, "capture")
    /\ \/ /\ req[r].dev = NoDevice
          /\ Conclude(r, "error")
       \/ /\ req[r].dev # NoDevice
          /\ LET gate == IF memGate[req[r].dev] # 0 THEN memGate[req[r].dev]
                         ELSE config[req[r].dev].gate
             IN  req' = [req EXCEPT ![r].pc = "verify", ![r].gate = gate]
          /\ UNCHANGED <<flow, approvals, ui>>
    /\ UNCHANGED <<secret, local, memGate, cloud, round, agreed, used>>

Verify(r) ==
    /\ At(r, "verify")
    /\ IF SyncState = "ready"
       THEN Go(r, "persist") /\ UNCHANGED <<flow, approvals, ui>>
       ELSE Conclude(r, "not_ready")
    /\ UNCHANGED <<secret, local, memGate, cloud, round, agreed, used>>

PersistConfig(r) ==
    /\ At(r, "persist")
    /\ config' = [config EXCEPT ![req[r].dev].row = TRUE]
    /\ Go(r, "decide")
    /\ UNCHANGED <<secret, cursor, stale, rows, memory, ui, cloud, round, agreed, used>>

\* Bootstrapped already, no gate, and the server does not insist.
Skips(r, insists) == ~NeedsBootstrap(req[r].dev) /\ req[r].gate = 0 /\ ~insists
\* snapshot_satisfies_freshness_gate
Satisfies(r) == req[r].gate = 0 \/ cloud.snap >= req[r].gate \/ cloud.covers

Decide(r) ==
    /\ At(r, "decide")
    /\ \E insists \in {FALSE, cloud.peer} :
        \/ /\ ~Skips(r, insists) /\ ~Usable(req[r].dev)
           /\ Conclude(r, "error")
           /\ UNCHANGED memGate
        \/ /\ Skips(r, insists)
           /\ Conclude(r, "skipped")
           /\ memGate' = NoGates
        \/ /\ ~Skips(r, insists) /\ Usable(req[r].dev)
           /\ IF cloud.snap = NoSnapshot THEN req[r].gate # 0 \/ cloud.peer ELSE ~Satisfies(r)
           /\ Conclude(r, "requested")
           /\ UNCHANGED memGate
        \/ /\ ~Skips(r, insists) /\ Usable(req[r].dev)
           /\ IF cloud.snap = NoSnapshot THEN req[r].gate = 0 /\ ~cloud.peer ELSE Satisfies(r)
           /\ req' = [req EXCEPT ![r].pc = IF cloud.snap = NoSnapshot THEN "reset" ELSE "download",
                                 ![r].snap = cloud.snap, ![r].covered = cloud.covers,
                                 ![r].key = cloud.epoch]
           /\ UNCHANGED <<memory, ui>>
    /\ UNCHANGED <<secret, local, cloud, round, agreed, used>>

Download(r) ==
    /\ At(r, "download")
    /\ IF Usable(req[r].dev)
       THEN Go(r, "restore") /\ UNCHANGED <<flow, approvals, ui>>
       ELSE Conclude(r, "error")
    /\ UNCHANGED <<secret, local, memGate, cloud, round, agreed, used>>

\* A mutated form of Restore: the device is not marked as bootstrapped.
RestoreUnmarked(r) ==
    /\ At(r, "restore")
    /\ config' = [d \in Device |-> IF d = req[r].dev THEN [config[d] EXCEPT !.row = TRUE] ELSE NoRow]
    /\ cursor' = req[r].key /\ stale' = FALSE
    /\ rows' = "restored"
    /\ agreed' = FALSE
    /\ memGate' = NoGates
    /\ Go(r, "lift")
    /\ UNCHANGED <<secret, flow, approvals, ui, cloud, round, used>>

\* restore_snapshot_tables_from_file: one transaction; then the gates in
\* memory are cleared.
Restore(r) ==
    /\ At(r, "restore")
    /\ config' = [d \in Device |->
            IF d = req[r].dev THEN [config[d] EXCEPT !.row = TRUE, !.boot = TRUE] ELSE NoRow]
    /\ cursor' = req[r].key /\ stale' = FALSE
    /\ rows' = "restored"
    /\ agreed' = FALSE
    /\ memGate' = NoGates
    /\ Go(r, "lift")
    /\ UNCHANGED <<secret, flow, approvals, ui, cloud, round, used>>

LiftGate(r) ==
    /\ At(r, "lift")
    /\ config' = [config EXCEPT ![req[r].dev].gate = 0]
    /\ Conclude(r, "applied")
    /\ UNCHANGED <<secret, cursor, stale, rows, memGate, cloud, round, agreed, used>>

\* reset_and_mark_bootstrap_complete: two transactions.
ResetSession(r) ==
    /\ At(r, "reset")
    /\ SessionReset
    /\ Go(r, "mark")
    /\ UNCHANGED <<secret, memory, ui, cloud, round, agreed, used>>

MarkBootstrapped(r) ==
    /\ At(r, "mark")
    /\ config' = [config EXCEPT ![req[r].dev] = [row |-> TRUE, boot |-> TRUE, gate |-> 0]]
    /\ rows' = IF rows = "own" THEN "shared" ELSE rows
    /\ memGate' = NoGates
    /\ Conclude(r, "skipped")
    /\ UNCHANGED <<secret, cursor, stale, cloud, round, agreed, used>>

-----------------------------------------------------------------------------
(***************************************************************************)
(* The user, the other devices, and what goes wrong.                       *)
(***************************************************************************)
\* The first rows.  They are not entered while a request or a flow is under
\* way: the rows are counted when a pairing begins, and not again.
EnterRows ==
    /\ rows = "none" /\ Quiet /\ flow = "none" /\ ui # "pairing"
    /\ rows' = IF Me # NoDevice /\ config[Me].boot THEN "shared" ELSE "own"
    /\ UNCHANGED <<secret, config, cursor, stale, memory, ui, req, cloud, round, agreed, used>>

PeerUploads ==
    /\ cloud.peer /\ (cloud.snap # round \/ ~cloud.covers)
    /\ cloud' = [cloud EXCEPT !.snap = round, !.covers = TRUE]
    /\ UNCHANGED <<secret, local, memory, ui, req, round, agreed, used>>

PeerPushes ==
    /\ used < MaxOthers /\ used' = used + 1
    /\ cloud.peer /\ cloud.covers
    /\ cloud' = [cloud EXCEPT !.covers = FALSE]
    /\ UNCHANGED <<secret, local, memory, ui, req, round, agreed>>

\* Another device joins, or founds a team.
PeerJoins ==
    /\ ~cloud.peer
    /\ IF cloud.keyed THEN \E d \in Device : cloud.trust[d] = "trusted"
                      ELSE cloud.epoch < MaxTeams
    /\ cloud' = [cloud EXCEPT !.peer = TRUE, !.keyed = TRUE,
                              !.epoch = IF cloud.keyed THEN @ ELSE @ + 1]
    /\ UNCHANGED <<secret, local, memory, ui, req, round, agreed, used>>

\* The only other device leaves, revokes this one, or resets the team.
PeerRemoves ==
    /\ used < MaxOthers /\ used' = used + 1
    /\ cloud.peer
    /\ \/ cloud' = [cloud EXCEPT !.peer = FALSE]
       \/ cloud' = [cloud EXCEPT !.trust = Revoked]
       \/ /\ cloud.epoch < MaxTeams
          /\ cloud' = [cloud EXCEPT !.trust = Revoked, !.epoch = @ + 1,
                                    !.snap = NoSnapshot, !.covers = FALSE]
    /\ UNCHANGED <<secret, local, memory, ui, req, round, agreed>>

\* A cycle finds the log pruned beyond the cursor.
StaleCursor ==
    /\ used < MaxOthers /\ used' = used + 1
    /\ SyncState = "ready" /\ config[Me].boot /\ ~stale /\ cloud.peer
    /\ stale' = TRUE
    /\ UNCHANGED <<secret, config, cursor, rows, memory, ui, req, cloud, round, agreed>>

\* The page is reloaded: the handler is dropped, the flow's id is lost.
Reload ==
    /\ used < MaxOthers /\ used' = used + 1
    /\ req' = [r \in Slot |-> Idle] /\ ui' = "closed" /\ flow' = "none"
    /\ UNCHANGED <<secret, local, memGate, approvals, cloud, round, agreed>>

\* A call of the server or the download fails.
RequestFails(r) ==
    /\ used < MaxOthers /\ used' = used + 1
    /\ req[r].pc \in {"reset_team", "enroll", "keys", "confirm", "verify", "decide", "download"}
    /\ IF req[r].pc \in {"verify", "decide", "download"} THEN Conclude(r, "error")
       ELSE Done(r) /\ ui' = "closed" /\ UNCHANGED <<flow, approvals>>
    /\ UNCHANGED <<secret, local, memGate, cloud, round, agreed>>

\* A pairing whose device is gone is refused.
ConfirmRefused(r) ==
    /\ At(r, "confirm") /\ ~Usable(req[r].dev)
    /\ Done(r) /\ ui' = "closed"
    /\ UNCHANGED <<secret, local, memory, cloud, round, agreed, used>>

Crash ==
    /\ used < MaxOthers /\ used' = used + 1
    /\ req' = [r \in Slot |-> Idle] /\ ui' = "closed"
    /\ memGate' = NoGates /\ flow' = "none" /\ approvals' = {}
    /\ agreed' = FALSE
    /\ UNCHANGED <<secret, local, cloud, round>>

-----------------------------------------------------------------------------
Handler(r) ==
    \/ ResetTeam(r) \/ ForgetIdentity(r) \/ Enroll(r) \/ SaveIdentity(r)
    \/ InitializeKeys(r) \/ SaveKey(r) \/ ForgetGates(r) \/ ForgetStoredGates(r)
    \/ ClearIdentity(r) \/ ClearSession(r) \/ DeleteDevice(r) \/ ClearGate(r)
    \/ Confirm(r) \/ ConfirmRefused(r) \/ SetGate(r) \/ StoreGate(r) \/ CheckRows(r)
    \/ KeepApproval(r) \/ CaptureGate(r) \/ Verify(r) \/ PersistConfig(r) \/ Decide(r)
    \/ Download(r) \/ Restore(r) \/ LiftGate(r) \/ ResetSession(r) \/ MarkBootstrapped(r)

User ==
    \/ EnableSync \/ ReinitializeSync \/ ClearSyncData \/ CancelFlow \/ SignOut
    \/ BeginPairing \/ EnterRows

Interface == PollFlow \/ CheckOverwrite

Answer == ApproveOverwrite \/ AllowOverwrite \/ RetryPairing

Peers == PeerUploads \/ PeerPushes \/ PeerJoins \/ PeerRemoves

Next ==
    \/ \E r \in Slot : Handler(r)
    \/ User
    \/ Interface
    \/ Answer
    \/ Peers
    \/ StaleCursor
    \/ Reload
    \/ \E r \in Slot : RequestFails(r)
    \/ Crash

Spec == Init /\ [][Next]_vars

\* Handlers run on, the interface polls and checks, a user who is asked
\* agrees in the end and goes on after a failure, and the other device uploads a snapshot when one is due.
FairSpec ==
    /\ Spec
    /\ \A r \in Slot : WF_vars(Handler(r))
    /\ SF_vars(Interface)
    /\ SF_vars(Answer)
    /\ WF_vars(PeerUploads)

-----------------------------------------------------------------------------
(***************************************************************************)
(* Properties.                                                             *)
(***************************************************************************)
Gate == 0..MaxRounds
Epoch == 0..MaxTeams
Snapshot == NoSnapshot..MaxRounds

Kind == {"none", "enable", "clear", "cancel", "begin", "poll", "approve", "reconcile"}
Pc ==
    {"idle", "reset_team", "forget", "enroll", "save_identity", "keys", "save_key",
     "memory", "sqlite", "clear_identity", "clear_session", "delete_device",
     "clear_gate", "confirm", "gate_memory", "gate_sqlite", "check_rows", "allow",
     "capture", "verify", "persist", "decide", "download", "restore", "lift",
     "reset", "mark"}

Request ==
    [kind : Kind, pc : Pc, dev : Device \union {NoDevice}, gate : Gate, snap : Snapshot, key : Epoch,
     covered : BOOLEAN, keep : BOOLEAN, agreed : BOOLEAN]

Cloud ==
    [trust : [Device -> {"absent", "untrusted", "trusted", "revoked"}], epoch : Epoch,
     keyed : BOOLEAN, peer : BOOLEAN, snap : Snapshot, covers : BOOLEAN]

\* The stores keep their types; a device never holds a key, a position or a gate
\* of a team or of a pairing there has not been.
TypeOK ==
    /\ secret \in Identity
    /\ config \in [Device -> [row : BOOLEAN, boot : BOOLEAN, gate : Gate]]
    /\ cursor \in Epoch /\ stale \in BOOLEAN
    /\ rows \in {"none", "own", "shared", "restored"}
    /\ memGate \in [Device -> Gate]
    /\ flow \in {"none", "overwrite", "waiting", "bootstrapping"}
    /\ approvals \subseteq Device \union {NoDevice}
    /\ ui \in {"closed", "pairing", "failed", "asking"}
    /\ req \in [Slot -> Request]
    /\ cloud \in Cloud
    /\ round \in Gate /\ agreed \in BOOLEAN /\ used \in 0..MaxOthers

\* Rows that were never shared are replaced only if the user has agreed since the
\* session began and no crash has lost the consent, by a request that started
\* before the user cancelled (a cancelled flow does not call it back), or on a
\* device that is marked as bootstrapped (the user is not asked for those).
ConsentedOverwrite ==
    [][rows = "own" /\ rows' = "restored" =>
        \/ agreed
        \/ \E r \in Slot : req[r].pc = "restore" /\ (req[r].agreed \/ config[req[r].dev].boot)]_vars

\* As long as a freshness gate is stored, also across restarts, no snapshot is
\* restored that is older than the gate and did not cover the log.
GateObeyed ==
    [][\A r \in Slot : Restore(r) => \/ req[r].snap >= config[req[r].dev].gate
                                   \/ req[r].covered]_vars

\* A device that is ready and bootstrapped never goes on from a position in the
\* log of a former team.
CursorBelongs ==
    SyncState = "ready" /\ config[Me].boot => cursor \in {0, cloud.epoch}

\* A device that is ready is bootstrapped in the end, whatever was interrupted on
\* the way, unless it stops being ready or the last device that could upload the
\* snapshot its gate asks for has left.
EventuallyBootstrapped ==
    SyncState = "ready" ~>
        \/ SyncState # "ready"
        \/ ~NeedsBootstrap(Me)
        \/ ~cloud.peer /\ (memGate[Me] # 0 \/ config[Me].gate # 0)
=============================================================================
