------------------------------ MODULE MCAppSync ------------------------------
(* Small instances of AppSync for TLC. *)
EXTENDS AppSync, TLC

CONSTANTS d1, d2, e1, e2

NoSkew == [d \in Device |-> 0]
\* The clock of d1 runs one tick ahead of that of d2.
Ahead == [d \in Device |-> IF d = d1 THEN 1 ELSE 0]

\* Every device can apply every event; d2 refuses the rows of e1.
NoPairs == {}
OnePoison == {<<d2, e1>>}

\* Sound where no constant tells the devices apart.
DeviceSymmetry == Permutations(Device)

\* Leaves out the restores that overlap a cycle, which have a run of their own.
RestoresBetweenCycles ==
    \A d \in Device : d \in restored' \ restored => phase[d] = "idle"

\* Only a local change reads the clock, so a tick between two changes may as well
\* come right after the first of them, before anything has become of its record.
\* Of two changes it alters the order in one case only: the clock of the first
\* device is ahead, and that of the second is not.
TicksThatMatter ==
    /\ clock' # clock =>
          /\ events # <<>> /\ Len(events) < MaxEvents
          /\ LET last == events[Len(events)]
             IN  /\ Skew[last.dev] > 0
                 /\ last.id \in pending[last.dev] \ batch[last.dev] /\ ~InLog(last.id)
    /\ events' # events /\ clock > 0 => Skew[events'[Len(events')].dev] = 0
=============================================================================
