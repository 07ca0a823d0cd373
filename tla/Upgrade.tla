------------------------------ MODULE Upgrade ------------------------------
(***************************************************************************)
(* The upgrade authority of the VestFlow contract: a new WASM is announced *)
(* on chain, waits out a timelock during which it can be cancelled, and is *)
(* then put in place.                                                      *)
(*                                                                         *)
(* A build is its WASM hash; every build is taken to have the entry points *)
(* modelled here.  Announcing does not look whether it was uploaded;       *)
(* executing one that never was fails, which is no step.  Only the         *)
(* configured authority gets past the first assertion of each call, so the *)
(* caller is not a parameter.                                              *)
(***************************************************************************)
EXTENDS Integers

CONSTANTS
    Authorities,                \* addresses that may be the authority
    Builds,                     \* WASM hashes
    None,                       \* nothing
    UPGRADE_TIMELOCK_SECONDS,
    MaxTime                     \* bound: the last timestamp

ASSUME UpgradeAssumption == UPGRADE_TIMELOCK_SECONDS \in Nat /\ MaxTime \in Nat

VARIABLES
    now,         \* env.ledger().timestamp()
    authority,   \* DataKey::UpgradeAuthority, or None
    pending,     \* DataKey::PendingUpgrade, or None
    code,        \* the build that runs
    notice       \* history: for how long the pending build has been on display

upgradeVars == <<authority, pending, code, notice>>

UpgradeInit ==
    /\ now = 0
    /\ authority = None
    /\ pending = None
    /\ code \in Builds
    /\ notice = 0

-----------------------------------------------------------------------------
InitializeUpgradeAuthority(a) ==
    /\ authority = None
    /\ authority' = a
    /\ UNCHANGED <<now, pending, code, notice>>

\* Mutant: announcing again keeps the clock of the first announcement.
AnnouncementKeepingClock(h) ==
    IF pending = None
    THEN [wasm_hash |-> h, announced_at |-> now,
          executable_at |-> now + UPGRADE_TIMELOCK_SECONDS]
    ELSE [pending EXCEPT !.wasm_hash = h]

Announcement(h) ==
    [wasm_hash |-> h, announced_at |-> now,
     executable_at |-> now + UPGRADE_TIMELOCK_SECONDS]

\* Replaces an announcement that is pending, executable or not.
AnnounceUpgrade(h) ==
    /\ authority # None
    /\ pending' = Announcement(h)
    /\ notice' = IF pending # None /\ h = pending.wasm_hash THEN notice ELSE 0
    /\ UNCHANGED <<now, authority, code>>

CancelUpgrade ==
    /\ authority # None
    /\ pending # None
    /\ now < pending.executable_at
    /\ pending' = None
    /\ notice' = 0
    /\ UNCHANGED <<now, authority, code>>

ExecuteUpgrade ==
    /\ authority # None
    /\ pending # None
    /\ now >= pending.executable_at
    /\ code' = pending.wasm_hash
    /\ pending' = None
    /\ notice' = 0
    /\ UNCHANGED <<now, authority>>

\* A pending announcement passes to the new authority.
TransferUpgradeAuthority(a) ==
    /\ authority # None
    /\ authority' = a
    /\ UNCHANGED <<now, pending, code, notice>>

\* A ledger closes.
Tick ==
    /\ now < MaxTime
    /\ now' = now + 1
    /\ notice' = IF pending = None THEN 0 ELSE notice + 1
    /\ UNCHANGED <<authority, pending, code>>

UpgradeStep ==
    \/ \E a \in Authorities : InitializeUpgradeAuthority(a) \/ TransferUpgradeAuthority(a)
    \/ \E h \in Builds : AnnounceUpgrade(h)
    \/ CancelUpgrade
    \/ ExecuteUpgrade

-----------------------------------------------------------------------------
(* Property *)

\* Whatever was announced, announced anew, cancelled and handed over before, the
\* code changes only to the build that has been on display, without a break, for
\* the whole timelock (execute_upgrade).
NoticeGiven ==
    [][code' # code =>
          /\ pending # None
          /\ code' = pending.wasm_hash
          /\ notice >= UPGRADE_TIMELOCK_SECONDS]_<<now, upgradeVars>>
=============================================================================
