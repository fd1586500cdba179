------------------------------ MODULE AdminPanel ------------------------------
(***************************************************************************)
(* The admin panel: changes of roles and of accounts behind a two-step     *)
(* confirmation, the switch of a feature flag, their audit log, and the    *)
(* promotion of configured admins at start-up.                             *)
(*                                                                         *)
(* The handler of an update registers its actor first, and decides with    *)
(* this copy of the account for as long as it runs.  A change of a role or *)
(* a deactivation is a deferred transaction of a database in WAL mode: it  *)
(* reads in a snapshot, and its write fails (SQLITE_BUSY_SNAPSHOT) if any  *)
(* other connection has committed since.  Confirmations and the flag in    *)
(* force live in memory; accounts, the stored flag and the log do not.     *)
(***************************************************************************)
EXTENDS Naturals, FiniteSets

CONSTANTS
  Users,       \* registered accounts
  Configured,  \* those of TELEGRAM_ADMIN_IDS
  None,
  Handlers,    \* the updates that can be in flight at once
  MaxUpdates,  \* bound on the number of updates
  MaxFaults    \* bound on failing calls and process stops

ASSUME ConfiguredAssumption == Configured \subseteq Users
ASSUME NoneAssumption == None \notin Users
ASSUME BoundsAssumption == MaxUpdates \in Nat /\ MaxFaults \in Nat

VARIABLES
  users,       \* role and state of each account
  store,       \* AdminNonceStore: the confirmations that can be redeemed
  flag,        \* the flag: what is stored and what is in force
  proc,        \* what each handler holds while it runs
  stale,       \* transactions whose snapshot is older than the last commit
  log,         \* the audit log: the numbers of the updates it tells of
  executed,    \* history: the changes that were stored
  issued,      \* history: every confirmation ever issued
  unlogged,    \* history: updates whose audit entry a fault cost
  raced,       \* history: whether two toggles have overlapped
  updates, faults  \* history: what the bounds count

vars == <<users, store, flag, proc, stale, log, executed, issued, unlogged, raced,
          updates, faults>>

-----------------------------------------------------------------------------
(* Data *)

\* Managers and users are the same to the panel.
Account == [role : {"user", "admin"}, state : {"active", "deactivated"}]

Action == [kind   : {"promote", "demote", "deactivate", "reactivate", "toggle"},
           target : Users \cup {None}]

Toggle == [kind |-> "toggle", target |-> None]

\* A change of another user's account.
Proposal == [kind   : {"promote", "demote", "deactivate", "reactivate"},
             target : Users]

Nonce == 1 .. MaxUpdates

Confirmation == [nonce : Nonce, actor : Users, action : Action]

IsActiveAdmin(account) == account.role = "admin" /\ account.state = "active"

ActiveAdmins == {u \in Users : IsActiveAdmin(users[u])}

\* ensure_can_access_admin_panel, on the copy the handler has of its actor.
MayAdminister(h) == IsActiveAdmin(proc[h].account)

\* issue_confirmation, ensure_can_manage_roles, ensure_can_deactivate_user
NotSelf(h, action) == action.target # proc[h].actor

Step == {"idle", "arrived", "granted", "checked", "store", "apply", "audit"}

\* What a handler holds: the number of its update, the copy of its actor's account,
\* the action it carries out and the confirmation it redeemed, and the value it
\* wants the flag to have.
Handler == [step : Step, update : 0 .. MaxUpdates, actor : Users \cup {None},
            account : Account, action : Action, nonce : 0 .. MaxUpdates,
            want : {"on", "off"}]

\* A change that was stored.
Change == [update : Nonce, nonce : 0 .. MaxUpdates, actor : Users,
           account : Account, action : Action]

Idle == [step |-> "idle", update |-> 0, actor |-> None,
         account |-> [role |-> "user", state |-> "active"],
         action |-> Toggle, nonce |-> 0, want |-> "off"]

Arrived(h) == proc[h].step = "arrived"

Goto(h, step) == proc' = [proc EXCEPT ![h].step = step]

Finish(h) == proc' = [proc EXCEPT ![h] = Idle]

InTransaction == {h \in Handlers : proc[h].step = "checked"}

\* A commit leaves every other open snapshot behind.
Commit(h) == stale' = (stale \cup InTransaction) \ {h}

Changed(account, kind) ==
  CASE kind = "promote"    -> [account EXCEPT !.role = "admin"]
    [] kind = "demote"     -> [account EXCEPT !.role = "user"]
    [] kind = "deactivate" -> [account EXCEPT !.state = "deactivated"]
    [] kind = "reactivate" -> [account EXCEPT !.state = "active"]

\* last_admin_protected_error: the change would take the last active admin away.
LastAdmin(action) ==
  /\ action.kind \in {"demote", "deactivate"}
  /\ ActiveAdmins = {action.target}

\* What a handler that is past its write still owes to the audit log.
Owing(h) == proc[h].step \in {"apply", "audit"}

Execute(h) ==
  executed' = executed \cup {[update |-> proc[h].update, nonce |-> proc[h].nonce,
                              actor |-> proc[h].actor, account |-> proc[h].account,
                              action |-> proc[h].action]}

-----------------------------------------------------------------------------
Init ==
  /\ users \in {f \in [Users -> Account] : \E u \in Users : IsActiveAdmin(f[u])}
  /\ store = {}
  /\ flag = [stored |-> "off", inForce |-> "off"]
  /\ proc = [h \in Handlers |-> Idle]
  /\ stale = {}
  /\ log = {}
  /\ executed = {} /\ issued = {} /\ unlogged = {}
  /\ raced = "no"
  /\ updates = 0 /\ faults = 0

History == <<executed, issued, unlogged, raced>>
Bounds == <<updates, faults>>

-----------------------------------------------------------------------------
(* An update arrives *)

\* register_actor writes the account's profile and returns the row.
Arrive(h, u) ==
  /\ proc[h].step = "idle"
  /\ updates < MaxUpdates
  /\ updates' = updates + 1
  /\ proc' = [proc EXCEPT ![h] = [Idle EXCEPT !.step = "arrived", !.update = updates + 1,
                                              !.actor = u, !.account = users[u]]]
  /\ Commit(h)
  /\ UNCHANGED <<users, store, flag, log, History, faults>>

-----------------------------------------------------------------------------
(* Confirmations *)

\* prepare_admin_role_change, prepare_admin_deactivate, prepare_admin_reactivate
Prepare(h, action) ==
  /\ Arrived(h)
  /\ MayAdminister(h) /\ NotSelf(h, action)
  /\ LET c == [nonce |-> proc[h].update, actor |-> proc[h].actor, action |-> action]
     IN  store' = store \cup {c} /\ issued' = issued \cup {c}
  /\ Finish(h)
  /\ UNCHANGED <<users, flag, stale, log, executed, unlogged, raced, Bounds>>

\* AdminNonceStore::consume that leaves the entry, for a mutant.
ConsumedLazily(c) == store

\* AdminNonceStore::consume takes the entry out, whoever presses the button.
Consumed(c) == store \ {c}

\* The nonce is the actor's own, and the policy of the use case agrees.
\* reactivate_user does not test the target, but no confirmation targets its actor.
Redeems(h, c) ==
  /\ c.actor = proc[h].actor
  /\ MayAdminister(h)
  /\ NotSelf(h, c.action)

\* execute_admin_confirmation up to the repository call.
Confirm(h, c) ==
  /\ Arrived(h)
  /\ c \in store
  /\ store' = Consumed(c)
  /\ IF Redeems(h, c)
     THEN proc' = [proc EXCEPT ![h].step = "granted", ![h].action = c.action,
                               ![h].nonce = c.nonce]
     ELSE Finish(h)
  /\ UNCHANGED <<users, flag, stale, log, History, Bounds>>

\* The time to live of a confirmation is over.
Expire(c) ==
  /\ c \in store
  /\ store' = store \ {c}
  /\ UNCHANGED <<users, flag, proc, stale, log, History, Bounds>>

\* The panel is refused, the nonce is gone, or Cancel was pressed:
\* cancel_admin_pending shows the menu and leaves the confirmation where it is.
Refuse(h) ==
  /\ Arrived(h)
  /\ Finish(h)
  /\ UNCHANGED <<users, store, flag, stale, log, History, Bounds>>

-----------------------------------------------------------------------------
(* Changing an account *)

\* set_role and deactivate read the target and count the other admins.
Check(h) ==
  /\ proc[h].step = "granted"
  /\ proc[h].action.kind # "reactivate"
  /\ IF LastAdmin(proc[h].action)
     THEN Finish(h)
     ELSE Goto(h, "checked")
  /\ UNCHANGED <<users, store, flag, stale, log, History, Bounds>>

Store(h) ==
  users' = [users EXCEPT ![proc[h].action.target] = Changed(@, proc[h].action.kind)]

\* A write that does not notice that its snapshot is old, for a mutant.
WriteBlindly(h) ==
  /\ proc[h].step = "checked"
  /\ Store(h)
  /\ Execute(h)
  /\ Commit(h)
  /\ Goto(h, "audit")
  /\ UNCHANGED <<store, flag, log, issued, unlogged, raced, Bounds>>

\* UPDATE users ... and the commit, which succeed in a snapshot that is current.
Write(h) ==
  /\ proc[h].step = "checked"
  /\ h \notin stale
  /\ Store(h)
  /\ Execute(h)
  /\ Commit(h)
  /\ Goto(h, "audit")
  /\ UNCHANGED <<store, flag, log, issued, unlogged, raced, Bounds>>

\* A refused change that is reported as done, for a mutant.
WriteIsRefusedSilently(h) ==
  /\ proc[h].step = "checked"
  /\ h \in stale
  /\ stale' = stale \ {h}
  /\ Goto(h, "audit")
  /\ UNCHANGED <<users, store, flag, log, History, Bounds>>

\* The snapshot is old: the change is refused.
WriteIsRefused(h) ==
  /\ proc[h].step = "checked"
  /\ h \in stale
  /\ stale' = stale \ {h}
  /\ Finish(h)
  /\ UNCHANGED <<users, store, flag, log, History, Bounds>>

\* UserRepository::reactivate, a statement of its own.
Reactivate(h) ==
  /\ proc[h].step = "granted"
  /\ proc[h].action.kind = "reactivate"
  /\ Store(h)
  /\ Execute(h)
  /\ Commit(h)
  /\ Goto(h, "audit")
  /\ UNCHANGED <<store, flag, log, issued, unlogged, raced, Bounds>>

-----------------------------------------------------------------------------
(* The feature flag *)

\* toggle_admin_feature reads the flag in force and asks for the other value.
FlipFlag(h) ==
  /\ Arrived(h)
  /\ MayAdminister(h)
  /\ proc' = [proc EXCEPT ![h].step = "store", ![h].action = Toggle,
                          ![h].want = IF flag.inForce = "on" THEN "off" ELSE "on"]
  /\ UNCHANGED <<users, store, flag, stale, log, History, Bounds>>

\* FeatureFlagRepository::upsert_override
StoreFlag(h) ==
  /\ proc[h].step = "store"
  /\ flag' = [flag EXCEPT !.stored = proc[h].want]
  /\ raced' = IF \E g \in Handlers : proc[g].step = "apply" THEN "yes" ELSE raced
  /\ Execute(h)
  /\ Commit(h)
  /\ Goto(h, "apply")
  /\ UNCHANGED <<users, store, log, issued, unlogged, Bounds>>

\* The value in force is turned over once more, for a mutant.
ApplyFlagFlipping(h) ==
  /\ proc[h].step = "apply"
  /\ flag' = [flag EXCEPT !.inForce = IF @ = "on" THEN "off" ELSE "on"]
  /\ Goto(h, "audit")
  /\ UNCHANGED <<users, store, stale, log, History, Bounds>>

\* SharedFeatureFlagRegistry::toggle
ApplyFlag(h) ==
  /\ proc[h].step = "apply"
  /\ flag' = [flag EXCEPT !.inForce = proc[h].want]
  /\ Goto(h, "audit")
  /\ UNCHANGED <<users, store, stale, log, History, Bounds>>

-----------------------------------------------------------------------------
(* The audit log, and faults *)

\* emit_audit
EmitAudit(h) ==
  /\ proc[h].step = "audit"
  /\ log' = log \cup {proc[h].update}
  /\ Commit(h)
  /\ Finish(h)
  /\ UNCHANGED <<users, store, flag, History, Bounds>>

Fault == faults < MaxFaults /\ faults' = faults + 1 /\ UNCHANGED updates

\* The log cannot be written: the change stays.
EmitFails(h) ==
  /\ Fault
  /\ proc[h].step = "audit"
  /\ unlogged' = unlogged \cup {proc[h].update}
  /\ Finish(h)
  /\ UNCHANGED <<users, store, flag, stale, log, executed, issued, raced>>

\* A call before the write returns an error.
Fails(h) ==
  /\ Fault
  /\ proc[h].step \in {"granted", "checked", "store"}
  /\ stale' = stale \ {h}
  /\ Finish(h)
  /\ UNCHANGED <<users, store, flag, log, History>>

\* The process stops and starts: handlers and confirmations are gone, the registry
\* is filled from the database, and the configured accounts that are no admins are
\* promoted, except those (failing) whose promotion fails.
Restart(failing) ==
  /\ Fault
  /\ users' = [u \in Users |-> IF u \in Configured \ failing /\ users[u].role # "admin"
                               THEN [role |-> "admin", state |-> "active"]
                               ELSE users[u]]
  /\ proc' = [h \in Handlers |-> Idle]
  /\ store' = {} /\ stale' = {}
  /\ flag' = [flag EXCEPT !.inForce = flag.stored]
  /\ unlogged' = unlogged \cup {proc[h].update : h \in {g \in Handlers : Owing(g)}}
  /\ UNCHANGED <<log, executed, issued, raced>>

-----------------------------------------------------------------------------
Handle(h) ==
  \/ \E u \in Users : Arrive(h, u)
  \/ \E action \in Proposal : Prepare(h, action)
  \/ \E c \in store : Confirm(h, c)
  \/ Refuse(h)
  \/ Check(h) \/ Write(h) \/ WriteIsRefused(h) \/ Reactivate(h)
  \/ FlipFlag(h) \/ StoreFlag(h) \/ ApplyFlag(h)
  \/ EmitAudit(h) \/ EmitFails(h) \/ Fails(h)

Next ==
  \/ \E h \in Handlers : Handle(h)
  \/ \E c \in store : Expire(c)
  \/ \E failing \in SUBSET Configured : Restart(failing)

Spec == Init /\ [][Next]_vars

-----------------------------------------------------------------------------
(* Properties *)

TypeOK ==
  /\ users \in [Users -> Account]
  /\ store \subseteq Confirmation
  /\ flag \in [stored : {"on", "off"}, inForce : {"on", "off"}]
  /\ proc \in [Handlers -> Handler]
  /\ stale \subseteq Handlers
  /\ log \subseteq Nonce
  /\ executed \subseteq Change
  /\ issued \subseteq Confirmation
  /\ unlogged \subseteq Nonce
  /\ raced \in {"yes", "no"}
  /\ updates \in Nat /\ faults \in Nat

\* README.md, "last-admin protection": no interleaving of demotions, deactivations
\* and restarts leaves the bot without an active admin, although each change counts
\* the admins before it writes.
AdminRemains ==
  [][ActiveAdmins # {} => ActiveAdmins' # {}]_vars

\* An account is changed only as a confirmation says, by the user it was issued to,
\* who was an active admin still when the update that redeemed it arrived, and once
\* per confirmation.
ConfirmedOnce ==
  \A e \in executed : e.action # Toggle =>
    /\ [nonce |-> e.nonce, actor |-> e.actor, action |-> e.action] \in issued
    /\ IsActiveAdmin(e.account)
    /\ e.action.target # e.actor
    /\ \A d \in executed : d.action # Toggle /\ d.nonce = e.nonce => d = e

\* Every change that was stored is in the audit log unless its handler is about to
\* append it or a fault cost the entry, and the log tells of nothing else.
ChangesAreLogged ==
  LET done == {e.update : e \in executed}
  IN  /\ log \subseteq done
      /\ done \ log = unlogged \cup {proc[h].update : h \in {g \in Handlers : Owing(g)}}

\* The flag in force is the one a restart would bring back, unless two toggles have
\* overlapped between the database and the registry.
FlagInForceIsStored ==
  raced = "no" /\ (\A h \in Handlers : proc[h].step # "apply")
    => flag.inForce = flag.stored

=============================================================================
