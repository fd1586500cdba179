-------------------------- MODULE AdminPanelProofs --------------------------
(***************************************************************************)
(* Theorems about AdminPanel for any number of users, configured admins,   *)
(* handlers, updates and faults.                                           *)
(***************************************************************************)
EXTENDS AdminPanel, TLAPS

Busy(h) == proc[h].step # "idle"

\* h has redeemed a confirmation and not changed anything yet.
Holding(h) == proc[h].step \in {"granted", "checked"}

Done == {e.update : e \in executed}

OwingUpdates == {proc[h].update : h \in {g \in Handlers : Owing(g)}}

\* A handler works on an update of its own.
Numbered ==
  /\ \A h \in Handlers : Busy(h) => proc[h].update \in 1 .. updates /\ proc[h].actor \in Users
  /\ \A g, h \in Handlers :
       Busy(g) /\ Busy(h) /\ g # h => proc[g].update # proc[h].update

\* What a handler is about to do, it may do.
Entitled ==
  /\ \A h \in Handlers :
       Holding(h) => /\ proc[h].action \in Proposal
                     /\ IsActiveAdmin(proc[h].account)
                     /\ proc[h].action.target # proc[h].actor
                     /\ [nonce |-> proc[h].nonce, actor |-> proc[h].actor,
                         action |-> proc[h].action] \in issued
  /\ \A h \in Handlers : proc[h].step \in {"store", "apply"} => proc[h].action = Toggle

\* A snapshot that is not stale shows the accounts as they are.
SnapshotsHold ==
  \A h \in Handlers :
    proc[h].step = "checked" /\ h \notin stale => ~LastAdmin(proc[h].action)

\* Confirmations have nonces of their own.
NoncesDiffer ==
  /\ store \subseteq issued
  /\ \A c \in issued : c.nonce <= updates /\ c.action \in Proposal
  /\ \A c \in issued, h \in Handlers :
       proc[h].step = "arrived" => c.nonce # proc[h].update
  /\ \A c, d \in issued : c.nonce = d.nonce => c = d

\* A confirmation is in the store, in one hand, or executed.
SpentOnce ==
  /\ \A h \in Handlers, c \in store : Holding(h) => c.nonce # proc[h].nonce
  /\ \A g, h \in Handlers :
       Holding(g) /\ Holding(h) /\ g # h => proc[g].nonce # proc[h].nonce
  /\ \A e \in executed : e.action # Toggle =>
       /\ \A c \in store : c.nonce # e.nonce
       /\ \A h \in Handlers : Holding(h) => proc[h].nonce # e.nonce

\* The update of a handler is done exactly when the handler owes its entry.
Accounted ==
  /\ \A e \in executed : e.update <= updates
  /\ \A h \in Handlers : Busy(h) /\ ~Owing(h) => proc[h].update \notin Done
  /\ \A h \in Handlers :
       Owing(h) => /\ proc[h].update \in Done
                   /\ proc[h].update \notin log \cup unlogged

\* As long as no toggles have overlapped, one handler at a time is between the
\* database and the registry.
OneToggle ==
  raced = "no" =>
    /\ \A g, h \in Handlers : proc[g].step = "apply" /\ proc[h].step = "apply" => g = h
    /\ \A h \in Handlers : proc[h].step = "apply" => proc[h].want = flag.stored

\* The strengthening under which the properties are inductive.
IInv ==
  /\ TypeOK
  /\ Numbered
  /\ Entitled
  /\ SnapshotsHold
  /\ NoncesDiffer
  /\ SpentOnce
  /\ ConfirmedOnce
  /\ Accounted
  /\ ChangesAreLogged
  /\ OneToggle
  /\ FlagInForceIsStored

-----------------------------------------------------------------------------
(* How a handler moves *)

Others(h) == \A g \in Handlers \ {h} : proc'[g] = proc[g]

Keeps(h) ==
  /\ proc'[h].update = proc[h].update
  /\ proc'[h].actor = proc[h].actor
  /\ proc'[h].account = proc[h].account
  /\ proc'[h].action = proc[h].action
  /\ proc'[h].nonce = proc[h].nonce
  /\ proc'[h].want = proc[h].want

\* A handler at rest is of the type of handlers.
LEMMA IdleType == Idle \in Handler
<1>1. Toggle \in Action
  BY DEF Toggle, Action
<1>2. [role |-> "user", state |-> "active"] \in Account
  BY DEF Account
<1>3. 0 \in 0 .. MaxUpdates
  BY BoundsAssumption
<1> QED
  BY <1>1, <1>2, <1>3 DEF Idle, Handler, Step

\* One field of what a handler holds may be overwritten with a value of its type.
LEMMA HandlerExcept ==
  ASSUME NEW p \in Handler
  PROVE  /\ \A x \in Step : [p EXCEPT !.step = x] \in Handler
         /\ \A x \in 0 .. MaxUpdates : [p EXCEPT !.update = x] \in Handler
         /\ \A x \in Users \cup {None} : [p EXCEPT !.actor = x] \in Handler
         /\ \A x \in Account : [p EXCEPT !.account = x] \in Handler
         /\ \A x \in Action : [p EXCEPT !.action = x] \in Handler
         /\ \A x \in 0 .. MaxUpdates : [p EXCEPT !.nonce = x] \in Handler
         /\ \A x \in {"on", "off"} : [p EXCEPT !.want = x] \in Handler
<1>1. \A x \in Step : [p EXCEPT !.step = x] \in Handler
  BY DEF Handler
<1>2. \A x \in 0 .. MaxUpdates : [p EXCEPT !.update = x] \in Handler
  BY DEF Handler
<1>3. \A x \in Users \cup {None} : [p EXCEPT !.actor = x] \in Handler
  BY DEF Handler
<1>4. \A x \in Account : [p EXCEPT !.account = x] \in Handler
  BY DEF Handler
<1>5. \A x \in Action : [p EXCEPT !.action = x] \in Handler
  BY DEF Handler
<1>6. \A x \in 0 .. MaxUpdates : [p EXCEPT !.nonce = x] \in Handler
  BY DEF Handler
<1>7. \A x \in {"on", "off"} : [p EXCEPT !.want = x] \in Handler
  BY DEF Handler
<1> QED
  BY <1>1, <1>2, <1>3, <1>4, <1>5, <1>6, <1>7

\* Overwriting what one handler holds.
LEMMA ProcExcept ==
  ASSUME proc \in [Handlers -> Handler], NEW h \in Handlers, NEW p \in Handler,
         proc' = [proc EXCEPT ![h] = p]
  PROVE  proc' \in [Handlers -> Handler] /\ proc'[h] = p /\ Others(h)
BY DEF Others

\* What Finish does to the handlers.
LEMMA FinishMoves ==
  ASSUME proc \in [Handlers -> Handler], NEW h \in Handlers, Finish(h)
  PROVE  /\ proc' \in [Handlers -> Handler] /\ Others(h)
         /\ proc'[h] = Idle /\ proc'[h].step = "idle"
<1>1. /\ proc' \in [Handlers -> Handler] /\ Others(h)
      /\ proc'[h] = Idle
  BY IdleType, ProcExcept DEF Finish
<1> QED
  BY <1>1 DEF Idle

\* What Goto does to the handlers.
LEMMA GotoMoves ==
  ASSUME proc \in [Handlers -> Handler], NEW h \in Handlers, NEW s \in Step, Goto(h, s)
  PROVE  /\ proc' \in [Handlers -> Handler] /\ Others(h) /\ Keeps(h)
         /\ proc'[h].step = s
<1> DEFINE p == [proc[h] EXCEPT !.step = s]
<1>1. p \in Handler
  BY HandlerExcept
<1>2. proc' = [proc EXCEPT ![h] = p]
  BY DEF Goto
<1>3. /\ p.step = s
      /\ p.update = proc[h].update /\ p.actor = proc[h].actor
      /\ p.account = proc[h].account /\ p.action = proc[h].action
      /\ p.nonce = proc[h].nonce /\ p.want = proc[h].want
  BY DEF Handler
<1> HIDE DEF p
<1> QED
  BY <1>1, <1>2, <1>3, ProcExcept DEF Keeps

\* After a commit no other open snapshot is current.
LEMMA CommitAges ==
  ASSUME NEW h \in Handlers, Commit(h), stale \subseteq Handlers
  PROVE  /\ stale' \subseteq Handlers
         /\ \A g \in Handlers \ {h} : proc[g].step = "checked" => g \in stale'
BY DEF Commit, InTransaction

-----------------------------------------------------------------------------
(* A handler that gives up *)

\* A handler that has stored nothing may be dropped, and so may confirmations.
LEMMA DropKeeps ==
  ASSUME IInv, NEW h \in Handlers, Finish(h), ~Owing(h),
         store' \subseteq store,
         stale' \subseteq Handlers, \A g \in stale \ {h} : g \in stale',
         UNCHANGED <<users, flag, log, executed, issued, unlogged, raced, updates>>,
         faults' \in Nat
  PROVE  IInv'
<1>1. /\ proc' \in [Handlers -> Handler] /\ Others(h)
      /\ proc'[h].step = "idle"
  BY FinishMoves DEF IInv, TypeOK
<1>2. \A g \in Handlers : proc'[g].step # "idle" => g # h /\ proc'[g] = proc[g]
  BY <1>1 DEF Others
<1>3. {g \in Handlers : Owing(g)}' = {g \in Handlers : Owing(g)}
  BY <1>1, <1>2 DEF Owing, Others
<1>4. OwingUpdates' = OwingUpdates
  BY <1>2, <1>3 DEF OwingUpdates, Owing
<1>5. TypeOK'
  BY <1>1 DEF IInv, TypeOK
<1>6. Numbered'
  BY <1>2 DEF IInv, Numbered, Busy
<1>7. Entitled'
  BY <1>2 DEF IInv, Entitled, Holding
<1>8. SnapshotsHold'
  BY <1>2 DEF IInv, SnapshotsHold, LastAdmin, ActiveAdmins
<1>9. NoncesDiffer'
  BY <1>2 DEF IInv, NoncesDiffer
<1>10. SpentOnce'
  BY <1>2 DEF IInv, SpentOnce, Holding
<1>11. ConfirmedOnce'
  BY DEF IInv, ConfirmedOnce
<1>12. Accounted'
  BY <1>2 DEF IInv, Accounted, Busy, Owing, Done
<1>13. ChangesAreLogged'
  BY <1>4 DEF IInv, ChangesAreLogged, OwingUpdates
<1>14. OneToggle'
  BY <1>2 DEF IInv, OneToggle
<1>15. FlagInForceIsStored'
  BY <1>1, <1>2, <1>3 DEF IInv, FlagInForceIsStored, Owing, Others
<1> QED
  BY <1>5, <1>6, <1>7, <1>8, <1>9, <1>10, <1>11, <1>12, <1>13, <1>14, <1>15 DEF IInv

-----------------------------------------------------------------------------
(* Updates and confirmations *)

\* The registration of the actor, whose commit makes open snapshots stale.
LEMMA ArriveKeeps ==
  ASSUME IInv, NEW h \in Handlers, NEW u \in Users, Arrive(h, u)
  PROVE  IInv'
<1> DEFINE p == [Idle EXCEPT !.step = "arrived", !.update = updates + 1,
                             !.actor = u, !.account = users[u]]
           q == [[[[Idle EXCEPT !.step = "arrived"] EXCEPT !.update = updates + 1]
                   EXCEPT !.actor = u] EXCEPT !.account = users[u]]
<1>1. /\ proc[h].step = "idle"
      /\ updates < MaxUpdates /\ updates' = updates + 1 /\ updates \in Nat
      /\ proc' = [proc EXCEPT ![h] = p]
      /\ Commit(h)
      /\ UNCHANGED <<users, store, flag, log, executed, issued, unlogged, raced, faults>>
  BY DEF Arrive, History, IInv, TypeOK
<1>2. p = q
  OBVIOUS
<1>3. "arrived" \in Step /\ updates + 1 \in 0 .. MaxUpdates /\ users[u] \in Account
  BY <1>1, BoundsAssumption DEF Step, IInv, TypeOK
<1>4. p \in Handler
  <2>1. q \in Handler
    BY <1>3, IdleType, HandlerExcept
  <2> QED
    BY <1>2, <2>1
<1>5. p.step = "arrived" /\ p.update = updates + 1 /\ p.actor = u
  BY DEF Idle
<1> HIDE DEF p, q
<1>6. /\ proc' \in [Handlers -> Handler] /\ Others(h)
      /\ proc'[h].step = "arrived" /\ proc'[h].update = updates + 1 /\ proc'[h].actor = u
  BY <1>1, <1>4, <1>5, ProcExcept DEF IInv, TypeOK
<1>7. \A g \in Handlers : g # h => proc'[g] = proc[g]
  BY <1>6 DEF Others
<1>8. {g \in Handlers : Owing(g)}' = {g \in Handlers : Owing(g)}
  BY <1>1, <1>6, <1>7 DEF Owing
<1>9. OwingUpdates' = OwingUpdates
  BY <1>1, <1>7, <1>8 DEF OwingUpdates, Owing
<1>10. stale' \subseteq Handlers
  BY <1>1, CommitAges DEF IInv, TypeOK
<1>11. TypeOK'
  BY <1>1, <1>6, <1>10 DEF IInv, TypeOK
<1>12. Numbered'
  BY <1>1, <1>6, <1>7 DEF IInv, Numbered, Busy
<1>13. Entitled'
  BY <1>1, <1>6, <1>7 DEF IInv, Entitled, Holding
<1>14. SnapshotsHold'
  BY <1>1, <1>6, <1>7, CommitAges DEF IInv, TypeOK, SnapshotsHold, LastAdmin, ActiveAdmins
<1>15. NoncesDiffer'
  <2>1. \A c \in issued : c.nonce \in Nat /\ c.nonce <= updates
    BY DEF IInv, TypeOK, Confirmation, Nonce, NoncesDiffer
  <2> QED
    BY <1>1, <1>6, <1>7, <2>1 DEF IInv, NoncesDiffer
<1>16. SpentOnce'
  BY <1>1, <1>6, <1>7 DEF IInv, SpentOnce, Holding
<1>17. ConfirmedOnce'
  BY <1>1 DEF IInv, ConfirmedOnce
<1>18. Accounted'
  <2>1. \A e \in executed : e.update \in Nat /\ e.update <= updates
    BY DEF IInv, TypeOK, Change, Nonce, Accounted
  <2> QED
    BY <1>1, <1>6, <1>7, <2>1 DEF IInv, Accounted, Busy, Owing, Done
<1>19. ChangesAreLogged'
  BY <1>1, <1>9 DEF IInv, ChangesAreLogged, OwingUpdates
<1>20. OneToggle'
  BY <1>1, <1>6, <1>7 DEF IInv, OneToggle
<1>21. FlagInForceIsStored'
  BY <1>1, <1>6, <1>7 DEF IInv, FlagInForceIsStored
<1> QED
  BY <1>11, <1>12, <1>13, <1>14, <1>15, <1>16, <1>17, <1>18, <1>19, <1>20, <1>21 DEF IInv

\* A confirmation is issued under the number of the update that asks for it.
LEMMA PrepareKeeps ==
  ASSUME IInv, NEW h \in Handlers, NEW action \in Proposal, Prepare(h, action)
  PROVE  IInv'
<1> DEFINE c == [nonce |-> proc[h].update, actor |-> proc[h].actor, action |-> action]
<1>1. /\ proc[h].step = "arrived"
      /\ store' = store \cup {c} /\ issued' = issued \cup {c}
      /\ Finish(h)
      /\ UNCHANGED <<users, flag, stale, log, executed, unlogged, raced, updates, faults>>
  BY DEF Prepare, Arrived, Bounds
<1>2. /\ proc' \in [Handlers -> Handler] /\ Others(h)
      /\ proc'[h].step = "idle"
  BY <1>1, FinishMoves DEF IInv, TypeOK
<1>3. \A g \in Handlers : proc'[g].step # "idle" => g # h /\ proc'[g] = proc[g]
  BY <1>2 DEF Others
<1>4. {g \in Handlers : Owing(g)}' = {g \in Handlers : Owing(g)}
  BY <1>1, <1>2, <1>3 DEF Owing, Others
<1>5. OwingUpdates' = OwingUpdates
  BY <1>1, <1>3, <1>4 DEF OwingUpdates, Owing
<1>6. /\ proc[h].update \in 1 .. updates /\ proc[h].actor \in Users
      /\ proc[h].update \in Nonce
  <2>1. proc[h].update \in 1 .. updates /\ proc[h].actor \in Users
    BY <1>1 DEF IInv, Numbered, Busy
  <2>2. proc[h].update \in 0 .. MaxUpdates
    BY DEF IInv, TypeOK, Handler
  <2> QED
    BY <2>1, <2>2, BoundsAssumption DEF IInv, TypeOK, Nonce
<1>7. c \in Confirmation
  BY <1>6 DEF Confirmation, Proposal, Action
<1>8. c.nonce = proc[h].update /\ c.action = action
  OBVIOUS
<1> HIDE DEF c
<1>9. TypeOK'
  BY <1>1, <1>2, <1>7 DEF IInv, TypeOK
<1>10. Numbered'
  BY <1>1, <1>3 DEF IInv, Numbered, Busy
<1>11. Entitled'
  BY <1>1, <1>3 DEF IInv, Entitled, Holding
<1>12. SnapshotsHold'
  BY <1>1, <1>3 DEF IInv, SnapshotsHold, LastAdmin, ActiveAdmins
<1>13. \A d \in issued : d.nonce # c.nonce
  BY <1>1, <1>8 DEF IInv, NoncesDiffer
<1>14. NoncesDiffer'
  <2>1. store' \subseteq issued'
    BY <1>1 DEF IInv, NoncesDiffer
  <2>2. \A d \in issued' : d.nonce <= updates' /\ d.action \in Proposal
    BY <1>1, <1>6, <1>8 DEF IInv, NoncesDiffer
  <2>3. \A d \in issued', g \in Handlers :
          proc'[g].step = "arrived" => d.nonce # proc'[g].update
    BY <1>1, <1>3, <1>8 DEF IInv, NoncesDiffer, Numbered, Busy
  <2>4. \A d, e \in issued' : d.nonce = e.nonce => d = e
    BY <1>1, <1>13 DEF IInv, NoncesDiffer
  <2> QED
    BY <2>1, <2>2, <2>3, <2>4 DEF NoncesDiffer
<1>15. SpentOnce'
  <2>1. \A g \in Handlers : Holding(g) => proc[g].nonce # c.nonce
    BY <1>13 DEF IInv, Entitled
  <2>2. \A e \in executed : e.action # Toggle => e.nonce # c.nonce
    BY <1>13 DEF IInv, ConfirmedOnce
  <2> QED
    BY <1>1, <1>3, <2>1, <2>2 DEF IInv, SpentOnce, Holding
<1>16. ConfirmedOnce'
  BY <1>1 DEF IInv, ConfirmedOnce
<1>17. Accounted'
  BY <1>1, <1>3 DEF IInv, Accounted, Busy, Owing, Done
<1>18. ChangesAreLogged'
  BY <1>1, <1>5 DEF IInv, ChangesAreLogged, OwingUpdates
<1>19. OneToggle'
  BY <1>1, <1>3 DEF IInv, OneToggle
<1>20. FlagInForceIsStored'
  BY <1>1, <1>2, <1>3 DEF IInv, FlagInForceIsStored, Others
<1> QED
  BY <1>9, <1>10, <1>11, <1>12, <1>14, <1>15, <1>16, <1>17, <1>18, <1>19, <1>20 DEF IInv

\* A confirmation is consumed, whether it is then honoured or not.
LEMMA ConfirmKeeps ==
  ASSUME IInv, NEW h \in Handlers, NEW c \in store, Confirm(h, c)
  PROVE  IInv'
<1>1. /\ proc[h].step = "arrived"
      /\ store' = store \ {c}
      /\ UNCHANGED <<users, flag, stale, log, executed, issued, unlogged, raced,
                     updates, faults>>
  BY DEF Confirm, Arrived, Consumed, History, Bounds
<1>2. CASE ~Redeems(h, c)
  <2>1. Finish(h)
    BY <1>2 DEF Confirm
  <2>2. ~Owing(h)
    BY <1>1 DEF Owing
  <2>3. stale' \subseteq Handlers /\ faults' \in Nat
    BY <1>1 DEF IInv, TypeOK
  <2> QED
    BY <1>1, <2>1, <2>2, <2>3, DropKeeps
<1>3. CASE Redeems(h, c)
  <2> DEFINE p == [proc[h] EXCEPT !.step = "granted", !.action = c.action,
                                  !.nonce = c.nonce]
             q == [[[proc[h] EXCEPT !.step = "granted"] EXCEPT !.action = c.action]
                    EXCEPT !.nonce = c.nonce]
  <2>1. /\ c.actor = proc[h].actor /\ c.action.target # proc[h].actor
        /\ IsActiveAdmin(proc[h].account)
    BY <1>3 DEF Redeems, MayAdminister, NotSelf
  <2>2. /\ c \in issued /\ c \in Confirmation
        /\ c.action \in Proposal /\ c.action \in Action /\ c.nonce \in 0 .. MaxUpdates
        /\ c = [nonce |-> c.nonce, actor |-> c.actor, action |-> c.action]
    <3>1. c \in issued /\ c \in Confirmation /\ c.action \in Proposal
      BY DEF IInv, TypeOK, NoncesDiffer
    <3> QED
      BY <3>1, BoundsAssumption DEF Confirmation, Nonce
  <2>3. proc[h] \in Handler
    BY DEF IInv, TypeOK
  <2>4. p = q /\ proc' = [proc EXCEPT ![h] = p]
    <3>1. p = q
      BY <2>3 DEF Handler
    <3>2. proc' = [proc EXCEPT ![h] = p]
      BY <1>3, <2>3 DEF Confirm, Handler
    <3> QED
      BY <3>1, <3>2
  <2>5. p \in Handler
    <3>1. q \in Handler
      BY <2>2, <2>3, HandlerExcept DEF Step
    <3> QED
      BY <2>4, <3>1
  <2>6. /\ p.step = "granted" /\ p.action = c.action /\ p.nonce = c.nonce
        /\ p.update = proc[h].update /\ p.actor = proc[h].actor
        /\ p.account = proc[h].account
    BY <2>3 DEF Handler
  <2> HIDE DEF p, q
  <2>7. /\ proc' \in [Handlers -> Handler] /\ proc'[h] = p
        /\ \A g \in Handlers : g # h => proc'[g] = proc[g]
    BY <2>4, <2>5, ProcExcept DEF IInv, TypeOK, Others
  <2>8. {g \in Handlers : Owing(g)}' = {g \in Handlers : Owing(g)}
    BY <1>1, <2>6, <2>7 DEF Owing
  <2>9. OwingUpdates' = OwingUpdates
    BY <1>1, <2>6, <2>7, <2>8 DEF OwingUpdates, Owing
  <2>10. TypeOK'
    BY <1>1, <2>7 DEF IInv, TypeOK
  <2>11. Numbered'
    BY <1>1, <2>6, <2>7 DEF IInv, Numbered, Busy
  <2>12. Entitled'
    BY <1>1, <2>1, <2>2, <2>6, <2>7 DEF IInv, Entitled, Holding
  <2>13. SnapshotsHold'
    BY <1>1, <2>6, <2>7 DEF IInv, SnapshotsHold, LastAdmin, ActiveAdmins
  <2>14. NoncesDiffer'
    BY <1>1, <2>6, <2>7 DEF IInv, NoncesDiffer
  <2>15. SpentOnce'
    <3>1. \A d \in store' : d \in store /\ d.nonce # c.nonce
      BY <1>1, <2>2 DEF IInv, NoncesDiffer
    <3>2. \A g \in Handlers : Holding(g) => proc[g].nonce # c.nonce
      BY DEF IInv, SpentOnce
    <3>3. \A e \in executed : e.action # Toggle => c.nonce # e.nonce
      BY DEF IInv, SpentOnce
    <3> QED
      BY <1>1, <2>6, <2>7, <3>1, <3>2, <3>3 DEF IInv, SpentOnce, Holding
  <2>16. ConfirmedOnce'
    BY <1>1 DEF IInv, ConfirmedOnce
  <2>17. Accounted'
    BY <1>1, <2>6, <2>7 DEF IInv, Accounted, Busy, Owing, Done
  <2>18. ChangesAreLogged'
    BY <1>1, <2>9 DEF IInv, ChangesAreLogged, OwingUpdates
  <2>19. OneToggle'
    BY <1>1, <2>6, <2>7 DEF IInv, OneToggle
  <2>20. FlagInForceIsStored'
    BY <1>1, <2>6, <2>7 DEF IInv, FlagInForceIsStored
  <2> QED
    BY <2>10, <2>11, <2>12, <2>13, <2>14, <2>15, <2>16, <2>17, <2>18, <2>19, <2>20 DEF IInv
<1> QED
  BY <1>2, <1>3

\* Confirmations that expire.
LEMMA ExpireKeeps ==
  ASSUME IInv, NEW c \in store, Expire(c)
  PROVE  IInv'
<1>1. /\ store' = store \ {c}
      /\ UNCHANGED <<users, flag, proc, stale, log, executed, issued, unlogged, raced,
                     updates, faults>>
  BY DEF Expire, History, Bounds
<1>2. TypeOK' /\ Numbered' /\ Entitled' /\ SnapshotsHold'
  BY <1>1 DEF IInv, TypeOK, Numbered, Busy, Entitled, Holding, SnapshotsHold,
              LastAdmin, ActiveAdmins
<1>3. NoncesDiffer' /\ SpentOnce' /\ ConfirmedOnce'
  BY <1>1 DEF IInv, NoncesDiffer, SpentOnce, Holding, ConfirmedOnce
<1>4. Accounted' /\ ChangesAreLogged'
  BY <1>1 DEF IInv, Accounted, Busy, Owing, Done, ChangesAreLogged
<1>5. OneToggle' /\ FlagInForceIsStored'
  BY <1>1 DEF IInv, OneToggle, FlagInForceIsStored
<1> QED
  BY <1>2, <1>3, <1>4, <1>5 DEF IInv

-----------------------------------------------------------------------------
(* Changes of accounts *)

\* The admins are counted at the head of the transaction.
LEMMA CheckKeeps ==
  ASSUME IInv, NEW h \in Handlers, Check(h)
  PROVE  IInv'
<1>1. /\ proc[h].step = "granted"
      /\ UNCHANGED <<users, store, flag, stale, log, executed, issued, unlogged, raced,
                     updates, faults>>
  BY DEF Check, History, Bounds
<1>2. CASE LastAdmin(proc[h].action)
  <2>1. Finish(h) /\ ~Owing(h)
    BY <1>1, <1>2 DEF Check, Owing
  <2>2. stale' \subseteq Handlers /\ faults' \in Nat
    BY <1>1 DEF IInv, TypeOK
  <2> QED
    BY <1>1, <2>1, <2>2, DropKeeps
<1>3. CASE ~LastAdmin(proc[h].action)
  <2>1. /\ proc' \in [Handlers -> Handler] /\ Others(h) /\ Keeps(h)
        /\ proc'[h].step = "checked"
    BY <1>3, GotoMoves DEF Check, IInv, TypeOK, Step
  <2>2. \A g \in Handlers : g # h => proc'[g] = proc[g]
    BY <2>1 DEF Others
  <2>3. {g \in Handlers : Owing(g)}' = {g \in Handlers : Owing(g)}
    BY <1>1, <2>1, <2>2 DEF Owing
  <2>4. OwingUpdates' = OwingUpdates
    BY <1>1, <2>2, <2>3 DEF OwingUpdates, Owing
  <2>5. TypeOK'
    BY <1>1, <2>1 DEF IInv, TypeOK
  <2>6. Numbered'
    BY <1>1, <2>1, <2>2 DEF IInv, Numbered, Busy, Keeps
  <2>7. Entitled'
    BY <1>1, <2>1, <2>2 DEF IInv, Entitled, Holding, Keeps
  <2>8. SnapshotsHold'
    BY <1>1, <1>3, <2>1, <2>2 DEF IInv, SnapshotsHold, LastAdmin, ActiveAdmins, Keeps
  <2>9. NoncesDiffer'
    BY <1>1, <2>1, <2>2 DEF IInv, NoncesDiffer
  <2>10. SpentOnce'
    BY <1>1, <2>1, <2>2 DEF IInv, SpentOnce, Holding, Keeps
  <2>11. ConfirmedOnce'
    BY <1>1 DEF IInv, ConfirmedOnce
  <2>12. Accounted'
    BY <1>1, <2>1, <2>2 DEF IInv, Accounted, Busy, Owing, Done, Keeps
  <2>13. ChangesAreLogged'
    BY <1>1, <2>4 DEF IInv, ChangesAreLogged, OwingUpdates
  <2>14. OneToggle'
    BY <1>1, <2>1, <2>2 DEF IInv, OneToggle
  <2>15. FlagInForceIsStored'
    BY <1>1, <2>1, <2>2 DEF IInv, FlagInForceIsStored
  <2> QED
    BY <2>5, <2>6, <2>7, <2>8, <2>9, <2>10, <2>11, <2>12, <2>13, <2>14, <2>15 DEF IInv
<1> QED
  BY <1>2, <1>3

\* A change of an account gives an account.
LEMMA ChangedType ==
  ASSUME NEW account \in Account,
         NEW kind \in {"promote", "demote", "deactivate", "reactivate"}
  PROVE  Changed(account, kind) \in Account
BY DEF Account, Changed

\* The entry a handler leaves in the history.
Entry(h) == [update |-> proc[h].update, nonce |-> proc[h].nonce, actor |-> proc[h].actor,
             account |-> proc[h].account, action |-> proc[h].action]

\* The history has entries of its type.
LEMMA EntryType ==
  ASSUME IInv, NEW h \in Handlers, Busy(h)
  PROVE  Entry(h) \in Change
<1>1. proc[h] \in Handler /\ proc[h].update \in 1 .. updates /\ proc[h].actor \in Users
  BY DEF IInv, TypeOK, Numbered
<1>2. proc[h].update \in Nonce
  BY <1>1, BoundsAssumption DEF Handler, Nonce, IInv, TypeOK
<1> QED
  BY <1>1, <1>2 DEF Handler, Entry, Change

\* What follows for the log when h, which owed nothing, has stored a change.
LEMMA OwesAfterChange ==
  ASSUME IInv, NEW h \in Handlers, Busy(h), ~Owing(h), Execute(h),
         Others(h), Keeps(h), proc'[h].step \in {"apply", "audit"},
         UNCHANGED <<log, unlogged, updates>>
  PROVE  Accounted' /\ ChangesAreLogged'
<1>1. executed' = executed \cup {Entry(h)} /\ Entry(h).update = proc[h].update
  BY DEF Execute, Entry
<1>2. Done' = Done \cup {proc[h].update}
  BY <1>1 DEF Done
<1>3. \A g \in Handlers : g # h => proc'[g] = proc[g]
  BY DEF Others
<1>4. /\ proc'[h].update = proc[h].update
      /\ proc[h].update \notin Done
      /\ proc[h].update \in 1 .. updates
  BY DEF Keeps, IInv, Accounted, Numbered
<1>5. {g \in Handlers : Owing(g)}' = {g \in Handlers : Owing(g)} \cup {h}
  BY <1>3 DEF Owing
<1>6. OwingUpdates' = OwingUpdates \cup {proc[h].update}
  BY <1>3, <1>4, <1>5 DEF OwingUpdates, Owing
<1>7. log \subseteq Done /\ Done \ log = unlogged \cup OwingUpdates
  BY DEF IInv, ChangesAreLogged, Done, OwingUpdates
<1>8. proc[h].update \notin log \cup unlogged
  BY <1>4, <1>7
<1>9. ChangesAreLogged'
  <2>1. log' \subseteq Done' /\ Done' \ log' = unlogged' \cup OwingUpdates'
    BY <1>2, <1>6, <1>7, <1>8
  <2> QED
    BY <2>1 DEF ChangesAreLogged, Done, OwingUpdates
<1>10. Accounted'
  <2>1. \A e \in executed' : e.update <= updates'
    BY <1>1, <1>4 DEF IInv, Accounted
  <2>2. \A g \in Handlers : Busy(g)' /\ ~Owing(g)' => proc'[g].update \notin Done'
    BY <1>2, <1>3 DEF IInv, Accounted, Numbered, Busy, Owing
  <2>3. \A g \in Handlers :
          Owing(g)' => /\ proc'[g].update \in Done'
                       /\ proc'[g].update \notin (log \cup unlogged)'
    BY <1>2, <1>3, <1>4, <1>8 DEF IInv, Accounted, Owing
  <2> QED
    BY <2>1, <2>2, <2>3 DEF Accounted
<1> QED
  BY <1>9, <1>10

\* A change of an account, in a transaction or not.
LEMMA AccountChangeKeeps ==
  ASSUME IInv, NEW h \in Handlers, Holding(h),
         Store(h), Execute(h), Commit(h), Goto(h, "audit"),
         UNCHANGED <<store, flag, log, issued, unlogged, raced, updates, faults>>
  PROVE  IInv'
<1>1. /\ proc' \in [Handlers -> Handler] /\ Others(h) /\ Keeps(h)
      /\ proc'[h].step = "audit"
  BY GotoMoves DEF IInv, TypeOK, Step
<1>2. \A g \in Handlers : g # h => proc'[g] = proc[g]
  BY <1>1 DEF Others
<1>3. Busy(h) /\ ~Owing(h)
  BY DEF Holding, Busy, Owing
<1>4. /\ proc[h].action \in Proposal /\ proc[h].action # Toggle
      /\ IsActiveAdmin(proc[h].account) /\ proc[h].action.target # proc[h].actor
      /\ [nonce |-> proc[h].nonce, actor |-> proc[h].actor,
          action |-> proc[h].action] \in issued
  BY DEF IInv, Entitled, Proposal, Toggle
<1>5. Accounted' /\ ChangesAreLogged'
  BY <1>1, <1>3, OwesAfterChange
<1>6. executed' = executed \cup {Entry(h)}
  BY DEF Execute, Entry
<1>7. /\ Entry(h).nonce = proc[h].nonce /\ Entry(h).actor = proc[h].actor
      /\ Entry(h).account = proc[h].account /\ Entry(h).action = proc[h].action
  BY DEF Entry
<1>8. Entry(h) \in Change
  BY <1>3, EntryType
<1> HIDE DEF Entry
<1>9. TypeOK'
  <2>1. users' \in [Users -> Account]
    <3>1. proc[h].action.target \in Users
          /\ proc[h].action.kind \in {"promote", "demote", "deactivate", "reactivate"}
      BY <1>4 DEF Proposal
    <3>2. Changed(users[proc[h].action.target], proc[h].action.kind) \in Account
      BY <3>1, ChangedType DEF IInv, TypeOK
    <3> QED
      BY <3>1, <3>2 DEF Store, IInv, TypeOK
  <2>2. stale' \subseteq Handlers
    BY CommitAges DEF IInv, TypeOK
  <2> QED
    BY <1>1, <1>6, <1>8, <2>1, <2>2 DEF IInv, TypeOK
<1>10. Numbered'
  BY <1>1, <1>2, <1>3 DEF IInv, Numbered, Busy, Keeps
<1>11. Entitled'
  BY <1>1, <1>2 DEF IInv, Entitled, Holding
<1>12. SnapshotsHold'
  BY <1>1, <1>2, CommitAges DEF IInv, TypeOK, SnapshotsHold
<1>13. NoncesDiffer'
  BY <1>1, <1>2 DEF IInv, NoncesDiffer
<1>14. SpentOnce'
  <2>1. \A c \in store : c.nonce # proc[h].nonce
    BY DEF IInv, SpentOnce
  <2>2. \A g \in Handlers : Holding(g)' => g # h /\ Holding(g) /\ proc'[g] = proc[g]
    BY <1>1, <1>2 DEF Holding
  <2>3. \A g \in Handlers : Holding(g)' => proc[g].nonce # proc[h].nonce
    BY <2>2 DEF IInv, SpentOnce
  <2>4. \A g \in Handlers, c \in store' : Holding(g)' => c.nonce # proc'[g].nonce
    BY <2>2 DEF IInv, SpentOnce
  <2>5. \A f, g \in Handlers :
          Holding(f)' /\ Holding(g)' /\ f # g => proc'[f].nonce # proc'[g].nonce
    BY <2>2 DEF IInv, SpentOnce
  <2>6. \A e \in executed' : e.action # Toggle =>
          /\ \A c \in store' : c.nonce # e.nonce
          /\ \A g \in Handlers : Holding(g)' => proc'[g].nonce # e.nonce
    BY <1>6, <1>7, <2>1, <2>2, <2>3 DEF IInv, SpentOnce
  <2> QED
    BY <2>4, <2>5, <2>6 DEF SpentOnce
<1>15. ConfirmedOnce'
  <2>1. \A e \in executed : e.action # Toggle => e.nonce # Entry(h).nonce
    BY <1>7 DEF IInv, SpentOnce
  <2>2. SUFFICES ASSUME NEW e \in executed', e.action # Toggle
                 PROVE  /\ [nonce |-> e.nonce, actor |-> e.actor, action |-> e.action] \in issued
                        /\ IsActiveAdmin(e.account)
                        /\ e.action.target # e.actor
                        /\ \A d \in executed' :
                             d.action # Toggle /\ d.nonce = e.nonce => d = e
    BY DEF ConfirmedOnce
  <2>3. CASE e = Entry(h)
    BY <1>4, <1>6, <1>7, <2>1, <2>3
  <2>4. CASE e \in executed
    BY <1>6, <2>1, <2>2, <2>4 DEF IInv, ConfirmedOnce
  <2> QED
    BY <1>6, <2>3, <2>4
<1>16. OneToggle'
  BY <1>1, <1>2 DEF IInv, OneToggle
<1>17. FlagInForceIsStored'
  BY <1>1, <1>2, <1>3 DEF IInv, FlagInForceIsStored, Owing
<1> QED
  BY <1>5, <1>9, <1>10, <1>11, <1>12, <1>13, <1>14, <1>15, <1>16, <1>17 DEF IInv

\* A change that the database refuses, or a handler that fails before its write.
LEMMA GivingUpKeeps ==
  ASSUME IInv, NEW h \in Handlers, Refuse(h) \/ WriteIsRefused(h) \/ Fails(h)
  PROVE  IInv'
<1>1. /\ Finish(h) /\ ~Owing(h)
      /\ UNCHANGED <<users, store, flag, log, executed, issued, unlogged, raced, updates>>
  BY DEF Refuse, WriteIsRefused, Fails, Fault, Arrived, Owing, History, Bounds
<1>2. stale' = stale \/ stale' = stale \ {h}
  BY DEF Refuse, WriteIsRefused, Fails
<1>3. stale' \subseteq Handlers /\ \A g \in stale \ {h} : g \in stale'
  BY <1>2 DEF IInv, TypeOK
<1>4. faults' \in Nat
  BY DEF Refuse, WriteIsRefused, Fails, Fault, Bounds, IInv, TypeOK
<1> QED
  BY <1>1, <1>3, <1>4, DropKeeps

\* The write of a transaction whose snapshot is current.
LEMMA WriteKeeps ==
  ASSUME IInv, NEW h \in Handlers, Write(h)
  PROVE  IInv'
BY AccountChangeKeeps DEF Write, Holding, Bounds

\* The statement that reactivates an account.
LEMMA ReactivateKeeps ==
  ASSUME IInv, NEW h \in Handlers, Reactivate(h)
  PROVE  IInv'
BY AccountChangeKeeps DEF Reactivate, Holding, Bounds

-----------------------------------------------------------------------------
(* The feature flag *)

\* An admin asks for the other value of the flag.
LEMMA FlipFlagKeeps ==
  ASSUME IInv, NEW h \in Handlers, FlipFlag(h)
  PROVE  IInv'
<1> DEFINE v == IF flag.inForce = "on" THEN "off" ELSE "on"
           p == [proc[h] EXCEPT !.step = "store", !.action = Toggle, !.want = v]
           q == [[[proc[h] EXCEPT !.step = "store"] EXCEPT !.action = Toggle]
                  EXCEPT !.want = v]
<1>1. /\ proc[h].step = "arrived"
      /\ proc' = [proc EXCEPT ![h].step = "store", ![h].action = Toggle, ![h].want = v]
      /\ UNCHANGED <<users, store, flag, stale, log, executed, issued, unlogged, raced,
                     updates, faults>>
  BY DEF FlipFlag, Arrived, History, Bounds
<1>2. v \in {"on", "off"}
  OBVIOUS
<1> HIDE DEF v
<1>3. proc[h] \in Handler
  BY DEF IInv, TypeOK
<1>4. p = q
  BY <1>3 DEF Handler
<1>5. proc' = [proc EXCEPT ![h] = p]
  BY <1>1, <1>3 DEF Handler
<1>6. p \in Handler
  <2>1. Toggle \in Action
    BY DEF Toggle, Action
  <2>2. q \in Handler
    BY <1>2, <1>3, <2>1, HandlerExcept DEF Step
  <2> QED
    BY <1>4, <2>2
<1>7. /\ p.step = "store" /\ p.action = Toggle
      /\ p.update = proc[h].update /\ p.actor = proc[h].actor
  BY <1>3 DEF Handler
<1> HIDE DEF p, q
<1>8. /\ proc' \in [Handlers -> Handler] /\ proc'[h] = p
      /\ \A g \in Handlers : g # h => proc'[g] = proc[g]
  BY <1>5, <1>6, ProcExcept DEF IInv, TypeOK, Others
<1>9. {g \in Handlers : Owing(g)}' = {g \in Handlers : Owing(g)}
  BY <1>1, <1>7, <1>8 DEF Owing
<1>10. OwingUpdates' = OwingUpdates
  BY <1>1, <1>7, <1>8, <1>9 DEF OwingUpdates, Owing
<1>11. TypeOK'
  BY <1>1, <1>8 DEF IInv, TypeOK
<1>12. Numbered'
  BY <1>1, <1>7, <1>8 DEF IInv, Numbered, Busy
<1>13. Entitled'
  BY <1>1, <1>7, <1>8 DEF IInv, Entitled, Holding
<1>14. SnapshotsHold'
  BY <1>1, <1>7, <1>8 DEF IInv, SnapshotsHold, LastAdmin, ActiveAdmins
<1>15. NoncesDiffer'
  BY <1>1, <1>7, <1>8 DEF IInv, NoncesDiffer
<1>16. SpentOnce'
  BY <1>1, <1>7, <1>8 DEF IInv, SpentOnce, Holding
<1>17. ConfirmedOnce'
  BY <1>1 DEF IInv, ConfirmedOnce
<1>18. Accounted'
  BY <1>1, <1>7, <1>8 DEF IInv, Accounted, Busy, Owing, Done
<1>19. ChangesAreLogged'
  BY <1>1, <1>10 DEF IInv, ChangesAreLogged, OwingUpdates
<1>20. OneToggle'
  BY <1>1, <1>7, <1>8 DEF IInv, OneToggle
<1>21. FlagInForceIsStored'
  BY <1>1, <1>7, <1>8 DEF IInv, FlagInForceIsStored
<1> QED
  BY <1>11, <1>12, <1>13, <1>14, <1>15, <1>16, <1>17, <1>18, <1>19, <1>20, <1>21 DEF IInv

\* The value is stored; the registry is to follow.
LEMMA StoreFlagKeeps ==
  ASSUME IInv, NEW h \in Handlers, StoreFlag(h)
  PROVE  IInv'
<1>1. /\ proc[h].step = "store"
      /\ flag' = [flag EXCEPT !.stored = proc[h].want]
      /\ raced' = IF \E g \in Handlers : proc[g].step = "apply" THEN "yes" ELSE raced
      /\ Execute(h) /\ Commit(h) /\ Goto(h, "apply")
      /\ UNCHANGED <<users, store, log, issued, unlogged, updates, faults>>
  BY DEF StoreFlag, Bounds
<1>2. /\ proc' \in [Handlers -> Handler] /\ Others(h) /\ Keeps(h)
      /\ proc'[h].step = "apply"
  BY <1>1, GotoMoves DEF IInv, TypeOK, Step
<1>3. \A g \in Handlers : g # h => proc'[g] = proc[g]
  BY <1>2 DEF Others
<1>4. Busy(h) /\ ~Owing(h) /\ proc[h].action = Toggle
  BY <1>1 DEF Busy, Owing, IInv, Entitled
<1>5. Accounted' /\ ChangesAreLogged'
  BY <1>1, <1>2, <1>4, OwesAfterChange
<1>6. executed' = executed \cup {Entry(h)} /\ Entry(h).action = Toggle
  BY <1>1, <1>4 DEF Execute, Entry
<1>7. Entry(h) \in Change
  BY <1>4, EntryType
<1> HIDE DEF Entry
<1>8. /\ flag' \in [stored : {"on", "off"}, inForce : {"on", "off"}]
      /\ flag'.stored = proc[h].want
  BY <1>1 DEF IInv, TypeOK, Handler
<1>9. TypeOK'
  BY <1>1, <1>2, <1>6, <1>7, <1>8, CommitAges DEF IInv, TypeOK
<1>10. Numbered'
  BY <1>1, <1>2, <1>3, <1>4 DEF IInv, Numbered, Busy, Keeps
<1>11. Entitled'
  BY <1>1, <1>2, <1>3, <1>4 DEF IInv, Entitled, Holding, Keeps
<1>12. SnapshotsHold'
  BY <1>1, <1>2, <1>3, CommitAges DEF IInv, TypeOK, SnapshotsHold
<1>13. NoncesDiffer'
  BY <1>1, <1>2, <1>3 DEF IInv, NoncesDiffer
<1>14. SpentOnce'
  BY <1>1, <1>2, <1>3, <1>6 DEF IInv, SpentOnce, Holding
<1>15. ConfirmedOnce'
  BY <1>1, <1>6 DEF IInv, ConfirmedOnce
<1>16. OneToggle'
  BY <1>1, <1>2, <1>3, <1>8 DEF OneToggle, Keeps
<1>17. FlagInForceIsStored'
  BY <1>2 DEF FlagInForceIsStored
<1> QED
  BY <1>5, <1>9, <1>10, <1>11, <1>12, <1>13, <1>14, <1>15, <1>16, <1>17 DEF IInv

\* The registry follows.
LEMMA ApplyFlagKeeps ==
  ASSUME IInv, NEW h \in Handlers, ApplyFlag(h)
  PROVE  IInv'
<1>1. /\ proc[h].step = "apply"
      /\ flag' = [flag EXCEPT !.inForce = proc[h].want]
      /\ Goto(h, "audit")
      /\ UNCHANGED <<users, store, stale, log, executed, issued, unlogged, raced,
                     updates, faults>>
  BY DEF ApplyFlag, History, Bounds
<1>2. /\ proc' \in [Handlers -> Handler] /\ Others(h) /\ Keeps(h)
      /\ proc'[h].step = "audit"
  BY <1>1, GotoMoves DEF IInv, TypeOK, Step
<1>3. \A g \in Handlers : g # h => proc'[g] = proc[g]
  BY <1>2 DEF Others
<1>4. {g \in Handlers : Owing(g)}' = {g \in Handlers : Owing(g)}
  BY <1>1, <1>2, <1>3 DEF Owing
<1>5. OwingUpdates' = OwingUpdates
  BY <1>2, <1>3, <1>4 DEF OwingUpdates, Owing, Keeps
<1>6. /\ flag' \in [stored : {"on", "off"}, inForce : {"on", "off"}]
      /\ flag'.inForce = proc[h].want /\ flag'.stored = flag.stored
  BY <1>1 DEF IInv, TypeOK, Handler
<1>7. TypeOK'
  BY <1>1, <1>2, <1>6 DEF IInv, TypeOK
<1>8. Numbered'
  BY <1>1, <1>2, <1>3 DEF IInv, Numbered, Busy, Keeps
<1>9. Entitled'
  BY <1>1, <1>2, <1>3 DEF IInv, Entitled, Holding
<1>10. SnapshotsHold'
  BY <1>1, <1>2, <1>3 DEF IInv, SnapshotsHold, LastAdmin, ActiveAdmins
<1>11. NoncesDiffer'
  BY <1>1, <1>2, <1>3 DEF IInv, NoncesDiffer
<1>12. SpentOnce'
  BY <1>1, <1>2, <1>3 DEF IInv, SpentOnce, Holding
<1>13. ConfirmedOnce'
  BY <1>1 DEF IInv, ConfirmedOnce
<1>14. Accounted'
  BY <1>1, <1>2, <1>3 DEF IInv, Accounted, Busy, Owing, Done, Keeps
<1>15. ChangesAreLogged'
  BY <1>1, <1>5 DEF IInv, ChangesAreLogged, OwingUpdates
<1>16. OneToggle'
  BY <1>1, <1>2, <1>3, <1>6 DEF IInv, OneToggle
<1>17. FlagInForceIsStored'
  BY <1>1, <1>6 DEF IInv, OneToggle, FlagInForceIsStored
<1> QED
  BY <1>7, <1>8, <1>9, <1>10, <1>11, <1>12, <1>13, <1>14, <1>15, <1>16, <1>17 DEF IInv

-----------------------------------------------------------------------------
(* The audit log, and restarts *)

\* The handler that owes an entry pays it, or a fault costs it.
LEMMA EntrySettled ==
  ASSUME IInv, NEW h \in Handlers, proc[h].step = "audit", Finish(h),
         \/ log' = log \cup {proc[h].update} /\ unlogged' = unlogged
         \/ log' = log /\ unlogged' = unlogged \cup {proc[h].update},
         stale' \subseteq Handlers,
         stale' = stale \/ Commit(h),
         UNCHANGED <<users, store, flag, executed, issued, raced, updates>>,
         faults' \in Nat
  PROVE  IInv'
<1>1. /\ proc' \in [Handlers -> Handler] /\ Others(h)
      /\ proc'[h].step = "idle"
  BY FinishMoves DEF IInv, TypeOK
<1>2. \A g \in Handlers : proc'[g].step # "idle" => g # h /\ proc'[g] = proc[g]
  BY <1>1 DEF Others
<1>3. {g \in Handlers : Owing(g)}' = {g \in Handlers : Owing(g)} \ {h}
  BY <1>1, <1>2 DEF Owing, Others
<1>4. Owing(h) /\ Busy(h)
  BY DEF Owing, Busy
<1>5. \A g \in Handlers : Busy(g) /\ g # h => proc[g].update # proc[h].update
  BY <1>4 DEF IInv, Numbered
<1>6. OwingUpdates' = OwingUpdates \ {proc[h].update}
  <2>1. \A g \in Handlers : Owing(g) => Busy(g)
    BY DEF Owing, Busy
  <2>2. \A g \in {f \in Handlers : Owing(f)} \ {h} : proc'[g] = proc[g]
    BY <1>1 DEF Others
  <2>3. OwingUpdates' = {proc'[g].update : g \in {f \in Handlers : Owing(f)} \ {h}}
    BY <1>3 DEF OwingUpdates
  <2>4. OwingUpdates' = {proc[g].update : g \in {f \in Handlers : Owing(f)} \ {h}}
    BY <2>2, <2>3
  <2> QED
    BY <1>4, <1>5, <2>1, <2>4 DEF OwingUpdates
<1>7. /\ proc[h].update \in Done /\ proc[h].update \notin log \cup unlogged
      /\ proc[h].update \in OwingUpdates /\ proc[h].update \in Nonce
  <2>1. proc[h].update \in Done /\ proc[h].update \notin log \cup unlogged
    BY <1>4 DEF IInv, Accounted
  <2>2. proc[h].update \in Nonce
    BY <2>1 DEF Done, IInv, TypeOK, Change
  <2> QED
    BY <1>4, <2>1, <2>2 DEF OwingUpdates
<1>8. ChangesAreLogged'
  <2>1. log \subseteq Done /\ Done \ log = unlogged \cup OwingUpdates
    BY DEF IInv, ChangesAreLogged, Done, OwingUpdates
  <2>2. Done' = Done
    BY DEF Done
  <2>3. log' \subseteq Done' /\ Done' \ log' = unlogged' \cup OwingUpdates'
    BY <1>6, <1>7, <2>1, <2>2
  <2> QED
    BY <2>3 DEF ChangesAreLogged, Done, OwingUpdates
<1>9. Accounted'
  <2>1. \A g \in Handlers : Busy(g)' => /\ Busy(g) /\ proc'[g] = proc[g]
                                        /\ proc[g].update # proc[h].update
    BY <1>2, <1>5 DEF Busy
  <2>2. \A e \in executed' : e.update <= updates'
    BY DEF IInv, Accounted
  <2>3. \A g \in Handlers : Busy(g)' /\ ~Owing(g)' => proc'[g].update \notin Done'
    BY <2>1 DEF IInv, Accounted, Owing, Done
  <2>4. \A g \in Handlers :
          Owing(g)' => /\ proc'[g].update \in Done'
                       /\ proc'[g].update \notin (log \cup unlogged)'
    <3>1. \A g \in Handlers : Owing(g)' => Busy(g)' /\ Owing(g)
      BY <1>2 DEF Owing, Busy
    <3> QED
      BY <2>1, <3>1 DEF IInv, Accounted, Done
  <2> QED
    BY <2>2, <2>3, <2>4 DEF Accounted
<1>10. TypeOK'
  BY <1>1, <1>7 DEF IInv, TypeOK
<1>11. Numbered'
  BY <1>2 DEF IInv, Numbered, Busy
<1>12. Entitled'
  BY <1>2 DEF IInv, Entitled, Holding
<1>13. SnapshotsHold'
  <2>1. \A g \in Handlers : proc'[g].step = "checked" /\ g \notin stale' => g \notin stale
    BY <1>2, CommitAges DEF IInv, TypeOK
  <2> QED
    BY <1>2, <2>1 DEF IInv, SnapshotsHold, LastAdmin, ActiveAdmins
<1>14. NoncesDiffer'
  BY <1>2 DEF IInv, NoncesDiffer
<1>15. SpentOnce'
  BY <1>2 DEF IInv, SpentOnce, Holding
<1>16. ConfirmedOnce'
  BY DEF IInv, ConfirmedOnce
<1>17. OneToggle'
  BY <1>2 DEF IInv, OneToggle
<1>18. FlagInForceIsStored'
  BY <1>1 DEF IInv, FlagInForceIsStored, Others
<1> QED
  BY <1>8, <1>9, <1>10, <1>11, <1>12, <1>13, <1>14, <1>15, <1>16, <1>17, <1>18 DEF IInv

\* emit_audit, when it succeeds and when it does not.
LEMMA EmitKeeps ==
  ASSUME IInv, NEW h \in Handlers, EmitAudit(h) \/ EmitFails(h)
  PROVE  IInv'
<1>1. CASE EmitAudit(h)
  <2>1. stale' \subseteq Handlers /\ faults' \in Nat
    BY <1>1, CommitAges DEF EmitAudit, Bounds, IInv, TypeOK
  <2> QED
    BY <1>1, <2>1, EntrySettled DEF EmitAudit, History, Bounds
<1>2. CASE EmitFails(h)
  <2>1. stale' \subseteq Handlers /\ faults' \in Nat
    BY <1>2 DEF EmitFails, Fault, IInv, TypeOK
  <2> QED
    BY <1>2, <2>1, EntrySettled DEF EmitFails, Fault
<1> QED
  BY <1>1, <1>2

\* A restart ends every handler; what they owed is lost.
LEMMA RestartKeeps ==
  ASSUME IInv, NEW failing \in SUBSET Configured, Restart(failing)
  PROVE  IInv'
<1>1. /\ proc' = [h \in Handlers |-> Idle]
      /\ store' = {} /\ stale' = {}
      /\ flag' = [flag EXCEPT !.inForce = flag.stored]
      /\ unlogged' = unlogged \cup OwingUpdates
      /\ UNCHANGED <<log, executed, issued, raced, updates>>
      /\ faults' = faults + 1
  BY DEF Restart, Fault, OwingUpdates
<1>2. \A h \in Handlers : proc'[h] = Idle /\ proc'[h].step = "idle"
  BY <1>1 DEF Idle
<1>3. OwingUpdates' = {}
  BY <1>2 DEF OwingUpdates, Owing
<1>4. OwingUpdates \subseteq Nonce
  <2>1. \A h \in Handlers : Owing(h) => proc[h].update \in Nonce
    BY DEF IInv, Accounted, TypeOK, Done, Change
  <2> QED
    BY <2>1 DEF OwingUpdates
<1>5. users' \in [Users -> Account]
  BY DEF Restart, IInv, TypeOK, Account
<1>6. /\ flag' \in [stored : {"on", "off"}, inForce : {"on", "off"}]
      /\ flag'.inForce = flag'.stored
  BY <1>1 DEF IInv, TypeOK
<1>7. TypeOK'
  BY <1>1, <1>4, <1>5, <1>6, IdleType DEF IInv, TypeOK
<1>8. Numbered' /\ Entitled' /\ SnapshotsHold'
  BY <1>2 DEF Numbered, Busy, Entitled, Holding, SnapshotsHold
<1>9. NoncesDiffer'
  BY <1>1, <1>2 DEF IInv, NoncesDiffer
<1>10. SpentOnce' /\ ConfirmedOnce'
  BY <1>1, <1>2 DEF IInv, SpentOnce, Holding, ConfirmedOnce
<1>11. Accounted'
  BY <1>1, <1>2 DEF IInv, Accounted, Busy, Owing
<1>12. ChangesAreLogged'
  BY <1>1, <1>3 DEF IInv, ChangesAreLogged, OwingUpdates
<1>13. OneToggle' /\ FlagInForceIsStored'
  BY <1>2, <1>6 DEF OneToggle, FlagInForceIsStored
<1> QED
  BY <1>7, <1>8, <1>9, <1>10, <1>11, <1>12, <1>13 DEF IInv

-----------------------------------------------------------------------------
(* Theorems *)

\* Nothing is under way at the start.
LEMMA InitInvariant == Init => IInv
<1> SUFFICES ASSUME Init PROVE IInv
  OBVIOUS
<1>1. \A h \in Handlers : proc[h] = Idle /\ proc[h].step = "idle"
  BY DEF Init, Idle
<1>2. TypeOK
  BY IdleType DEF Init, TypeOK
<1>3. Numbered /\ Entitled /\ SnapshotsHold
  BY <1>1 DEF Numbered, Busy, Entitled, Holding, SnapshotsHold
<1>4. NoncesDiffer /\ SpentOnce /\ ConfirmedOnce
  BY <1>1 DEF Init, NoncesDiffer, SpentOnce, Holding, ConfirmedOnce
<1>5. Accounted /\ ChangesAreLogged
  BY <1>1 DEF Init, Accounted, Busy, Owing, ChangesAreLogged
<1>6. OneToggle /\ FlagInForceIsStored
  BY <1>1 DEF Init, OneToggle, FlagInForceIsStored
<1> QED
  BY <1>2, <1>3, <1>4, <1>5, <1>6 DEF IInv

\* Every step of the panel keeps the invariant.
LEMMA NextInvariant == IInv /\ [Next]_vars => IInv'
<1> SUFFICES ASSUME IInv, [Next]_vars PROVE IInv'
  OBVIOUS
<1>1. ASSUME NEW h \in Handlers, Handle(h) PROVE IInv'
  BY <1>1, ArriveKeeps, PrepareKeeps, ConfirmKeeps, GivingUpKeeps, CheckKeeps, WriteKeeps,
     ReactivateKeeps, FlipFlagKeeps, StoreFlagKeeps, ApplyFlagKeeps, EmitKeeps DEF Handle
<1>2. ASSUME NEW c \in store, Expire(c) PROVE IInv'
  BY <1>2, ExpireKeeps
<1>3. ASSUME NEW failing \in SUBSET Configured, Restart(failing) PROVE IInv'
  BY <1>3, RestartKeeps
<1>4. CASE UNCHANGED vars
  <2>1. TypeOK' /\ Numbered' /\ Entitled' /\ SnapshotsHold'
    BY <1>4 DEF vars, IInv, TypeOK, Numbered, Busy, Entitled, Holding, SnapshotsHold,
                LastAdmin, ActiveAdmins
  <2>2. NoncesDiffer' /\ SpentOnce' /\ ConfirmedOnce'
    BY <1>4 DEF vars, IInv, NoncesDiffer, SpentOnce, Holding, ConfirmedOnce
  <2>3. Accounted' /\ ChangesAreLogged'
    BY <1>4 DEF vars, IInv, Accounted, Busy, Owing, Done, ChangesAreLogged
  <2>4. OneToggle' /\ FlagInForceIsStored'
    BY <1>4 DEF vars, IInv, OneToggle, FlagInForceIsStored
  <2> QED
    BY <2>1, <2>2, <2>3, <2>4 DEF IInv
<1> QED
  BY <1>1, <1>2, <1>3, <1>4 DEF Next

\* The strengthened invariant of the panel holds in every reachable state.
THEOREM Invariance == Spec => []IInv
BY InitInvariant, NextInvariant, PTL DEF Spec

\* Accounts, confirmations, the log and what handlers hold have their types.
THEOREM TypeCorrect == Spec => []TypeOK
<1>1. IInv => TypeOK
  BY DEF IInv
<1> QED
  BY <1>1, Invariance, PTL

\* A confirmation changes an account at most once, only by the active admin it was
\* issued to and never the admin's own account.
THEOREM ConfirmationsWorkOnce == Spec => []ConfirmedOnce
<1>1. IInv => ConfirmedOnce
  BY DEF IInv
<1> QED
  BY <1>1, Invariance, PTL

\* What was stored and what the audit log tells differ only by the entries still owed
\* and those a fault cost.
THEOREM ChangesLogged == Spec => []ChangesAreLogged
<1>1. IInv => ChangesAreLogged
  BY DEF IInv
<1> QED
  BY <1>1, Invariance, PTL

\* The feature flag in force is the stored one while toggles do not overlap.
THEOREM FlagsAgree == Spec => []FlagInForceIsStored
<1>1. IInv => FlagInForceIsStored
  BY DEF IInv
<1> QED
  BY <1>1, Invariance, PTL

\* The change a handler stores never takes the last active admin away.
LEMMA StoreLeavesAdmin ==
  ASSUME IInv, NEW h \in Handlers, Store(h), proc[h].action \in Proposal,
         ~LastAdmin(proc[h].action), ActiveAdmins # {}
  PROVE  ActiveAdmins' # {}
<1> DEFINE t == proc[h].action.target
           k == proc[h].action.kind
<1>1. /\ t \in Users /\ k \in {"promote", "demote", "deactivate", "reactivate"}
      /\ users \in [Users -> Account]
  BY DEF Proposal, IInv, TypeOK
<1>2. /\ \A u \in Users : u # t => users'[u] = users[u]
      /\ users'[t] = Changed(users[t], k)
  BY <1>1 DEF Store
<1>3. CASE \E u \in ActiveAdmins : u # t
  BY <1>2, <1>3 DEF ActiveAdmins
<1>4. CASE ActiveAdmins = {t}
  <2>1. k \in {"promote", "reactivate"}
    BY <1>1, <1>4 DEF LastAdmin
  <2>2. IsActiveAdmin(users[t]) /\ users[t] \in Account
    BY <1>1, <1>4 DEF ActiveAdmins
  <2>3. IsActiveAdmin(Changed(users[t], k))
    BY <2>1, <2>2 DEF IsActiveAdmin, Changed, Account
  <2> QED
    BY <1>1, <1>2, <2>3 DEF ActiveAdmins
<1> QED
  BY <1>3, <1>4

\* A restart makes admins and takes none away.
LEMMA RestartLeavesAdmin ==
  ASSUME NEW failing \in SUBSET Configured, Restart(failing), ActiveAdmins # {}
  PROVE  ActiveAdmins' # {}
<1>1. PICK u \in Users : IsActiveAdmin(users[u])
  BY DEF ActiveAdmins
<1>2. users'[u] = users[u]
  BY <1>1 DEF Restart, IsActiveAdmin
<1> QED
  BY <1>1, <1>2 DEF ActiveAdmins

\* No step of the panel takes the last active admin away, although each change counts
\* the admins in one statement and writes in another.
THEOREM AdminStays == Spec => AdminRemains
<1>1. IInv /\ [Next]_vars => (ActiveAdmins # {} => ActiveAdmins' # {})
  <2> SUFFICES ASSUME IInv, [Next]_vars, ActiveAdmins # {} PROVE ActiveAdmins' # {}
    OBVIOUS
  <2>1. CASE users' = users
    BY <2>1 DEF ActiveAdmins
  <2>2. ASSUME NEW h \in Handlers, Write(h) PROVE ActiveAdmins' # {}
    <3>1. Store(h) /\ proc[h].action \in Proposal /\ ~LastAdmin(proc[h].action)
      BY <2>2 DEF Write, IInv, Entitled, Holding, SnapshotsHold
    <3> QED
      BY <3>1, StoreLeavesAdmin
  <2>3. ASSUME NEW h \in Handlers, Reactivate(h) PROVE ActiveAdmins' # {}
    <3>1. Store(h) /\ proc[h].action \in Proposal /\ ~LastAdmin(proc[h].action)
      BY <2>3 DEF Reactivate, IInv, Entitled, Holding, LastAdmin
    <3> QED
      BY <3>1, StoreLeavesAdmin
  <2>4. ASSUME NEW failing \in SUBSET Configured, Restart(failing)
        PROVE  ActiveAdmins' # {}
    BY <2>4, RestartLeavesAdmin
  <2>5. ASSUME NEW h \in Handlers, Handle(h), ~Write(h), ~Reactivate(h)
        PROVE  users' = users
    BY <2>5 DEF Handle, Arrive, Prepare, Confirm, Refuse, Check, WriteIsRefused, FlipFlag,
                StoreFlag, ApplyFlag, EmitAudit, EmitFails, Fails
  <2>6. ASSUME NEW c \in store, Expire(c) PROVE users' = users
    BY <2>6 DEF Expire
  <2>7. UNCHANGED vars => users' = users
    BY DEF vars
  <2> QED
    BY <2>1, <2>2, <2>3, <2>4, <2>5, <2>6, <2>7 DEF Next
<1> QED
  BY <1>1, Invariance, PTL DEF Spec, AdminRemains

=============================================================================
