---------------------------- MODULE PortalProofs ----------------------------
(***************************************************************************)
(* Proofs about Portal, for any number of wallets, challenges, tasks,      *)
(* account switches, expiries and repeated requests: a challenge opens one *)
(* session, a ballot counts for the wallet that signed it and stands, and  *)
(* no message is acknowledged that the Snap has not taken in.              *)
(***************************************************************************)
EXTENDS Portal, FiniteSetTheorems, TLAPS

-----------------------------------------------------------------------------
(* What the awaits of a call remember.                                     *)

Fields == {"kind", "pc", "then", "account", "item", "challenge", "signer", "token",
           "voter", "batch", "view"}

(* A call that is about to record a ballot or to acknowledge a batch has   *)
(* checked what it relies on, and no call comes to these two places from   *)
(* authenticating.                                                         *)
JobOK(job, rows, taken) ==
    /\ DOMAIN job = Fields
    /\ job.pc \notin {"idle", "edit"} => job.account \in Wallets
    /\ job.account \in Wallets \cup {None}
    /\ job.challenge \in Challenges \cup {None}
    /\ job.pc = "sign" => job.challenge \in Challenges
    /\ job.then # "sign"
    /\ job.token \in Challenges \cup {None}
    /\ job.then \notin {"record", "deliver"}
    /\ job.pc = "record" =>
           /\ job.token \in Challenges
           /\ rows[job.token] \in Wallets
           /\ job.voter = rows[job.token] /\ job.signer = rows[job.token]
    /\ job.pc = "deliver" => Range(job.batch) \subseteq taken

(* A row that is still in use, or was never inserted, has opened nothing.  *)
ChallengesOK ==
    /\ AuthTypeOK
    /\ \A id \in Challenges : issued[id] = None \/ id \in unused => opened[id] = 0
    /\ \A id \in unused : issued[id] # None
    /\ ChallengeOpensOneSession

CallsOK ==
    /\ DOMAIN task = Tasks
    /\ \A t \in Tasks : JobOK(task[t], issued, ingested)

PortalInv ==
    /\ ChallengesOK /\ CallsOK
    /\ account \in Wallets \cup {None}
    /\ stored \in Challenges \cup {None}
    /\ DOMAIN votes = Wallets
    /\ BallotBySigner
    /\ DeliveredWasIngested

-----------------------------------------------------------------------------
(* Facts about a call.                                                     *)

(* What was true of a call stays true while rows and messages are added.   *)
LEMMA JobKept ==
  ASSUME NEW job, NEW rows, NEW rows2, NEW taken, NEW taken2,
         JobOK(job, rows, taken), taken \subseteq taken2,
         \A id \in Challenges : rows[id] \in Wallets => rows2[id] = rows[id]
  PROVE  JobOK(job, rows2, taken2)
  BY DEF JobOK

LEMMA IdleOK ==
  ASSUME NEW kind, NEW rows, NEW taken
  PROVE  JobOK(Idle(kind), rows, taken)
  BY DEF JobOK, Idle, Fields

(* One call goes on, the others wait.                                      *)
LEMMA OneCall ==
  ASSUME CallsOK, NEW t \in Tasks, NEW job, Become(t, job),
         JobOK(job, issued', ingested'), ingested \subseteq ingested',
         \A id \in Challenges : issued[id] \in Wallets => issued'[id] = issued[id]
  PROVE  CallsOK'
<1>1. DOMAIN task' = Tasks
  BY DEF CallsOK, Become
<1>2. ASSUME NEW u \in Tasks PROVE JobOK(task'[u], issued', ingested')
  <2>1. CASE u = t
    BY <2>1 DEF CallsOK, Become
  <2>2. CASE u # t
    BY <2>2, JobKept DEF CallsOK, Become
  <2> QED
    BY <2>1, <2>2
<1> QED
  BY <1>1, <1>2 DEF CallsOK

(* A call that ends.                                                       *)
LEMMA CallEnds ==
  ASSUME CallsOK, NEW t \in Tasks, End(t), issued' = issued, ingested \subseteq ingested'
  PROVE  CallsOK'
  BY OneCall, IdleOK DEF End

(* A request goes out.                                                     *)
LEMMA SentOK ==
  ASSUME stored \in Challenges \cup {None}, NEW job, NEW rows, NEW taken, NEW pc,
         JobOK(job, rows, taken), job.account \in Wallets, pc \notin {"record", "sign"},
         pc = "deliver" => Range(job.batch) \subseteq taken
  PROVE  JobOK(Sent(job, pc), rows, taken)
  BY DEF JobOK, Sent, Session, Fields

LEMMA EnsuredOK ==
  ASSUME stored \in Challenges \cup {None}, NEW job, NEW rows, NEW taken, NEW pc,
         JobOK(job, rows, taken), job.account \in Wallets,
         pc \notin {"record", "deliver", "sign"}
  PROVE  JobOK(Ensured(job, pc), rows, taken)
<1>1. CASE SessionIsFor(job.account)
  BY <1>1, SentOK DEF Ensured
<1>2. CASE ~SessionIsFor(job.account)
  BY <1>2 DEF Ensured, JobOK, Fields
<1> QED
  BY <1>1, <1>2

-----------------------------------------------------------------------------
(* The rows of auth.js.                                                    *)

(* Every row keeps the wallet it was issued to.                            *)
RowsKept == \A id \in Challenges : issued[id] \in Wallets => issued'[id] = issued[id]

LEMMA InsertOK ==
  ASSUME ChallengesOK, NEW w \in Wallets, NEW id \in Challenges, InsertChallenge(w, id)
  PROVE  ChallengesOK' /\ RowsKept
  BY PortalAssumption, AuthAssumption
     DEF ChallengesOK, AuthTypeOK, InsertChallenge, NextRow, ChallengeOpensOneSession, RowsKept

LEMMA DecideOK ==
  ASSUME ChallengesOK, NEW call, Decide(call)
  PROVE  ChallengesOK' /\ RowsKept
<1>1. CASE Accepts(call)
  <2>1. call.signed \in unused /\ call.signed \in Challenges
    BY <1>1 DEF Accepts, Locked, ChallengesOK, AuthTypeOK
  <2>2. opened[call.signed] = 0
    BY <2>1 DEF ChallengesOK, AuthTypeOK
  <2>3. /\ opened' = [opened EXCEPT ![call.signed] = @ + 1]
        /\ unused' = unused \ {call.signed}
        /\ issued' = issued
    BY <1>1 DEF Decide
  <2>4. opened'[call.signed] = 1
    BY <2>1, <2>2, <2>3 DEF ChallengesOK, AuthTypeOK
  <2>5. \A id \in Challenges : id # call.signed => opened'[id] = opened[id]
    BY <2>3 DEF ChallengesOK, AuthTypeOK
  <2>6. opened' \in [Challenges -> Nat]
    BY <2>1, <2>2, <2>3, <2>4 DEF ChallengesOK, AuthTypeOK
  <2>7. issued[call.signed] # None
    BY <2>1 DEF ChallengesOK
  <2>8. AuthTypeOK'
    BY <2>3, <2>6 DEF ChallengesOK, AuthTypeOK, Decide
  <2> QED
    BY <2>1, <2>3, <2>4, <2>5, <2>7, <2>8
       DEF ChallengesOK, ChallengeOpensOneSession, RowsKept
<1>2. CASE ~Accepts(call)
  BY <1>2 DEF ChallengesOK, AuthTypeOK, Decide, ChallengeOpensOneSession, RowsKept
<1> QED
  BY <1>1, <1>2

LEMMA FewerUnused ==
  ASSUME ChallengesOK, AuthTypeOK', unused' \subseteq unused, UNCHANGED <<issued, opened>>
  PROVE  ChallengesOK' /\ RowsKept
  BY DEF ChallengesOK, AuthTypeOK, ChallengeOpensOneSession, RowsKept

-----------------------------------------------------------------------------
(* Every action keeps the invariant, and no recorded ballot changes.       *)

BallotsStand == \A w \in Wallets : votes[w] # NoVote => votes'[w] = votes[w]

(* What a step that only moves calls along leaves alone.                   *)
LEMMA CallsMove ==
  ASSUME PortalInv, CallsOK',
         account' \in Wallets \cup {None}, stored' \in Challenges \cup {None},
         ChallengesOK', ingested \subseteq ingested', UNCHANGED <<votes, delivered>>
  PROVE  PortalInv' /\ BallotsStand
  BY DEF PortalInv, BallotBySigner, DeliveredWasIngested, BallotsStand

LEMMA AuthUnchanged ==
  ASSUME ChallengesOK, UNCHANGED authVars
  PROVE  ChallengesOK' /\ RowsKept
  BY DEF ChallengesOK, AuthTypeOK, authVars, ChallengeOpensOneSession, RowsKept

LEMMA CallsKept ==
  ASSUME CallsOK, RowsKept, UNCHANGED task, ingested \subseteq ingested'
  PROVE  CallsOK'
  BY JobKept DEF CallsOK, RowsKept

LEMMA SwitchAccountOK ==
  ASSUME PortalInv, SwitchAccount
  PROVE  PortalInv' /\ BallotsStand
<1>1. UNCHANGED <<task, votes, delivered, ingested>> /\ UNCHANGED authVars
  BY DEF SwitchAccount, apiVars, snapVars
<1>2. account' \in Wallets \cup {None} /\ stored' \in Challenges \cup {None}
  BY DEF SwitchAccount, KeptFor, PortalInv
<1>3. ChallengesOK' /\ RowsKept
  BY <1>1, AuthUnchanged DEF PortalInv
<1>4. CallsOK'
  BY <1>1, <1>3, CallsKept DEF PortalInv
<1> QED
  BY <1>1, <1>2, <1>3, <1>4, CallsMove

LEMMA TimeOK ==
  ASSUME PortalInv, Time
  PROVE  PortalInv' /\ BallotsStand
<1>1. UNCHANGED <<task, votes, delivered, ingested, account, stored>>
  BY DEF Time, Incident, apiVars, snapVars
<1>2. unused' \subseteq unused /\ UNCHANGED <<issued, opened>>
  BY DEF Time, ChallengeExpires, SessionExpires, authVars
<1>3. AuthTypeOK'
  BY DEF PortalInv, ChallengesOK, AuthTypeOK, Time, ChallengeExpires, SessionExpires, authVars
<1>4. ChallengesOK' /\ RowsKept
  BY <1>2, <1>3, FewerUnused DEF PortalInv
<1>5. CallsOK'
  BY <1>1, <1>4, CallsKept DEF PortalInv
<1> QED
  BY <1>1, <1>4, <1>5, CallsMove DEF PortalInv

LEMMA StartOK ==
  ASSUME PortalInv, NEW t \in Tasks, Start(t)
  PROVE  PortalInv' /\ BallotsStand
<1>1. UNCHANGED <<votes, delivered, ingested, account, stored>> /\ UNCHANGED authVars
  BY DEF Start, apiVars, snapVars
<1>2. ChallengesOK' /\ RowsKept
  BY <1>1, AuthUnchanged DEF PortalInv
<1>3. PICK item \in Items(task[t].kind) :
           Become(t, Ensured([task[t] EXCEPT !.account = account, !.item = item],
                             First[task[t].kind]))
  BY DEF Start
<1>4. First[task[t].kind] \notin {"record", "deliver", "sign"}
  BY DEF Start, First
<1>5. JobOK(task[t], issued, ingested) /\ At(t, "idle")
  BY DEF PortalInv, CallsOK, Start
<1> DEFINE job == [task[t] EXCEPT !.account = account, !.item = item]
<1>6. account \in Wallets
  BY DEF PortalInv, Start
<1>7. JobOK(job, issued, ingested) /\ job.account \in Wallets
  BY <1>5, <1>6 DEF JobOK, Fields, At
<1>8. JobOK(Ensured(job, First[task[t].kind]), issued', ingested')
  BY <1>1, <1>4, <1>7, EnsuredOK DEF PortalInv, authVars
<1>9. CallsOK'
  BY <1>1, <1>2, <1>3, <1>8, OneCall DEF PortalInv, RowsKept
<1> QED
  BY <1>1, <1>2, <1>9, CallsMove DEF PortalInv

LEMMA ConnectOK ==
  ASSUME PortalInv, NEW t \in Tasks, Connect(t)
  PROVE  PortalInv' /\ BallotsStand
<1>1. UNCHANGED <<votes, delivered, ingested, stored>> /\ UNCHANGED authVars
  BY DEF Connect, apiVars, snapVars
<1>2. ChallengesOK' /\ RowsKept
  BY <1>1, AuthUnchanged DEF PortalInv
<1>3. PICK w \in Wallets :
         /\ account' = w
         /\ Become(t, IF SessionIsFor(w) THEN task[t]
                      ELSE [task[t] EXCEPT !.account = w, !.pc = "challenge"])
  BY DEF Connect
<1>4. JobOK(task[t], issued, ingested)
  BY DEF PortalInv, CallsOK
<1>5. JobOK([task[t] EXCEPT !.account = w, !.pc = "challenge"], issued, ingested)
  BY <1>4 DEF JobOK, Fields
<1>6. CallsOK'
  BY <1>1, <1>2, <1>3, <1>4, <1>5, OneCall DEF PortalInv, RowsKept, authVars
<1> QED
  BY <1>1, <1>2, <1>3, <1>6, CallsMove DEF PortalInv

LEMMA AbortOK ==
  ASSUME PortalInv, NEW t \in Tasks, Abort(t)
  PROVE  PortalInv' /\ BallotsStand
<1>1. UNCHANGED <<votes, delivered, ingested, account, stored>> /\ UNCHANGED authVars
  BY DEF Abort, apiVars, snapVars
<1>2. ChallengesOK'
  BY <1>1, AuthUnchanged DEF PortalInv
<1>3. CallsOK'
  BY <1>1, CallEnds DEF PortalInv, Abort, authVars
<1> QED
  BY <1>1, <1>2, <1>3, CallsMove DEF PortalInv

-----------------------------------------------------------------------------
(* authenticate.                                                           *)

LEMMA RetireOK ==
  ASSUME PortalInv, NEW t \in Tasks, Retire(t)
  PROVE  PortalInv' /\ BallotsStand
<1>1. UNCHANGED <<votes, delivered, ingested, account, stored>>
  BY DEF Retire, LoginOnly, apiVars, snapVars
<1>2. ChallengesOK' /\ RowsKept
  <2>1. AuthTypeOK'
    BY DEF PortalInv, ChallengesOK, AuthTypeOK, Retire, RetireChallenges
  <2> QED
    BY <2>1, FewerUnused DEF PortalInv, Retire, RetireChallenges
<1>3. JobOK([task[t] EXCEPT !.pc = "row"], issued, ingested)
  BY DEF PortalInv, CallsOK, JobOK, Fields, Retire, At
<1>4. CallsOK'
  BY <1>1, <1>2, <1>3, OneCall DEF PortalInv, RowsKept, Retire, RetireChallenges
<1> QED
  BY <1>1, <1>2, <1>4, CallsMove DEF PortalInv

LEMMA ChallengeOK ==
  ASSUME PortalInv, NEW t \in Tasks, Challenge(t)
  PROVE  PortalInv' /\ BallotsStand
<1>1. UNCHANGED <<votes, delivered, ingested, account, stored>>
  BY DEF Challenge, LoginOnly, apiVars, snapVars
<1>2. PICK id \in Challenges :
         /\ InsertChallenge(task[t].account, id)
         /\ Become(t, [task[t] EXCEPT !.pc = "sign", !.challenge = id])
  BY DEF Challenge
<1>3. JobOK(task[t], issued, ingested) /\ task[t].account \in Wallets
  BY DEF PortalInv, CallsOK, JobOK, Challenge, At
<1>4. ChallengesOK' /\ RowsKept
  BY <1>2, <1>3, InsertOK DEF PortalInv
<1>5. JobOK([task[t] EXCEPT !.pc = "sign", !.challenge = id], issued, ingested)
  BY <1>3 DEF JobOK, Fields
<1>6. JobOK([task[t] EXCEPT !.pc = "sign", !.challenge = id], issued', ingested')
  BY <1>1, <1>4, <1>5, JobKept DEF RowsKept
<1>7. CallsOK'
  BY <1>1, <1>2, <1>4, <1>6, OneCall DEF PortalInv, RowsKept
<1> QED
  BY <1>1, <1>4, <1>7, CallsMove DEF PortalInv

LEMMA SignOK ==
  ASSUME PortalInv, NEW t \in Tasks, Sign(t)
  PROVE  PortalInv' /\ BallotsStand
<1>1. UNCHANGED <<votes, delivered, ingested, account, stored, issued, unused, opened>>
  BY DEF Sign, SendVerify, LoginOnly, apiVars, snapVars
<1>2. ChallengesOK' /\ RowsKept
  <2>1. JobOK(task[t], issued, ingested) /\ At(t, "sign") /\ account \in Wallets
    BY DEF PortalInv, CallsOK, Sign
  <2>2. [of |-> task[t].account, copy |-> 0, signer |-> account,
         signed |-> task[t].challenge, seen |-> None] \in Call
    BY <2>1, AuthAssumption DEF JobOK, At, Call
  <2>3. AuthTypeOK'
    BY <1>1, <2>2 DEF PortalInv, ChallengesOK, AuthTypeOK, Sign, SendVerify
  <2> QED
    BY <1>1, <2>3, FewerUnused DEF PortalInv
<1>3. JobOK([task[t] EXCEPT !.pc = "answer"], issued, ingested)
  BY DEF PortalInv, CallsOK, JobOK, Fields, Sign, At
<1>4. CallsOK'
  BY <1>1, <1>2, <1>3, OneCall DEF PortalInv, RowsKept, Sign
<1> QED
  BY <1>1, <1>2, <1>4, CallsMove DEF PortalInv

LEMMA AnswerOK ==
  ASSUME PortalInv, NEW call \in verifying, Answer(call)
  PROVE  PortalInv' /\ BallotsStand
<1>1. UNCHANGED <<votes, delivered, ingested, account>>
  BY DEF Answer, apiVars, snapVars
<1>2. ChallengesOK' /\ RowsKept
  BY DecideOK DEF PortalInv, Answer
<1>3. Accepts(call) => call.signed \in Challenges
  BY DEF Accepts, Locked, PortalInv, ChallengesOK, AuthTypeOK
<1>4. stored' \in Challenges \cup {None}
  BY <1>3 DEF Answer, PortalInv
<1>5. ASSUME NEW u \in Tasks PROVE JobOK(task'[u], issued, ingested)
  <2>1. JobOK(task[u], issued, ingested)
    BY DEF PortalInv, CallsOK
  <2>2. CASE ~Awaits(u, call)
    <3>1. task'[u] = task[u]
      BY <2>2 DEF Answer
    <3> QED
      BY <2>1, <3>1
  <2>3. CASE Awaits(u, call) /\ (~Accepts(call) \/ task[u].then = "idle")
    <3>1. task'[u] = Idle(task[u].kind)
      BY <2>3 DEF Answer
    <3> QED
      BY <3>1, IdleOK
  <2>4. CASE Awaits(u, call) /\ Accepts(call) /\ task[u].then # "idle"
    <3> DEFINE job == [task[u] EXCEPT !.pc = task[u].then, !.token = call.signed,
                                      !.challenge = None]
    <3>1. task'[u] = job
      BY <2>4 DEF Answer
    <3>2. JobOK(job, issued, ingested)
      BY <2>1, <2>4, <1>3 DEF JobOK, Fields, Awaits, At
    <3> QED
      BY <3>1, <3>2
  <2> QED
    BY <2>2, <2>3, <2>4
<1>6. DOMAIN task' = Tasks
  BY DEF Answer
<1>7. issued' = issued
  BY DEF Answer, Decide
<1>8. CallsOK'
  BY <1>1, <1>5, <1>6, <1>7 DEF CallsOK
<1> QED
  BY <1>1, <1>2, <1>4, <1>8, CallsMove DEF PortalInv

LEMMA AuthenticationOK ==
  ASSUME PortalInv, Authentication
  PROVE  PortalInv' /\ BallotsStand
<1>1. CASE \E t \in Tasks : Retire(t) \/ Challenge(t) \/ Sign(t)
  BY <1>1, RetireOK, ChallengeOK, SignOK
<1>2. CASE \E call \in verifying : Answer(call)
  BY <1>2, AnswerOK
<1>3. CASE \E call \in verifying :
             \/ SelectChallenges(call) /\ UNCHANGED <<pageVars, apiVars, snapVars>>
             \/ RepeatVerify(call) /\ Incident /\ UNCHANGED <<apiVars, snapVars>>
  <2>1. UNCHANGED <<task, votes, delivered, ingested, account, stored,
                    issued, unused, opened>>
    BY <1>3 DEF SelectChallenges, RepeatVerify, Incident, pageVars, apiVars, snapVars
  <2>2. ChallengesOK' /\ RowsKept
    <3>1. \A c \in verifying' : c \in Call
      <4>1. CASE \E call \in verifying : SelectChallenges(call)
        <5>1. PICK call \in verifying : SelectChallenges(call)
          BY <4>1
        <5>2. call \in Call /\ {id \in unused \ outdated : issued[id] = call.of} \subseteq Challenges
          BY DEF PortalInv, ChallengesOK, AuthTypeOK
        <5>3. [call EXCEPT !.seen = {id \in unused \ outdated : issued[id] = call.of}] \in Call
          BY <5>2 DEF Call
        <5> QED
          BY <5>1, <5>3 DEF PortalInv, ChallengesOK, AuthTypeOK, SelectChallenges
      <4>2. CASE \E call \in verifying : RepeatVerify(call)
        <5>1. PICK call \in verifying : RepeatVerify(call)
          BY <4>2
        <5>2. call \in Call /\ call.copy < MaxRepeats
          BY <5>1 DEF PortalInv, ChallengesOK, AuthTypeOK, RepeatVerify
        <5>3. call.copy + 1 \in 0..MaxRepeats
          BY <5>2, AuthAssumption DEF Call
        <5>4. [call EXCEPT !.copy = call.copy + 1, !.seen = None] \in Call
          BY <5>2, <5>3 DEF Call
        <5> QED
          BY <5>1, <5>4 DEF PortalInv, ChallengesOK, AuthTypeOK, RepeatVerify
      <4> QED
        BY <1>3, <4>1, <4>2
    <3>2. AuthTypeOK'
      BY <1>3, <3>1 DEF PortalInv, ChallengesOK, AuthTypeOK, SelectChallenges, RepeatVerify
    <3> QED
      BY <2>1, <3>2, FewerUnused DEF PortalInv
  <2>3. CallsOK'
    BY <2>1, <2>2, CallsKept DEF PortalInv
  <2> QED
    BY <2>1, <2>2, <2>3, CallsMove DEF PortalInv
<1> QED
  BY <1>1, <1>2, <1>3 DEF Authentication

-----------------------------------------------------------------------------
(* A step of one call that neither authenticates nor writes a ballot or a  *)
(* delivery.                                                               *)
LEMMA CallGoesOn ==
  ASSUME PortalInv, NEW t \in Tasks, NEW job, Become(t, job),
         JobOK(job, issued, ingested'), ingested \subseteq ingested',
         UNCHANGED <<account, stored, votes, delivered>>, UNCHANGED authVars
  PROVE  PortalInv' /\ BallotsStand
<1>1. ChallengesOK' /\ RowsKept
  BY AuthUnchanged DEF PortalInv
<1>2. CallsOK'
  BY <1>1, OneCall DEF PortalInv, RowsKept, authVars
<1> QED
  BY <1>1, <1>2, CallsMove DEF PortalInv

LEMMA SyncOK ==
  ASSUME PortalInv, NEW t \in Tasks, Sync(t)
  PROVE  PortalInv' /\ BallotsStand
<1>1. JobOK(task[t], issued, ingested)
  BY DEF PortalInv, CallsOK
<1>2. CASE LookForSnap(t)
  <2>1. task[t].account \in Wallets
    BY <1>1, <1>2 DEF LookForSnap, At, JobOK
  <2>2. JobOK(Sent(task[t], "fetch"), issued, ingested)
    BY <1>1, <2>1, SentOK DEF PortalInv
  <2> QED
    BY <1>2, <2>2, CallGoesOn DEF LookForSnap, TaskOnly, apiVars, snapVars
<1>3. CASE FetchInbox(t)
  <2> DEFINE job == [task[t] EXCEPT !.pc = "context", !.token = None,
                                    !.batch = Inbox(WalletOf(task[t].token))]
  <2>1. JobOK(job, issued, ingested)
    BY <1>1, <1>3 DEF JobOK, Fields, FetchInbox, At
  <2>2. Become(t, job)
    BY <1>3 DEF FetchInbox
  <2> QED
    BY <1>3, <2>1, <2>2, CallGoesOn DEF FetchInbox, TaskOnly, apiVars, snapVars
<1>4. CASE ReadForContext(t)
  <2>1. JobOK([task[t] EXCEPT !.pc = "setContext", !.view = snap], issued, ingested)
    BY <1>1, <1>4 DEF JobOK, Fields, ReadForContext, At
  <2> QED
    BY <1>4, <2>1, CallGoesOn DEF ReadForContext, TaskOnly, apiVars, snapVars
<1>5. CASE SetContext(t)
  <2>1. JobOK([task[t] EXCEPT !.pc = "ingest", !.view = None], issued, ingested)
    BY <1>1, <1>5 DEF JobOK, Fields, SetContext, At
  <2> QED
    BY <1>5, <2>1, CallGoesOn DEF SetContext, TaskOnly, apiVars
<1>6. CASE ReadForIngest(t)
  <2>1. JobOK([task[t] EXCEPT !.pc = "store", !.view = snap], issued, ingested)
    BY <1>1, <1>6 DEF JobOK, Fields, ReadForIngest, At
  <2> QED
    BY <1>6, <2>1, CallGoesOn DEF ReadForIngest, TaskOnly, apiVars, snapVars
<1>7. CASE Ingest(t)
  <2> DEFINE job == [task[t] EXCEPT !.view = None]
  <2>1. ingested' = ingested \cup Range(task[t].batch)
    BY <1>7 DEF Ingest
  <2>2. JobOK(job, issued, ingested') /\ job.account \in Wallets /\ job.batch = task[t].batch
    BY <1>1, <1>7, <2>1 DEF JobOK, Fields, Ingest, At
  <2>3. JobOK(Sent(job, "deliver"), issued, ingested')
    BY <2>1, <2>2, SentOK DEF PortalInv
  <2>4. Become(t, Idle(task[t].kind)) \/ Become(t, Sent(job, "deliver"))
    BY <1>7 DEF Ingest, End
  <2>5. UNCHANGED <<account, stored, votes, delivered>> /\ UNCHANGED authVars
    BY <1>7 DEF Ingest, TaskOnly, apiVars
  <2> QED
    BY <2>1, <2>3, <2>4, <2>5, IdleOK, CallGoesOn
<1>8. CASE Deliver(t)
  <2>1. UNCHANGED <<account, stored, votes, ingested>> /\ UNCHANGED authVars
    BY <1>8 DEF Deliver, TaskOnly, snapVars
  <2>2. ChallengesOK'
    BY <2>1, AuthUnchanged DEF PortalInv
  <2>3. CallsOK'
    BY <1>8, <2>1, CallEnds DEF PortalInv, Deliver, authVars
  <2>4. Range(task[t].batch) \subseteq ingested
    BY <1>1, <1>8 DEF JobOK, Deliver, At
  <2>5. DeliveredWasIngested'
    BY <1>8, <2>1, <2>4 DEF Deliver, PortalInv, DeliveredWasIngested
  <2> QED
    BY <2>1, <2>2, <2>3, <2>5 DEF PortalInv, BallotBySigner, BallotsStand
<1>9. CASE ReadForEdit(t)
  <2>1. PICK item \in Items(task[t].kind) :
           Become(t, [task[t] EXCEPT !.pc = "edit", !.view = snap, !.item = item])
    BY <1>9 DEF ReadForEdit
  <2>2. JobOK([task[t] EXCEPT !.pc = "edit", !.view = snap, !.item = item], issued, ingested)
    BY <1>1 DEF JobOK, Fields
  <2> QED
    BY <1>9, <2>1, <2>2, CallGoesOn DEF ReadForEdit, apiVars, snapVars
<1>10. CASE Edit(t)
  BY <1>10, IdleOK, CallGoesOn DEF Edit, End, TaskOnly, apiVars
<1> QED
  BY <1>2, <1>3, <1>4, <1>5, <1>6, <1>7, <1>8, <1>9, <1>10 DEF Sync

-----------------------------------------------------------------------------
(* A request that a route lets in carries the token of an open session.    *)
LEMMA LetIn ==
  ASSUME NEW job, JobOK(job, issued, ingested), WalletOf(job.token) \in Wallets
  PROVE  job.token \in Challenges /\ WalletOf(job.token) = issued[job.token]
  BY AuthAssumption DEF JobOK, WalletOf

LEMMA VoteOK ==
  ASSUME PortalInv, NEW t \in Tasks, Vote(t)
  PROVE  PortalInv' /\ BallotsStand
<1>1. JobOK(task[t], issued, ingested)
  BY DEF PortalInv, CallsOK
<1>2. CASE PrepareBallot(t)
  <2> DEFINE job == [task[t] EXCEPT !.voter = WalletOf(task[t].token)]
  <2>1. JobOK(job, issued, ingested) /\ job.account \in Wallets
    BY <1>1, <1>2 DEF JobOK, Fields, PrepareBallot, At
  <2>2. JobOK(Ensured(job, "ballot"), issued, ingested)
    BY <2>1, EnsuredOK DEF PortalInv
  <2> QED
    BY <1>2, <2>2, CallGoesOn DEF PrepareBallot, TaskOnly, apiVars, snapVars
<1>3. CASE SignBallot(t)
  <2> DEFINE job == [task[t] EXCEPT !.signer = account]
  <2>1. JobOK(job, issued, ingested) /\ job.account \in Wallets
    BY <1>1, <1>3 DEF JobOK, Fields, SignBallot, At
  <2>2. JobOK(Sent(job, "submit"), issued, ingested)
    BY <2>1, SentOK DEF PortalInv
  <2> QED
    BY <1>3, <2>2, CallGoesOn DEF SignBallot, TaskOnly, apiVars, snapVars
<1>4. CASE CheckBallot(t)
  <2>1. WalletOf(task[t].token) \in Wallets
    BY <1>4, PortalAssumption DEF CheckBallot, MayVote
  <2>2. task[t].token \in Challenges /\ WalletOf(task[t].token) = issued[task[t].token]
    BY <1>1, <2>1, LetIn
  <2>3. JobOK([task[t] EXCEPT !.pc = "record"], issued, ingested)
    BY <1>1, <1>4, <2>1, <2>2 DEF JobOK, Fields, CheckBallot, SignedBy, At
  <2> QED
    BY <1>4, <2>3, CallGoesOn DEF CheckBallot, TaskOnly, apiVars, snapVars
<1>5. CASE RecordBallot(t)
  <2>1. UNCHANGED <<account, stored, delivered, ingested>> /\ UNCHANGED authVars
    BY <1>5 DEF RecordBallot, TaskOnly, snapVars
  <2>2. ChallengesOK'
    BY <2>1, AuthUnchanged DEF PortalInv
  <2>3. CallsOK'
    BY <1>5, <2>1, CallEnds DEF PortalInv, RecordBallot, authVars
  <2>4. /\ Caller(t) \in Wallets
        /\ BallotRow(t).voter = Caller(t) /\ BallotRow(t).signer = Caller(t)
    BY <1>1, <1>5 DEF JobOK, RecordBallot, At, Caller, BallotRow
  <2>5. /\ DOMAIN votes' = Wallets
        /\ \A w \in Wallets :
              \/ votes'[w] = votes[w]
              \/ w = Caller(t) /\ votes[w] = NoVote /\ votes'[w] = BallotRow(t)
    BY <1>5, <2>4 DEF RecordBallot, Recorded, PortalInv
  <2>6. BallotBySigner' /\ BallotsStand
    BY <2>4, <2>5 DEF PortalInv, BallotBySigner, BallotsStand
  <2>7. DeliveredWasIngested'
    BY <2>1 DEF PortalInv, DeliveredWasIngested
  <2> QED
    BY <2>1, <2>2, <2>3, <2>5, <2>6, <2>7 DEF PortalInv
<1> QED
  BY <1>2, <1>3, <1>4, <1>5 DEF Vote

LEMMA CommunicateOK ==
  ASSUME PortalInv, NEW t \in Tasks, Communicate(t)
  PROVE  PortalInv' /\ BallotsStand
<1>1. JobOK(task[t], issued, ingested)
  BY DEF PortalInv, CallsOK
<1>2. CASE PrepareMessage(t)
  <2>1. task[t].account \in Wallets
    BY <1>1, <1>2 DEF PrepareMessage, At, JobOK
  <2>2. JobOK(Ensured(task[t], "letter"), issued, ingested)
    BY <1>1, <2>1, EnsuredOK DEF PortalInv
  <2> QED
    BY <1>2, <2>2, CallGoesOn DEF PrepareMessage, TaskOnly, apiVars, snapVars
<1>3. CASE SignMessage(t)
  <2> DEFINE job == [task[t] EXCEPT !.signer = account]
  <2>1. JobOK(job, issued, ingested) /\ job.account \in Wallets
    BY <1>1, <1>3 DEF JobOK, Fields, SignMessage, At
  <2>2. JobOK(Sent(job, "publish"), issued, ingested)
    BY <2>1, SentOK DEF PortalInv
  <2> QED
    BY <1>3, <2>2, CallGoesOn DEF SignMessage, TaskOnly, apiVars, snapVars
<1>4. CASE PublishMessage(t)
  BY <1>4, IdleOK, CallGoesOn DEF PublishMessage, End, TaskOnly, snapVars
<1>5. CASE Subscribe(t)
  BY <1>5, IdleOK, CallGoesOn DEF Subscribe, End, TaskOnly, snapVars
<1> QED
  BY <1>2, <1>3, <1>4, <1>5 DEF Communicate

-----------------------------------------------------------------------------
LEMMA PortalStarts == Init => PortalInv
<1> SUFFICES ASSUME Init PROVE PortalInv
  OBVIOUS
<1>1. ChallengesOK
  BY DEF Init, AuthInit, ChallengesOK, AuthTypeOK, ChallengeOpensOneSession
<1>2. PICK kinds \in Scenarios : task = [t \in Tasks |-> Idle(kinds[t])]
  BY DEF Init
<1>3. CallsOK
  BY <1>2, IdleOK DEF CallsOK
<1> QED
  BY <1>1, <1>3 DEF Init, PortalInv, BallotBySigner, DeliveredWasIngested

LEMMA PortalStep == PortalInv /\ Next => PortalInv' /\ BallotsStand
<1> SUFFICES ASSUME PortalInv, Next PROVE PortalInv' /\ BallotsStand
  OBVIOUS
<1>1. CASE SwitchAccount \/ Authentication \/ Time
  BY <1>1, SwitchAccountOK, AuthenticationOK, TimeOK
<1>2. ASSUME NEW t \in Tasks, Start(t) \/ Connect(t) \/ Abort(t)
      PROVE  PortalInv' /\ BallotsStand
  BY <1>2, StartOK, ConnectOK, AbortOK
<1>3. ASSUME NEW t \in Tasks, Sync(t) \/ Vote(t) \/ Communicate(t)
      PROVE  PortalInv' /\ BallotsStand
  BY <1>3, SyncOK, VoteOK, CommunicateOK
<1> QED
  BY <1>1, <1>2, <1>3 DEF Next

LEMMA PortalStutter == PortalInv /\ UNCHANGED portalVars => PortalInv' /\ BallotsStand
<1> SUFFICES ASSUME PortalInv, UNCHANGED portalVars PROVE PortalInv' /\ BallotsStand
  OBVIOUS
<1>1. UNCHANGED <<task, account, stored, votes, delivered, ingested>> /\ UNCHANGED authVars
  BY DEF portalVars, pageVars, apiVars, snapVars
<1>2. ChallengesOK' /\ RowsKept
  BY <1>1, AuthUnchanged DEF PortalInv
<1>3. CallsOK'
  BY <1>1, <1>2, CallsKept DEF PortalInv
<1> QED
  BY <1>1, <1>2, <1>3, CallsMove DEF PortalInv

(* The strengthened invariant of the page, the API and the Snap.           *)
THEOREM PortalInvariant == Spec => []PortalInv
<1>1. PortalInv /\ [Next]_portalVars => PortalInv'
  BY PortalStep, PortalStutter
<1> QED
  BY <1>1, PortalStarts, PTL DEF Spec

(* Rows, sessions, calls of verifyNonce and the awaits of the page are of  *)
(* their types (auth.js:24, wallet.jsx:75).                                *)
THEOREM PortalTypeCorrect == Spec => []PortalTypeOK
<1>1. PortalInv => PortalTypeOK
  BY DEF PortalInv, ChallengesOK, CallsOK, JobOK, PortalTypeOK
<1> QED
  BY <1>1, PortalInvariant, PTL

(* However many verifications of a challenge are under way, delivered      *)
(* twice or waiting for the row's lock, one session comes of it            *)
(* (auth.js:45).                                                           *)
THEOREM ChallengeOpensOnce == Spec => []ChallengeOpensOneSession
<1>1. PortalInv => ChallengeOpensOneSession
  BY DEF PortalInv, ChallengesOK, AuthTypeOK
<1> QED
  BY <1>1, PortalInvariant, PTL

(* Every recorded ballot was prepared for and signed by the wallet it      *)
(* counts for (votes.js:139).                                              *)
THEOREM BallotsSigned == Spec => []BallotBySigner
<1>1. PortalInv => BallotBySigner
  BY DEF PortalInv
<1> QED
  BY <1>1, PortalInvariant, PTL

(* No step changes a recorded ballot (votes.js:158).                       *)
THEOREM BallotStands == Spec => FirstBallotStands
<1>1. PortalInv /\ [Next]_portalVars => BallotsStand
  BY PortalStep, PortalStutter
<1>2. PortalInv /\ [Next]_portalVars =>
         [\A w \in Wallets : votes[w] # NoVote => votes'[w] = votes[w]]_portalVars
  BY <1>1 DEF BallotsStand
<1> QED
  BY <1>2, PortalInvariant, PTL DEF Spec, FirstBallotStands

(* Every acknowledged message was taken in by the Snap (snap.js:72).       *)
THEOREM AcknowledgedWasIngested == Spec => []DeliveredWasIngested
<1>1. PortalInv => DeliveredWasIngested
  BY DEF PortalInv
<1> QED
  BY <1>1, PortalInvariant, PTL

-----------------------------------------------------------------------------
(* Messages in the Snap.  First: the numbers of a finite set have an order *)
(* without gaps, so that Nth is one of them.                               *)

Below(S, n) == {m \in S : m < n}
Place(S, n) == Cardinality(Below(S, n))

LEMMA PlaceRange ==
  ASSUME NEW S, S \subseteq Nat, IsFiniteSet(S), NEW n \in S
  PROVE  Place(S, n) \in Nat /\ Place(S, n) \in 0..(Cardinality(S) - 1)
<1> DEFINE A == Below(S, n)
<1>1. A \subseteq S /\ n \notin A
  BY DEF Below
<1>2. A # S
  BY <1>1
<1> HIDE DEF A
<1>3. Cardinality(A) <= Cardinality(S) /\ Cardinality(A) # Cardinality(S)
  BY <1>1, <1>2, FS_Subset
<1>4. Cardinality(A) \in Nat /\ Cardinality(S) \in Nat
  BY <1>1, FS_Subset, FS_CardinalityType
<1> QED
  BY <1>3, <1>4 DEF Place, A

LEMMA PlaceGrows ==
  ASSUME NEW S, S \subseteq Nat, IsFiniteSet(S), NEW m \in S, NEW n \in S, m < n
  PROVE  Place(S, m) # Place(S, n)
<1>1. \A x, y, z \in Nat : x < y /\ y < z => x < z
  OBVIOUS
<1>2. Below(S, m) \subseteq Below(S, n)
  BY <1>1, Zenon DEF Below
<1>3. m \in Below(S, n) /\ m \notin Below(S, m)
  BY DEF Below
<1>4. IsFiniteSet(Below(S, n))
  BY FS_Subset DEF Below
<1> HIDE DEF Below
<1> QED
  BY <1>2, <1>3, <1>4, FS_Subset DEF Place

LEMMA NthIsOne ==
  ASSUME NEW S, S \subseteq Nat, IsFiniteSet(S), NEW k \in 1..Cardinality(S)
  PROVE  Nth(S, k) \in S
<1> DEFINE n == Cardinality(S)
           place == [x \in S |-> Place(S, x) + 1]
<1>1. n \in Nat
  BY FS_CardinalityType
<1>2. \A x \in S : Place(S, x) \in Nat /\ Place(S, x) \in 0..(n - 1)
  BY PlaceRange
<1>3. place \in [S -> 1..n]
  BY <1>1, <1>2
<1>4. ASSUME NEW x \in S, NEW y \in S, place[x] = place[y] PROVE x = y
  <2>1. Place(S, x) = Place(S, y)
    BY <1>2, <1>4
  <2>2. x \in Nat /\ y \in Nat /\ ~(x < y) /\ ~(y < x)
    BY <2>1, PlaceGrows
  <2> QED
    BY <2>2
<1>5. place \in Injection(S, 1..n)
  BY <1>3, <1>4 DEF Injection, IsInjective
<1>6. IsFiniteSet(1..n) /\ Cardinality(1..n) = n
  BY <1>1, FS_Interval
<1>7. place \in Surjection(S, 1..n)
  BY <1>5, <1>6, FS_Injection
<1>8. PICK x \in S : place[x] = k
  BY <1>7 DEF Surjection
<1>9. Place(S, x) = k - 1
  BY <1>2, <1>8
<1> QED
  BY <1>9 DEF Nth, Place, Below

-----------------------------------------------------------------------------
(* What the calls hold of the Snap's state, and of the inbox they fetched. *)

Entry == [id : Messages, read : BOOLEAN]
State == [context : Wallets \cup {None}, messages : Seq(Entry)]
Writing == {"setContext", "store", "edit"}
Fetched == {"context", "setContext", "ingest", "store"}
Publishing == {"payload", "letter", "publish"}

HeldOK(job) ==
    /\ job.pc \in Writing => job.view \in State
    /\ job.pc \in Fetched => job.batch \in Seq(Messages)
    /\ job.pc = "edit" => job.kind \in {"mark", "clear"}
    /\ job.then \notin Writing \cup Fetched
    /\ job.pc = "idle" => job.then = "idle"
    /\ job.pc \in Publishing \/ job.then \in Publishing => job.item \in Messages

InboxInv ==
    /\ snap \in State
    /\ published \subseteq Messages
    /\ \A t \in Tasks : HeldOK(task[t])

(* The functions of the Snap.                                              *)

LEMMA IdsKept ==
  ASSUME NEW state \in State, NEW other \in State,
         \A i \in DOMAIN state.messages : \E j \in DOMAIN other.messages :
             other.messages[j].id = state.messages[i].id
  PROVE  Ids(state) \subseteq Ids(other)
  BY DEF Ids, Range

LEMMA WithContextOK ==
  ASSUME NEW view \in State, NEW w \in Wallets
  PROVE  /\ WithContext(view, w) \in State
         /\ WithContext(view, w).context = view.context
              => WithContext(view, w).messages = view.messages
  BY DEF WithContext, State

LEMMA MarkedReadOK ==
  ASSUME NEW view \in State, NEW m
  PROVE  /\ MarkedRead(view, m) \in State
         /\ Ids(view) \subseteq Ids(MarkedRead(view, m))
<1> DEFINE old == view.messages
           new == [i \in DOMAIN old |-> IF old[i].id = m THEN [old[i] EXCEPT !.read = TRUE] ELSE old[i]]
<1>1. old \in Seq(Entry)
  BY DEF State
<1>2. MarkedRead(view, m) = [view EXCEPT !.messages = new]
  BY DEF MarkedRead
<1>3. ASSUME NEW i \in DOMAIN old PROVE new[i] \in Entry /\ new[i].id = old[i].id
  <2>1. \A e \in Entry : [e EXCEPT !.read = TRUE] \in Entry /\ [e EXCEPT !.read = TRUE].id = e.id
    BY DEF Entry
  <2>2. old[i] \in Entry
    BY <1>1
  <2>3. new[i] = IF old[i].id = m THEN [old[i] EXCEPT !.read = TRUE] ELSE old[i]
    OBVIOUS
  <2> QED
    BY <2>1, <2>2, <2>3
<1>4. DOMAIN new = DOMAIN old /\ DOMAIN old = 1..Len(old) /\ Len(old) \in Nat
  BY <1>1
<1>5. new \in Seq(Entry)
  <2>1. new = [i \in 1..Len(old) |-> new[i]]
    BY <1>4
  <2> HIDE DEF new
  <2>2. new \in [1..Len(old) -> Entry]
    BY <2>1, <1>3, <1>4
  <2> QED
    BY <2>2, <1>4
<1> HIDE DEF new
<1>6. MarkedRead(view, m) \in State /\ MarkedRead(view, m).messages = new
  BY <1>2, <1>5 DEF State
<1> QED
  BY <1>3, <1>4, <1>6, IdsKept

LEMMA ClearedOK ==
  ASSUME NEW view \in State
  PROVE  Cleared(view) \in State
<1>1. <<>> \in Seq(Entry)
  OBVIOUS
<1> QED
  BY <1>1 DEF Cleared, State

LEMMA IngestedOK ==
  ASSUME NEW view \in State, NEW batch \in Seq(Messages)
  PROVE  /\ Ingested(view, batch) \in State
         /\ \A m \in Ids(view) \ Ids(Ingested(view, batch)) :
               /\ Len(Ingested(view, batch).messages) = MaxStored
               /\ \A n \in Ids(Ingested(view, batch)) :
                     n \notin Ids(view) \/ InFront(view, n, m)
<1> DEFINE unknown == {i \in DOMAIN batch : batch[i] \notin Ids(view)}
           n == Cardinality(unknown)
           fresh == [k \in 1..n |-> [id |-> batch[Nth(unknown, k)], read |-> FALSE]]
           all == fresh \o view.messages
           kept == IF Len(all) < MaxStored THEN Len(all) ELSE MaxStored
           new == SubSeq(all, 1, kept)
<1>1. Ingested(view, batch) = [view EXCEPT !.messages = new]
  BY DEF Ingested
<1>2. view.messages \in Seq(Entry)
  BY DEF State
<1>3. DOMAIN batch = 1..Len(batch) /\ Len(batch) \in Nat
  OBVIOUS
<1>4. unknown \subseteq Nat /\ IsFiniteSet(unknown)
  <2>1. unknown \subseteq 1..Len(batch)
    BY <1>3
  <2>2. IsFiniteSet(1..Len(batch))
    BY <1>3, FS_Interval
  <2>3. 1..Len(batch) \subseteq Nat
    BY <1>3
  <2> HIDE DEF unknown
  <2>4. IsFiniteSet(unknown)
    BY <2>1, <2>2, FS_Subset
  <2> QED
    BY <2>1, <2>3, <2>4
<1>5. n \in Nat
  BY <1>4, FS_CardinalityType
<1>6. \A k \in 1..n : Nth(unknown, k) \in unknown
  BY <1>4, NthIsOne
<1>7. \A i \in unknown : batch[i] \in Messages
  OBVIOUS
<1> HIDE DEF unknown, n
<1>8. fresh \in Seq(Entry)
  BY <1>5, <1>6, <1>7 DEF Entry
<1>16. \A k \in 1..Len(fresh) : fresh[k].id \notin Ids(view)
  <2>1. Len(fresh) = n
    BY <1>5
  <2> QED
    BY <2>1, <1>5, <1>6 DEF unknown
<1> HIDE DEF fresh
<1>9. /\ all \in Seq(Entry) /\ Len(all) = Len(fresh) + Len(view.messages)
      /\ \A i \in 1..Len(view.messages) : all[Len(fresh) + i] = view.messages[i]
  BY <1>2, <1>8
<1>17. \A i \in 1..Len(fresh) : all[i] = fresh[i]
  BY <1>2, <1>8
<1>10. /\ Len(fresh) \in Nat /\ Len(view.messages) \in Nat
       /\ DOMAIN view.messages = 1..Len(view.messages)
  BY <1>2, <1>8
<1> HIDE DEF all
<1>11. Len(all) \in Nat /\ MaxStored \in Nat /\ kept \in 0..Len(all)
  BY <1>9, PortalAssumption
<1> HIDE DEF kept
<1>12. /\ new \in Seq(Entry) /\ Len(new) = kept
       /\ \A i \in 1..kept : new[i] = all[i]
  BY <1>9, <1>11
<1> HIDE DEF new
<1>13. Ingested(view, batch) \in State /\ Ingested(view, batch).messages = new
  BY <1>1, <1>12 DEF State
<1>14. CASE Len(all) < MaxStored
  <2>1. kept = Len(all)
    BY <1>14 DEF kept
  <2>2. ASSUME NEW i \in DOMAIN view.messages
        PROVE  \E j \in DOMAIN new : new[j].id = view.messages[i].id
    <3>1. Len(fresh) + i \in 1..kept
      BY <1>9, <1>10, <2>1
    <3>2. Len(fresh) + i \in DOMAIN new /\ new[Len(fresh) + i] = view.messages[i]
      BY <1>9, <1>10, <1>12, <3>1
    <3> QED
      BY <3>2
  <2> QED
    BY <1>13, <2>2, IdsKept
<1>15. CASE ~(Len(all) < MaxStored)
  <2>1. kept = MaxStored
    BY <1>15 DEF kept
  <2> SUFFICES ASSUME NEW m \in Ids(view) \ Ids(Ingested(view, batch)),
                      NEW x \in Ids(Ingested(view, batch)), x \in Ids(view)
               PROVE  InFront(view, x, m)
    BY <1>12, <1>13, <2>1
  <2>2. PICK j \in 1..Len(view.messages) : view.messages[j].id = m
    BY <1>10 DEF Ids, Range
  <2>3. DOMAIN new = 1..kept
    BY <1>11, <1>12
  <2>4. PICK i \in 1..kept : new[i].id = x
    BY <1>13, <2>3 DEF Ids, Range
  <2>5. ~(Len(fresh) + j <= kept)
    <3> SUFFICES ASSUME Len(fresh) + j <= kept PROVE FALSE
      OBVIOUS
    <3>1. Len(fresh) + j \in 1..kept
      BY <1>10, <1>11
    <3>2. new[Len(fresh) + j].id = m
      BY <1>9, <1>12, <2>2, <3>1
    <3> QED
      BY <1>13, <2>3, <3>1, <3>2 DEF Ids, Range
  <2>6. ~(i \in 1..Len(fresh))
    BY <1>12, <1>16, <1>17, <2>4
  <2> DEFINE k == i - Len(fresh)
  <2>7. k \in 1..Len(view.messages) /\ k < j /\ i = Len(fresh) + k
    BY <1>9, <1>10, <1>11, <2>5, <2>6
  <2>8. view.messages[k].id = x
    BY <1>9, <1>12, <2>4, <2>7
  <2> QED
    BY <1>10, <2>2, <2>7, <2>8 DEF InFront
<1> QED
  BY <1>13, <1>14, <1>15

(* The inbox is a sequence of messages.                                    *)
LEMMA InboxOK ==
  ASSUME published \subseteq Messages, NEW w
  PROVE  Inbox(w) \in Seq(Messages)
<1> DEFINE open == {m \in published \ lapsed : <<m, w>> \notin delivered /\ Addressed(m, w)}
           n == Cardinality(open)
<1>1. open \subseteq Messages /\ open \subseteq Nat /\ IsFiniteSet(open)
  BY PortalAssumption, FS_Subset
<1>2. n \in Nat
  BY <1>1, FS_CardinalityType
<1>3. Inbox(w) = [i \in 1..n |-> Nth(open, n + 1 - i)]
  BY DEF Inbox
<1> HIDE DEF open
<1>4. \A k \in 1..n : Nth(open, k) \in open
  BY <1>1, NthIsOne
<1> HIDE DEF n
<1>5. ASSUME NEW i \in 1..n PROVE Nth(open, n + 1 - i) \in Messages
  <2>1. n + 1 - i \in 1..n
    BY <1>2
  <2> QED
    BY <1>1, <1>4, <2>1
<1>6. [i \in 1..n |-> Nth(open, n + 1 - i)] \in Seq(Messages)
  BY <1>2, <1>5
<1> QED
  BY <1>3, <1>6

(* Every action keeps the invariant, and a step that writes the Snap's     *)
(* state does it for one call, whose view explains what is missing after.  *)

LeftForCause ==
    \A m \in Ids(snap) \ Ids(snap)' : \E t \in Tasks : Writes(t) /\ MayDrop(t, m)

LEMMA IdleHeld ==
  ASSUME NEW kind
  PROVE  HeldOK(Idle(kind))
  BY DEF HeldOK, Idle, Writing, Fetched, Publishing

(* A step that does not write the Snap's state.                            *)
LEMMA SnapKept ==
  ASSUME InboxInv, UNCHANGED snap, published' \subseteq Messages,
         \A u \in Tasks : HeldOK(task'[u])
  PROVE  InboxInv' /\ LeftForCause
  BY DEF InboxInv, LeftForCause, HeldOK, Ids

(* A step of one call.                                                     *)
LEMMA OneHeld ==
  ASSUME InboxInv, CallsOK, NEW t \in Tasks, NEW job, Become(t, job), HeldOK(job),
         NEW u \in Tasks
  PROVE  HeldOK(task'[u])
<1>1. CASE u = t
  BY <1>1 DEF CallsOK, Become
<1>2. CASE u # t
  BY <1>2 DEF CallsOK, Become, InboxInv
<1> QED
  BY <1>1, <1>2

LEMMA CallMoves ==
  ASSUME InboxInv, CallsOK, NEW t \in Tasks, NEW job, Become(t, job), HeldOK(job),
         UNCHANGED snap, published' \subseteq Messages
  PROVE  InboxInv' /\ LeftForCause
  BY OneHeld, SnapKept

LEMMA SentHeld ==
  ASSUME NEW job, NEW rows, NEW taken, JobOK(job, rows, taken), HeldOK(job), NEW pc,
         pc \notin Writing \cup Fetched, pc # "idle",
         pc \in Publishing => job.item \in Messages
  PROVE  HeldOK(Sent(job, pc))
  BY DEF JobOK, HeldOK, Sent, Fields, Writing

LEMMA EnsuredHeld ==
  ASSUME NEW job, NEW rows, NEW taken, JobOK(job, rows, taken), HeldOK(job), NEW pc,
         pc \notin Writing \cup Fetched, pc # "idle",
         pc \in Publishing => job.item \in Messages
  PROVE  HeldOK(Ensured(job, pc))
<1>1. CASE SessionIsFor(job.account)
  BY <1>1, SentHeld DEF Ensured
<1>2. CASE ~SessionIsFor(job.account)
  BY <1>2 DEF Ensured, JobOK, HeldOK, Fields, Writing, Fetched, Publishing
<1> QED
  BY <1>1, <1>2

LEMMA OutsideHeld ==
  ASSUME InboxInv, PortalInv, SwitchAccount \/ Time
  PROVE  InboxInv' /\ LeftForCause
<1>1. UNCHANGED <<task, snap, published>>
  BY DEF SwitchAccount, Time, Incident, apiVars, snapVars
<1> QED
  BY <1>1, SnapKept DEF InboxInv

LEMMA PageHeld ==
  ASSUME InboxInv, PortalInv, NEW t \in Tasks, Start(t) \/ Connect(t) \/ Abort(t)
  PROVE  InboxInv' /\ LeftForCause
<1>1. UNCHANGED <<snap, published>>
  BY DEF Start, Connect, Abort, apiVars, snapVars
<1>2. JobOK(task[t], issued, ingested) /\ HeldOK(task[t]) /\ CallsOK /\ published \subseteq Messages
  BY DEF PortalInv, CallsOK, InboxInv
<1>3. CASE Start(t)
  <2>1. PICK item \in Items(task[t].kind) :
             Become(t, Ensured([task[t] EXCEPT !.account = account, !.item = item],
                               First[task[t].kind]))
    BY <1>3 DEF Start
  <2> DEFINE job == [task[t] EXCEPT !.account = account, !.item = item]
             pc == First[task[t].kind]
  <2>2. task[t].pc = "idle" /\ task[t].kind \in {"sync", "vote", "publish", "subscribe"}
    BY <1>3 DEF Start, At, First
  <2>3. pc \notin Writing \cup Fetched /\ (pc \in Publishing => task[t].kind = "publish")
    BY <2>2 DEF First, Writing, Fetched, Publishing
  <2>4. task[t].kind = "publish" => item \in Messages
    BY DEF Items
  <2>5. JobOK(job, issued, ingested) /\ job.item = item /\ job.pc = "idle" /\ job.then = task[t].then
    BY <1>2, <2>2 DEF JobOK, Fields, PortalInv
  <2>6. HeldOK(job)
    BY <1>2, <2>2, <2>5 DEF HeldOK, Writing, Fetched, Publishing
  <2>7. pc # "idle"
    BY <2>2 DEF First
  <2> HIDE DEF job, pc
  <2>8. HeldOK(Ensured(job, pc))
    BY <2>3, <2>4, <2>5, <2>6, <2>7, EnsuredHeld
  <2>9. Become(t, Ensured(job, pc))
    BY <2>1 DEF job, pc
  <2> QED
    BY <1>1, <1>2, <2>8, <2>9, CallMoves
<1>4. CASE Connect(t)
  <2>1. PICK w \in Wallets :
           Become(t, IF SessionIsFor(w) THEN task[t]
                     ELSE [task[t] EXCEPT !.account = w, !.pc = "challenge"])
    BY <1>4 DEF Connect
  <2>2. HeldOK([task[t] EXCEPT !.account = w, !.pc = "challenge"])
    BY <1>2 DEF JobOK, Fields, HeldOK, Writing, Fetched, Publishing
  <2> QED
    BY <1>1, <1>2, <2>1, <2>2, CallMoves
<1>5. CASE Abort(t)
  BY <1>1, <1>2, <1>5, IdleHeld, CallMoves DEF Abort, End
<1> QED
  BY <1>3, <1>4, <1>5

LEMMA AuthenticationHeld ==
  ASSUME InboxInv, PortalInv, Authentication
  PROVE  InboxInv' /\ LeftForCause
<1>1. UNCHANGED <<snap, published>>
  BY DEF Authentication, Retire, Challenge, Sign, Answer, LoginOnly, apiVars, snapVars
<1>2. CallsOK /\ published \subseteq Messages
  BY DEF PortalInv, InboxInv
<1>3. ASSUME NEW t \in Tasks PROVE JobOK(task[t], issued, ingested) /\ HeldOK(task[t])
  BY DEF PortalInv, CallsOK, InboxInv
<1>4. CASE \E t \in Tasks : Retire(t) \/ Challenge(t) \/ Sign(t)
  <2>1. PICK t \in Tasks : Retire(t) \/ Challenge(t) \/ Sign(t)
    BY <1>4
  <2>2. \A id : /\ HeldOK([task[t] EXCEPT !.pc = "row"])
                /\ HeldOK([task[t] EXCEPT !.pc = "sign", !.challenge = id])
                /\ HeldOK([task[t] EXCEPT !.pc = "answer"])
    BY <1>3 DEF JobOK, Fields, HeldOK, Writing, Fetched, Publishing
  <2> QED
    BY <1>1, <1>2, <2>1, <2>2, CallMoves DEF Retire, Challenge, Sign
<1>5. CASE \E call \in verifying : Answer(call)
  <2>1. PICK call \in verifying : Answer(call)
    BY <1>5
  <2>2. ASSUME NEW u \in Tasks PROVE HeldOK(task'[u])
    <3>1. CASE ~Awaits(u, call)
      <4>1. task'[u] = task[u]
        BY <2>1, <3>1 DEF Answer
      <4> QED
        BY <1>3, <4>1
    <3>2. CASE Awaits(u, call) /\ (~Accepts(call) \/ task[u].then = "idle")
      <4>1. task'[u] = Idle(task[u].kind)
        BY <2>1, <3>2 DEF Answer
      <4> QED
        BY <4>1, IdleHeld
    <3>3. CASE Awaits(u, call) /\ Accepts(call) /\ task[u].then # "idle"
      <4> DEFINE job == [task[u] EXCEPT !.pc = task[u].then, !.token = call.signed,
                                        !.challenge = None]
      <4>1. task'[u] = job
        BY <2>1, <3>3 DEF Answer
      <4>2. /\ job.pc = task[u].then /\ job.then = task[u].then
            /\ job.item = task[u].item
        BY <1>3 DEF JobOK, Fields
      <4>3. HeldOK(job)
        BY <1>3, <3>3, <4>2 DEF HeldOK, Writing
      <4> QED
        BY <4>1, <4>3
    <3> QED
      BY <3>1, <3>2, <3>3
  <2> QED
    BY <1>1, <1>2, <2>2, SnapKept
<1>6. CASE \E call \in verifying :
             \/ SelectChallenges(call) /\ UNCHANGED <<pageVars, apiVars, snapVars>>
             \/ RepeatVerify(call) /\ Incident /\ UNCHANGED <<apiVars, snapVars>>
  <2>1. UNCHANGED task
    BY <1>6 DEF Incident, pageVars
  <2> QED
    BY <1>1, <1>2, <1>3, <2>1, SnapKept
<1> QED
  BY <1>4, <1>5, <1>6 DEF Authentication

LEMMA VoteHeld ==
  ASSUME InboxInv, PortalInv, NEW t \in Tasks, Vote(t)
  PROVE  InboxInv' /\ LeftForCause
<1>1. UNCHANGED <<snap, published>>
  BY DEF Vote, PrepareBallot, SignBallot, CheckBallot, RecordBallot, apiVars, snapVars
<1>2. JobOK(task[t], issued, ingested) /\ HeldOK(task[t]) /\ CallsOK /\ published \subseteq Messages
  BY DEF PortalInv, CallsOK, InboxInv
<1>3. CASE PrepareBallot(t)
  <2> DEFINE job == [task[t] EXCEPT !.voter = WalletOf(task[t].token)]
  <2>1. JobOK(job, issued, ingested)
    BY <1>2, <1>3 DEF JobOK, Fields, PrepareBallot, At
  <2>2. HeldOK(job)
    BY <1>2, <1>3 DEF JobOK, Fields, HeldOK, PrepareBallot, At, Writing, Fetched, Publishing
  <2>3. HeldOK(Ensured(job, "ballot"))
    BY <2>1, <2>2, EnsuredHeld DEF Writing, Fetched, Publishing
  <2> QED
    BY <1>1, <1>2, <1>3, <2>3, CallMoves DEF PrepareBallot
<1>4. CASE SignBallot(t)
  <2> DEFINE job == [task[t] EXCEPT !.signer = account]
  <2>1. JobOK(job, issued, ingested)
    BY <1>2, <1>4 DEF JobOK, Fields, SignBallot, At
  <2>2. HeldOK(job)
    BY <1>2, <1>4 DEF JobOK, Fields, HeldOK, SignBallot, At, Writing, Fetched, Publishing
  <2>3. HeldOK(Sent(job, "submit"))
    BY <2>1, <2>2, SentHeld DEF Writing, Fetched, Publishing
  <2> QED
    BY <1>1, <1>2, <1>4, <2>3, CallMoves DEF SignBallot
<1>5. CASE CheckBallot(t)
  <2>1. HeldOK([task[t] EXCEPT !.pc = "record"])
    BY <1>2 DEF JobOK, Fields, HeldOK, Writing, Fetched, Publishing
  <2> QED
    BY <1>1, <1>2, <1>5, <2>1, CallMoves DEF CheckBallot
<1>6. CASE RecordBallot(t)
  BY <1>1, <1>2, <1>6, IdleHeld, CallMoves DEF RecordBallot, End
<1> QED
  BY <1>3, <1>4, <1>5, <1>6 DEF Vote

LEMMA CommunicateHeld ==
  ASSUME InboxInv, PortalInv, NEW t \in Tasks, Communicate(t)
  PROVE  InboxInv' /\ LeftForCause
<1>1. UNCHANGED snap
  BY DEF Communicate, PrepareMessage, SignMessage, PublishMessage, Subscribe, snapVars
<1>2. JobOK(task[t], issued, ingested) /\ HeldOK(task[t]) /\ CallsOK /\ published \subseteq Messages
  BY DEF PortalInv, CallsOK, InboxInv
<1>3. CASE PrepareMessage(t)
  <2>1. task[t].item \in Messages
    BY <1>2, <1>3 DEF HeldOK, PrepareMessage, At, Publishing
  <2>2. HeldOK(Ensured(task[t], "letter"))
    BY <1>2, <2>1, EnsuredHeld DEF Writing, Fetched
  <2> QED
    BY <1>1, <1>2, <1>3, <2>2, CallMoves DEF PrepareMessage, apiVars
<1>4. CASE SignMessage(t)
  <2> DEFINE job == [task[t] EXCEPT !.signer = account]
  <2>1. JobOK(job, issued, ingested)
    BY <1>2, <1>4 DEF JobOK, Fields, SignMessage, At
  <2>2. HeldOK(job) /\ job.item \in Messages
    BY <1>2, <1>4 DEF JobOK, Fields, HeldOK, SignMessage, At, Writing, Fetched, Publishing
  <2>3. HeldOK(Sent(job, "publish"))
    BY <2>1, <2>2, SentHeld DEF Writing, Fetched
  <2> QED
    BY <1>1, <1>2, <1>4, <2>3, CallMoves DEF SignMessage, apiVars
<1>5. CASE PublishMessage(t)
  <2>1. task[t].item \in Messages
    BY <1>2, <1>5 DEF HeldOK, PublishMessage, At, Publishing
  <2> QED
    BY <1>1, <1>2, <1>5, <2>1, IdleHeld, CallMoves DEF PublishMessage, End
<1>6. CASE Subscribe(t)
  BY <1>1, <1>2, <1>6, IdleHeld, CallMoves DEF Subscribe, End
<1> QED
  BY <1>3, <1>4, <1>5, <1>6 DEF Communicate

(* A call that writes.                                                     *)
LEMMA CallWrites ==
  ASSUME InboxInv, CallsOK, NEW t \in Tasks, NEW job, Become(t, job), HeldOK(job),
         UNCHANGED published, snap' \in State,
         task[t].pc \in Writing, job.pc # task[t].pc,
         \A m \in Ids(task[t].view) \ Ids(snap') :
            \/ task[t].kind = "clear" \/ snap'.context # task[t].view.context
            \/ /\ task[t].pc = "store" /\ Len(snap'.messages) = MaxStored
               /\ \A n \in Ids(snap') : n \notin Ids(task[t].view) \/ InFront(task[t].view, n, m)
  PROVE  InboxInv' /\ LeftForCause
<1>1. InboxInv'
  BY OneHeld DEF InboxInv
<1>2. Writes(t)
  BY DEF Writes, Writing, Become, CallsOK
<1>3. Ids(snap') = Ids(snap)'
  BY DEF Ids
<1>4. \A m : m \notin Ids(snap') => MayDrop(t, m)
  BY <1>3 DEF MayDrop, FallsOff
<1> QED
  BY <1>1, <1>2, <1>3, <1>4 DEF LeftForCause

LEMMA SyncHeld ==
  ASSUME InboxInv, PortalInv, NEW t \in Tasks, Sync(t)
  PROVE  InboxInv' /\ LeftForCause
<1>1. UNCHANGED published
  BY DEF Sync, LookForSnap, FetchInbox, ReadForContext, SetContext, ReadForIngest, Ingest,
     Deliver, ReadForEdit, Edit, apiVars
<1>2. /\ JobOK(task[t], issued, ingested) /\ HeldOK(task[t]) /\ CallsOK
      /\ published \subseteq Messages /\ snap \in State
  BY DEF PortalInv, CallsOK, InboxInv
<1>3. CASE LookForSnap(t)
  <2>1. HeldOK(Sent(task[t], "fetch"))
    BY <1>2, SentHeld DEF Writing, Fetched, Publishing
  <2> QED
    BY <1>1, <1>2, <1>3, <2>1, CallMoves DEF LookForSnap, snapVars
<1>4. CASE FetchInbox(t)
  <2> DEFINE batch == Inbox(WalletOf(task[t].token))
             job == [task[t] EXCEPT !.pc = "context", !.token = None, !.batch = batch]
  <2>1. batch \in Seq(Messages)
    BY <1>2, InboxOK
  <2>2. Become(t, job) /\ UNCHANGED snap
    BY <1>4 DEF FetchInbox, snapVars
  <2> HIDE DEF batch
  <2>3. HeldOK(job)
    BY <1>2, <2>1 DEF JobOK, Fields, HeldOK, Writing, Fetched, Publishing
  <2> QED
    BY <1>1, <1>2, <2>2, <2>3, CallMoves
<1>5. CASE ReadForContext(t)
  <2>1. HeldOK([task[t] EXCEPT !.pc = "setContext", !.view = snap])
    BY <1>2, <1>5 DEF JobOK, Fields, HeldOK, Writing, Fetched, Publishing, ReadForContext, At
  <2> QED
    BY <1>1, <1>2, <1>5, <2>1, CallMoves DEF ReadForContext, snapVars
<1>6. CASE SetContext(t)
  <2> DEFINE job == [task[t] EXCEPT !.pc = "ingest", !.view = None]
  <2>1. task[t].pc = "setContext" /\ Become(t, job)
        /\ snap' = WithContext(task[t].view, task[t].account)
    BY <1>6 DEF SetContext, At
  <2>2. task[t].view \in State /\ task[t].account \in Wallets /\ job.pc = "ingest"
    BY <1>2, <2>1 DEF JobOK, Fields, HeldOK, Writing
  <2>3. HeldOK(job)
    BY <1>2, <2>1 DEF JobOK, Fields, HeldOK, Writing, Fetched, Publishing
  <2>4. snap' \in State
    BY <2>1, <2>2, WithContextOK
  <2>5. ASSUME snap'.context = task[t].view.context
        PROVE  Ids(task[t].view) \subseteq Ids(snap')
    BY <2>1, <2>2, <2>5, WithContextOK DEF Ids
  <2> HIDE DEF job
  <2> QED
    BY <1>1, <1>2, <2>1, <2>2, <2>3, <2>4, <2>5, CallWrites DEF Writing
<1>7. CASE ReadForIngest(t)
  <2>1. HeldOK([task[t] EXCEPT !.pc = "store", !.view = snap])
    BY <1>2, <1>7 DEF JobOK, Fields, HeldOK, Writing, Fetched, Publishing, ReadForIngest, At
  <2> QED
    BY <1>1, <1>2, <1>7, <2>1, CallMoves DEF ReadForIngest, snapVars
<1>8. CASE Ingest(t)
  <2> DEFINE job == [task[t] EXCEPT !.view = None]
             next == IF task[t].batch = <<>> THEN Idle(task[t].kind) ELSE Sent(job, "deliver")
  <2>1. task[t].pc = "store" /\ Become(t, next)
        /\ snap' = Ingested(task[t].view, task[t].batch)
    BY <1>8 DEF Ingest, At, End
  <2>2. task[t].view \in State /\ task[t].batch \in Seq(Messages)
    BY <1>2, <2>1 DEF HeldOK, Writing, Fetched
  <2>3. HeldOK(Sent(job, "deliver")) /\ Sent(job, "deliver").pc = "deliver"
    BY <1>2, <2>1 DEF JobOK, Fields, HeldOK, Sent, Writing, Fetched, Publishing
  <2>4. HeldOK(next) /\ next.pc # "store"
    BY <2>3, IdleHeld DEF Idle
  <2> HIDE DEF next
  <2> QED
    BY <1>1, <1>2, <2>1, <2>2, <2>4, IngestedOK, CallWrites DEF Writing
<1>9. CASE Deliver(t)
  BY <1>1, <1>2, <1>9, IdleHeld, CallMoves DEF Deliver, End, snapVars
<1>10. CASE ReadForEdit(t)
  <2>1. PICK item \in Items(task[t].kind) :
           Become(t, [task[t] EXCEPT !.pc = "edit", !.view = snap, !.item = item])
    BY <1>10 DEF ReadForEdit
  <2>2. task[t].pc = "idle" /\ task[t].kind \in {"mark", "clear"} /\ UNCHANGED snap
    BY <1>10 DEF ReadForEdit, At, snapVars
  <2>3. HeldOK([task[t] EXCEPT !.pc = "edit", !.view = snap, !.item = item])
    BY <1>2, <2>2 DEF JobOK, Fields, HeldOK, Writing, Fetched, Publishing
  <2> QED
    BY <1>1, <1>2, <2>1, <2>2, <2>3, CallMoves
<1>11. CASE Edit(t)
  <2>1. task[t].pc = "edit" /\ Become(t, Idle(task[t].kind))
    BY <1>11 DEF Edit, At, End
  <2>2. task[t].view \in State
    BY <1>2, <2>1 DEF HeldOK, Writing
  <2>3. \/ snap' = MarkedRead(task[t].view, task[t].item)
        \/ snap' = Cleared(task[t].view) /\ task[t].kind # "mark"
    BY <1>11 DEF Edit
  <2>4. Idle(task[t].kind).pc = "idle"
    BY DEF Idle
  <2>5. task[t].kind \in {"mark", "clear"}
    BY <1>2, <2>1 DEF HeldOK
  <2> QED
    BY <1>1, <1>2, <2>1, <2>2, <2>3, <2>4, <2>5, IdleHeld, MarkedReadOK, ClearedOK, CallWrites
       DEF Writing
<1> QED
  BY <1>3, <1>4, <1>5, <1>6, <1>7, <1>8, <1>9, <1>10, <1>11 DEF Sync

LEMMA InboxStarts == Init => InboxInv
<1> SUFFICES ASSUME Init PROVE InboxInv
  OBVIOUS
<1>1. PICK kinds \in Scenarios : task = [t \in Tasks |-> Idle(kinds[t])]
  BY DEF Init
<1>2. <<>> \in Seq(Entry)
  OBVIOUS
<1>3. snap \in State
  BY <1>2 DEF Init, SnapInit, State
<1>4. published \subseteq Messages
  BY PortalAssumption DEF Init
<1> QED
  BY <1>1, <1>3, <1>4, IdleHeld DEF InboxInv

LEMMA InboxStep == PortalInv /\ InboxInv /\ Next => InboxInv' /\ LeftForCause
<1> SUFFICES ASSUME PortalInv, InboxInv, Next PROVE InboxInv' /\ LeftForCause
  OBVIOUS
<1>1. CASE SwitchAccount \/ Authentication \/ Time
  BY <1>1, OutsideHeld, AuthenticationHeld
<1>2. ASSUME NEW t \in Tasks, Start(t) \/ Connect(t) \/ Abort(t)
      PROVE  InboxInv' /\ LeftForCause
  BY <1>2, PageHeld
<1>3. ASSUME NEW t \in Tasks, Sync(t) \/ Vote(t) \/ Communicate(t)
      PROVE  InboxInv' /\ LeftForCause
  BY <1>3, SyncHeld, VoteHeld, CommunicateHeld
<1> QED
  BY <1>1, <1>2, <1>3 DEF Next

LEMMA InboxStutter == InboxInv /\ UNCHANGED portalVars => InboxInv' /\ LeftForCause
  BY SnapKept DEF InboxInv, portalVars, pageVars, apiVars, snapVars

(* What the Snap stores, what calls have read of it and what they fetched  *)
(* are of their types, and so are the published messages.                  *)
THEOREM InboxInvariant == Spec => []InboxInv
<1>1. PortalInv /\ InboxInv /\ [Next]_portalVars => InboxInv'
  BY InboxStep, InboxStutter
<1> QED
  BY <1>1, InboxStarts, PortalInvariant, PTL DEF Spec

(* A message leaves the Snap at the write of a call that had not read it,  *)
(* of a clear or of another wallet's context, or off the end of a full     *)
(* inbox, never before a message behind it (index.tsx:59): whatever other  *)
(* calls, account switches and synchronisations come between.              *)
THEOREM MessagesLeave == Spec => MessagesLeaveForCause
<1>1. PortalInv /\ InboxInv /\ [Next]_portalVars => LeftForCause
  BY InboxStep, InboxStutter
<1>2. PortalInv /\ InboxInv /\ [Next]_portalVars =>
        [\A m \in Ids(snap) \ Ids(snap)' :
            \E t \in Tasks : Writes(t) /\ MayDrop(t, m)]_portalVars
  BY <1>1 DEF LeftForCause
<1> QED
  BY <1>2, PortalInvariant, InboxInvariant, PTL DEF Spec, MessagesLeaveForCause
=============================================================================
