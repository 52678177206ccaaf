------------------------------- MODULE Portal -------------------------------
(***************************************************************************)
(* One page of the web application with MetaMask, the Snap and the API:    *)
(* wallet.jsx, api.js, snap.js and the asynchronous handlers of App.jsx,   *)
(* over AuthSessions (auth.js) and SnapInbox (index.tsx), with the ballot  *)
(* and communication routes of the API (votes.js, communications.js).      *)
(*                                                                         *)
(* A task is one call of a handler.  It captures the account of the render *)
(* it came from, and every await is a place where other tasks run and the  *)
(* user may switch accounts in MetaMask.  Code between two awaits is one   *)
(* step: a request carries the session stored when the step before it      *)
(* ended, and an answer and what the page does with it are one step.       *)
(***************************************************************************)
EXTENDS AuthSessions, Sequences, SequencesExt, FiniteSetsExt

CONSTANTS
    Messages,      \* numbered by published_at
    OffOrigin,     \* messages published from another approved origin
    Expiring,      \* messages that may reach expires_at
    Published,     \* messages published before the page opens
    AudienceOf,    \* the audience of each message
    DeliveryMode,  \* snap_delivery_mode of the event
    Eligible,      \* wallets with a whole vote in the record-date snapshot
    Creator,       \* the creator of the event
    Ballots,       \* choices a voter may make
    MaxStored,     \* MAX_STORED_MESSAGES of the Snap
    Tasks,
    Scenarios,     \* the handlers the page's tasks may be calls of
    MaxStarts,     \* bound on calls
    MaxIncidents   \* bound on account switches, expiries and repeated requests

ASSUME PortalAssumption ==
    /\ Messages \subseteq Nat /\ IsFiniteSet(Messages)
    /\ OffOrigin \cup Expiring \cup Published \subseteq Messages
    /\ Eligible \cup {Creator} \subseteq Wallets
    /\ MaxStored \in Nat \ {0} /\ MaxStarts \in Nat /\ MaxIncidents \in Nat

VARIABLES
    account,     \* the account selected in MetaMask, None when disconnected
    stored,      \* the session in sessionStorage
    task,        \* the calls under way
    votes,       \* the votes rows of the event
    published,   \* the communications rows
    lapsed,      \* the messages past expires_at
    subscribed,  \* wallets with an ACTIVE subscription to the token
    delivered,   \* the communication_deliveries rows
    snap,        \* the state of the Snap
    ingested,    \* the messages the Snap has ever taken in
    starts, incidents

pageVars == <<account, stored, task, starts, incidents>>
apiVars == <<votes, published, lapsed, subscribed, delivered>>
snapVars == <<snap, ingested>>
portalVars == <<pageVars, apiVars, snapVars, authVars>>

INSTANCE SnapInbox WITH Owners <- Wallets, NoOwner <- None

NoVote == [choice |-> None, voter |-> None, signer |-> None]

(* The place a handler goes on from once ensureAuthenticated has returned. *)
First == [connect |-> "idle", sync |-> "look", vote |-> "prepare",
          publish |-> "payload", subscribe |-> "upsert"]

Items(kind) ==
    CASE kind = "vote" -> Ballots
      [] kind = "publish" -> Messages \ OffOrigin
      [] kind = "mark" -> Messages
      [] kind = "subscribe" -> BOOLEAN
      [] OTHER -> {None}

Idle(kind) ==
    [kind |-> kind, pc |-> "idle", then |-> "idle", account |-> None, item |-> None,
     challenge |-> None, signer |-> None, token |-> None, voter |-> None,
     batch |-> <<>>, view |-> None]

PortalTypeOK ==
    /\ AuthTypeOK
    /\ account \in Wallets \cup {None}
    /\ stored \in Challenges \cup {None}
    /\ \A t \in Tasks :
           /\ task[t].account \in Wallets \cup {None}
           /\ task[t].challenge \in Challenges \cup {None}
           /\ task[t].token \in Challenges \cup {None}

Init ==
    /\ AuthInit
    /\ SnapInit
    /\ account \in Wallets
    /\ stored = None
    /\ \E kinds \in Scenarios : task = [t \in Tasks |-> Idle(kinds[t])]
    /\ votes = [w \in Wallets |-> NoVote]
    /\ published = Published
    /\ lapsed = {} /\ subscribed = {} /\ delivered = {} /\ ingested = {}
    /\ starts = 0 /\ incidents = 0

-----------------------------------------------------------------------------
(* The page.                                                               *)

At(t, pc) == task[t].pc = pc
Become(t, job) == task' = [task EXCEPT ![t] = job]
End(t) == Become(t, Idle(task[t].kind))

(* getStoredSession drops an expired session.                              *)
Session == IF stored \in expired THEN None ELSE stored

(* A request of api() is sent with the session stored now.                 *)
Sent(job, pc) == [job EXCEPT !.pc = pc, !.token = Session]

SessionIsFor(w) == Session # None /\ issued[Session] = w

(* ensureAuthenticated: the stored session if it is the captured account's,*)
(* else authenticate first.  The request that follows goes out at once.    *)
Ensured(job, pc) ==
    IF SessionIsFor(job.account)
    THEN Sent(job, pc)
    ELSE [job EXCEPT !.pc = "challenge", !.then = pc]

Incident ==
    /\ incidents < MaxIncidents
    /\ incidents' = incidents + 1
    /\ UNCHANGED <<account, stored, task, starts>>

(* The handleAccounts listener: the session of another wallet goes.        *)
KeptFor(w) == IF w # None /\ SessionIsFor(w) THEN stored ELSE None

SwitchAccount ==
    /\ incidents < MaxIncidents
    /\ \E w \in (Wallets \cup {None}) \ {account} :
           /\ account' = w
           /\ stored' = KeptFor(w)
    /\ incidents' = incidents + 1
    /\ UNCHANGED <<task, starts, apiVars, snapVars, authVars>>

(* A page handler, the bridge's timer or the sync button.                  *)
Start(t) ==
    /\ At(t, "idle")
    /\ task[t].kind \in DOMAIN First \ {"connect"}
    /\ account # None
    /\ starts < MaxStarts
    /\ \E item \in Items(task[t].kind) :
           Become(t, Ensured([task[t] EXCEPT !.account = account, !.item = item],
                             First[task[t].kind]))
    /\ starts' = starts + 1
    /\ UNCHANGED <<account, stored, incidents, apiVars, snapVars, authVars>>

(* connect: MetaMask gives the connected account or the one the user picks.*)
Connect(t) ==
    /\ At(t, "idle")
    /\ task[t].kind = "connect"
    /\ starts < MaxStarts
    /\ \E w \in Wallets :
           /\ account \in {w, None}
           /\ account' = w
           /\ Become(t, IF SessionIsFor(w) THEN task[t]
                        ELSE [task[t] EXCEPT !.account = w, !.pc = "challenge"])
    /\ starts' = starts + 1
    /\ UNCHANGED <<stored, incidents, apiVars, snapVars, authVars>>

(* The user refuses, a request fails or is refused, the Snap throws.       *)
Abort(t) ==
    /\ ~At(t, "idle")
    /\ End(t)
    /\ UNCHANGED <<account, stored, starts, incidents, apiVars, snapVars, authVars>>

-----------------------------------------------------------------------------
(* authenticate.                                                           *)

LoginOnly == UNCHANGED <<account, stored, starts, incidents, apiVars, snapVars>>

Retire(t) ==
    /\ At(t, "challenge")
    /\ RetireChallenges(task[t].account)
    /\ Become(t, [task[t] EXCEPT !.pc = "row"])
    /\ LoginOnly

Challenge(t) ==
    /\ At(t, "row")
    /\ \E id \in Challenges :
          /\ InsertChallenge(task[t].account, id)
          /\ Become(t, [task[t] EXCEPT !.pc = "sign", !.challenge = id])
    /\ LoginOnly

(* getSigner().signMessage: MetaMask signs with the account selected now.  *)
Sign(t) ==
    /\ At(t, "sign")
    /\ account # None
    /\ SendVerify(task[t].account, account, task[t].challenge)
    /\ Become(t, [task[t] EXCEPT !.pc = "answer"])
    /\ LoginOnly

Awaits(t, call) == At(t, "answer") /\ task[t].challenge = call.signed

(* The answer of verifyNonce: whichever account is selected by now, the    *)
(* session is stored and the handler goes on with it.                      *)
Answer(call) ==
    /\ Decide(call)
    /\ IF Accepts(call) /\ \E t \in Tasks : Awaits(t, call)
       THEN stored' = call.signed
       ELSE UNCHANGED stored
    /\ task' = [t \in Tasks |->
           CASE ~Awaits(t, call) -> task[t]
             [] Awaits(t, call) /\ (~Accepts(call) \/ task[t].then = "idle") ->
                    Idle(task[t].kind)
             [] OTHER -> [task[t] EXCEPT !.pc = task[t].then, !.token = call.signed,
                                         !.challenge = None]]
    /\ UNCHANGED <<account, starts, incidents, apiVars, snapVars>>

Authentication ==
    \/ \E t \in Tasks : Retire(t) \/ Challenge(t) \/ Sign(t)
    \/ \E call \in verifying :
           \/ Answer(call)
           \/ SelectChallenges(call) /\ UNCHANGED <<pageVars, apiVars, snapVars>>
           \/ RepeatVerify(call) /\ Incident /\ UNCHANGED <<apiVars, snapVars>>

-----------------------------------------------------------------------------
(* syncSnapInbox.                                                          *)

TaskOnly == UNCHANGED <<account, stored, starts, incidents, authVars>>

(* wallet_getSnaps has answered; the inbox is asked for.                   *)
LookForSnap(t) ==
    /\ At(t, "look")
    /\ Become(t, Sent(task[t], "fetch"))
    /\ TaskOnly /\ UNCHANGED <<apiVars, snapVars>>

(* communicationInbox: who a message is for.                               *)
Addressed(m, w) ==
    /\ \/ DeliveryMode = "ELIGIBLE"
       \/ DeliveryMode = "SUBSCRIBERS_ONLY" /\ w \in subscribed
    /\ \/ AudienceOf[m] = "ALL_ELIGIBLE" /\ w \in Eligible
       \/ AudienceOf[m] = "NOT_VOTED" /\ w \in Eligible /\ votes[w] = NoVote
       \/ AudienceOf[m] = "SUBSCRIBERS" /\ w \in subscribed

(* Newest first.                                                           *)
Inbox(w) ==
    LET open == {m \in published \ lapsed : <<m, w>> \notin delivered /\ Addressed(m, w)}
        n == Cardinality(open)
    IN  [i \in 1..n |-> Nth(open, n + 1 - i)]

(* Mutant: what was fetched is acknowledged before the Snap has it.        *)
FetchAndAcknowledge(t) ==
    /\ At(t, "fetch")
    /\ WalletOf(task[t].token) # None
    /\ Become(t, Sent([task[t] EXCEPT !.batch = Inbox(WalletOf(task[t].token))], "deliver"))
    /\ TaskOnly /\ UNCHANGED <<apiVars, snapVars>>

FetchInbox(t) ==
    /\ At(t, "fetch")
    /\ WalletOf(task[t].token) # None
    /\ Become(t, [task[t] EXCEPT !.pc = "context", !.token = None,
                                 !.batch = Inbox(WalletOf(task[t].token))])
    /\ TaskOnly /\ UNCHANGED <<apiVars, snapVars>>

(* The first half of each RPC call: the Snap reads its state.  An ingest   *)
(* that finds no context, or a message that does not verify, throws.       *)
ReadForContext(t) ==
    /\ At(t, "context")
    /\ Become(t, [task[t] EXCEPT !.pc = "setContext", !.view = snap])
    /\ TaskOnly /\ UNCHANGED <<apiVars, snapVars>>

ReadForIngest(t) ==
    /\ At(t, "ingest")
    /\ snap.context # None
    /\ Verifies(task[t].batch, lapsed)
    /\ Become(t, [task[t] EXCEPT !.pc = "store", !.view = snap])
    /\ TaskOnly /\ UNCHANGED <<apiVars, snapVars>>

ReadForEdit(t) ==
    /\ At(t, "idle")
    /\ task[t].kind \in {"mark", "clear"}
    /\ starts < MaxStarts
    /\ \E item \in Items(task[t].kind) :
           Become(t, [task[t] EXCEPT !.pc = "edit", !.view = snap, !.item = item])
    /\ starts' = starts + 1
    /\ UNCHANGED <<account, stored, incidents, apiVars, snapVars, authVars>>

SetContext(t) ==
    /\ At(t, "setContext")
    /\ snap' = WithContext(task[t].view, task[t].account)
    /\ Become(t, [task[t] EXCEPT !.pc = "ingest", !.view = None])
    /\ TaskOnly /\ UNCHANGED <<ingested, apiVars>>

(* All the messages of the batch are acknowledged, the known ones too.     *)
Ingest(t) ==
    /\ At(t, "store")
    /\ snap' = Ingested(task[t].view, task[t].batch)
    /\ ingested' = ingested \cup Range(task[t].batch)
    /\ IF task[t].batch = <<>>
       THEN End(t)
       ELSE Become(t, Sent([task[t] EXCEPT !.view = None], "deliver"))
    /\ TaskOnly /\ UNCHANGED apiVars

(* markCommunicationsDelivered, for the session of this request.           *)
Deliver(t) ==
    /\ At(t, "deliver")
    /\ WalletOf(task[t].token) # None
    /\ delivered' = delivered \cup (Range(task[t].batch) \X {WalletOf(task[t].token)})
    /\ End(t)
    /\ TaskOnly /\ UNCHANGED <<votes, published, lapsed, subscribed, snapVars>>

(* markAsRead and clearInbox, which a page of the origin may call.         *)
Edit(t) ==
    /\ At(t, "edit")
    /\ snap' = IF task[t].kind = "mark" THEN MarkedRead(task[t].view, task[t].item)
                                        ELSE Cleared(task[t].view)
    /\ End(t)
    /\ TaskOnly /\ UNCHANGED <<ingested, apiVars>>

Sync(t) ==
    \/ LookForSnap(t) \/ FetchInbox(t)
    \/ ReadForContext(t) \/ SetContext(t)
    \/ ReadForIngest(t) \/ Ingest(t) \/ Deliver(t)
    \/ ReadForEdit(t) \/ Edit(t)

-----------------------------------------------------------------------------
(* VotePage.submit.                                                        *)

(* prepareBallot, called by both routes; the event's window is open.       *)
MayVote(w) == w \in Eligible /\ votes[w] = NoVote

(* POST ballot answers with the typed data for the session's wallet; then  *)
(* wallet.getSigner() authenticates again if it has to.                    *)
PrepareBallot(t) ==
    /\ At(t, "prepare")
    /\ MayVote(WalletOf(task[t].token))
    /\ Become(t, Ensured([task[t] EXCEPT !.voter = WalletOf(task[t].token)], "ballot"))
    /\ TaskOnly /\ UNCHANGED <<apiVars, snapVars>>

(* signTypedData with the account selected now; the POST follows at once.  *)
SignBallot(t) ==
    /\ At(t, "ballot")
    /\ account # None
    /\ Become(t, Sent([task[t] EXCEPT !.signer = account], "submit"))
    /\ TaskOnly /\ UNCHANGED <<apiVars, snapVars>>

(* Mutant: the signature is checked against the ballot it was made for.    *)
SignedByVoter(job, w) == job.voter = job.signer

(* submitBallot prepares the ballot anew for the session's wallet, and the *)
(* signature has to be that wallet's over that ballot.                     *)
SignedBy(job, w) == job.voter = w /\ job.signer = w

CheckBallot(t) ==
    /\ At(t, "submit")
    /\ MayVote(WalletOf(task[t].token))
    /\ SignedBy(task[t], WalletOf(task[t].token))
    /\ Become(t, [task[t] EXCEPT !.pc = "record"])
    /\ TaskOnly /\ UNCHANGED <<apiVars, snapVars>>

(* The request was let in for this wallet, whatever became of its session. *)
Caller(t) == issued[task[t].token]

BallotRow(t) == [choice |-> task[t].item, voter |-> task[t].voter, signer |-> task[t].signer]
Recorded(t) == [votes EXCEPT ![Caller(t)] = BallotRow(t)]

(* Mutant: the transaction trusts the check made before it.                *)
OverwriteBallot(t) ==
    /\ At(t, "record")
    /\ votes' = Recorded(t)
    /\ End(t)
    /\ TaskOnly /\ UNCHANGED <<published, lapsed, subscribed, delivered, snapVars>>

(* The transaction, under the ballot's advisory lock: an existing row is   *)
(* final.                                                                  *)
RecordBallot(t) ==
    /\ At(t, "record")
    /\ votes' = IF votes[Caller(t)] = NoVote THEN Recorded(t) ELSE votes
    /\ End(t)
    /\ TaskOnly /\ UNCHANGED <<published, lapsed, subscribed, delivered, snapVars>>

Vote(t) == PrepareBallot(t) \/ SignBallot(t) \/ CheckBallot(t) \/ RecordBallot(t)

-----------------------------------------------------------------------------
(* ManagePage.publish and CommunicationsPage.subscribe.                    *)

(* assertEventCreator and assertCommunicationAllowed, of both routes.      *)
MayPublish(w) == w = Creator /\ DeliveryMode # "DISABLED"

Audience(m) == DeliveryMode = "SUBSCRIBERS_ONLY" => AudienceOf[m] = "SUBSCRIBERS"

PrepareMessage(t) ==
    /\ At(t, "payload")
    /\ MayPublish(WalletOf(task[t].token)) /\ Audience(task[t].item)
    /\ Become(t, Ensured(task[t], "letter"))
    /\ TaskOnly /\ UNCHANGED <<apiVars, snapVars>>

SignMessage(t) ==
    /\ At(t, "letter")
    /\ account # None
    /\ Become(t, Sent([task[t] EXCEPT !.signer = account], "publish"))
    /\ TaskOnly /\ UNCHANGED <<apiVars, snapVars>>

(* publishCommunication; message_id is unique.                             *)
PublishMessage(t) ==
    /\ At(t, "publish")
    /\ MayPublish(WalletOf(task[t].token)) /\ Audience(task[t].item)
    /\ task[t].signer = Creator
    /\ task[t].item \notin published
    /\ published' = published \cup {task[t].item}
    /\ End(t)
    /\ TaskOnly /\ UNCHANGED <<votes, lapsed, subscribed, delivered, snapVars>>

(* upsertSubscription for the session's wallet.                            *)
Subscribe(t) ==
    /\ At(t, "upsert")
    /\ WalletOf(task[t].token) # None
    /\ subscribed' = IF task[t].item THEN subscribed \cup {WalletOf(task[t].token)}
                                     ELSE subscribed \ {WalletOf(task[t].token)}
    /\ End(t)
    /\ TaskOnly /\ UNCHANGED <<votes, published, lapsed, delivered, snapVars>>

Communicate(t) == PrepareMessage(t) \/ SignMessage(t) \/ PublishMessage(t) \/ Subscribe(t)

-----------------------------------------------------------------------------
(* now() passes an expires_at.                                             *)
Time ==
    /\ Incident
    /\ \/ /\ \E id \in Challenges : ChallengeExpires(id) \/ SessionExpires(id)
          /\ UNCHANGED <<apiVars, snapVars>>
       \/ \E m \in Expiring \ lapsed :
             /\ lapsed' = lapsed \cup {m}
             /\ UNCHANGED <<votes, published, subscribed, delivered, snapVars, authVars>>

Next ==
    \/ SwitchAccount \/ Authentication \/ Time
    \/ \E t \in Tasks :
          Start(t) \/ Connect(t) \/ Abort(t) \/ Sync(t) \/ Vote(t) \/ Communicate(t)

Spec == Init /\ [][Next]_portalVars

-----------------------------------------------------------------------------
(* A challenge opens at most one session, though two verifications of it   *)
(* may be under way and each read it before either used it (auth.js:45).   *)
ChallengeOpensOneSession == \A id \in Challenges : opened[id] <= 1

(* A recorded ballot was prepared for and signed by the wallet it counts   *)
(* for, whichever accounts were selected and whichever sessions were       *)
(* stored between preparing, signing and submitting it (votes.js:139).     *)
BallotBySigner ==
    \A w \in Wallets : votes[w] # NoVote => votes[w].voter = w /\ votes[w].signer = w

(* The first ballot recorded for a wallet stands, though another was       *)
(* checked before it was recorded (votes.js:158).                          *)
FirstBallotStands ==
    [][\A w \in Wallets : votes[w] # NoVote => votes'[w] = votes[w]]_portalVars

(* Only a message the Snap has verified and taken in is acknowledged: one  *)
(* that the Snap refused, or that was fetched by a call that failed, is    *)
(* offered again (snap.js:72).                                             *)
DeliveredWasIngested == \A row \in delivered : row[1] \in ingested

(* A call that writes the state of the Snap now.                           *)
Writes(t) == task[t].pc \in {"setContext", "store", "edit"} /\ task'[t].pc # task[t].pc

(* Message n stands in front of message m.                                 *)
InFront(state, n, m) ==
    \E i, j \in DOMAIN state.messages :
        i < j /\ state.messages[i].id = n /\ state.messages[j].id = m

(* An ingest that fills the inbox drops a message its call had read when   *)
(* every message that stays is new or stood in front of it.                *)
FallsOff(view, m) ==
    /\ Len(snap'.messages) = MaxStored
    /\ \A n \in Ids(snap)' : n \notin Ids(view) \/ InFront(view, n, m)

(* Why the write of a call may leave out message m.                        *)
MayDrop(t, m) ==
    \/ m \notin Ids(task[t].view)
    \/ task[t].kind = "clear"
    \/ snap'.context # task[t].view.context
    \/ task[t].pc = "store" /\ FallsOff(task[t].view, m)

(* A message leaves the Snap at the write of a call that had not read it,  *)
(* another call having stored it since; or when the call clears the inbox  *)
(* or sets another wallet's context; or off the end of a full inbox, never *)
(* before a message behind it (index.tsx:59).                              *)
MessagesLeaveForCause ==
    [][\A m \in Ids(snap) \ Ids(snap)' :
          \E t \in Tasks : Writes(t) /\ MayDrop(t, m)]_portalVars
=============================================================================
