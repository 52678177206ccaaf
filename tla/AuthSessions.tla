---------------------------- MODULE AuthSessions ----------------------------
(***************************************************************************)
(* Wallet authentication of the API (apps/api/src/auth.js): the tables     *)
(* auth_nonces and sessions, and the transactions of createNonce and       *)
(* verifyNonce, which run concurrently on the database at READ COMMITTED.  *)
(*                                                                         *)
(* A challenge is the number of its row.  A session is named by the        *)
(* challenge that opened it.  A signature is the wallet that signed and    *)
(* the challenge whose message it signed.                                  *)
(***************************************************************************)
EXTENDS Naturals

CONSTANTS
    Wallets,
    None,
    MaxChallenges,  \* bound on rows of auth_nonces
    MaxRepeats      \* bound on verify requests the network delivers twice

ASSUME AuthAssumption ==
    None \notin Wallets /\ MaxChallenges \in Nat \ {0} /\ MaxRepeats \in Nat

Challenges == 1..MaxChallenges

VARIABLES
    issued,    \* for each row the wallet it was issued to, None before
    unused,    \* the rows not used yet
    outdated,  \* the rows past expires_at
    opened,    \* for each row how many sessions it opened
    expired,   \* the sessions past expires_at
    verifying  \* the calls of verifyNonce under way

authVars == <<issued, unused, outdated, opened, expired, verifying>>

(* One call: whose it is, the body it was sent, and the rows its SELECT    *)
(* saw, once it has run.                                                   *)
Call == [of : Wallets, copy : 0..MaxRepeats, signer : Wallets, signed : Challenges,
         seen : (SUBSET Challenges) \cup {None}]

AuthTypeOK ==
    /\ issued \in [Challenges -> Wallets \cup {None}]
    /\ unused \subseteq Challenges /\ outdated \subseteq Challenges
    /\ opened \in [Challenges -> Nat]
    /\ expired \subseteq Challenges
    /\ \A c \in verifying : c \in Call

AuthInit ==
    /\ issued = [id \in Challenges |-> None]
    /\ unused = {} /\ outdated = {}
    /\ opened = [id \in Challenges |-> 0]
    /\ expired = {}
    /\ verifying = {}

-----------------------------------------------------------------------------
(* createNonce: the UPDATE takes the rows it sees out of use, the INSERT   *)
(* adds the next one.  Two calls for one wallet do not see each other's    *)
(* row, and both rows stay in use.                                         *)
RetireChallenges(w) ==
    /\ unused' = {id \in unused : issued[id] # w}
    /\ UNCHANGED <<issued, outdated, opened, expired, verifying>>

(* id is the row the next INSERT adds.                                     *)
NextRow(id) ==
    /\ issued[id] = None
    /\ \A other \in Challenges : issued[other] = None => id <= other

InsertChallenge(w, id) ==
    /\ NextRow(id)
    /\ issued' = [issued EXCEPT ![id] = w]
    /\ unused' = unused \cup {id}
    /\ UNCHANGED <<outdated, opened, expired, verifying>>

(* now() passes expires_at of a row, or of a session.                      *)
ChallengeExpires(id) ==
    /\ id \in unused \ outdated
    /\ outdated' = outdated \cup {id}
    /\ UNCHANGED <<issued, unused, opened, expired, verifying>>

SessionExpires(id) ==
    /\ opened[id] > 0 /\ id \notin expired
    /\ expired' = expired \cup {id}
    /\ UNCHANGED <<issued, unused, outdated, opened, verifying>>

-----------------------------------------------------------------------------
(* verifyNonce.                                                            *)

SendVerify(w, signer, id) ==
    /\ verifying' = verifying \cup
           {[of |-> w, copy |-> 0, signer |-> signer, signed |-> id, seen |-> None]}
    /\ UNCHANGED <<issued, unused, outdated, opened, expired>>

(* The network delivers a POST a second time.                              *)
RepeatVerify(call) ==
    /\ call.copy < MaxRepeats
    /\ \A other \in verifying :
           other.signed = call.signed /\ other.signer = call.signer => other.copy <= call.copy
    /\ verifying' = verifying \cup {[call EXCEPT !.copy = @ + 1, !.seen = None]}
    /\ UNCHANGED <<issued, unused, outdated, opened, expired>>

(* The SELECT: the rows of the statement's snapshot, before it locks one.  *)
SelectChallenges(call) ==
    /\ call.seen = None
    /\ verifying' = (verifying \ {call}) \cup
           {[call EXCEPT !.seen = {id \in unused \ outdated : issued[id] = call.of}]}
    /\ UNCHANGED <<issued, unused, outdated, opened, expired>>

(* Mutant: SELECT without FOR UPDATE returns what the snapshot held.       *)
LockedNothing(call) == call.seen

(* FOR UPDATE: a row another transaction used while this one waited for    *)
(* its lock no longer qualifies, and the next one is tried.  Time is that  *)
(* of the transaction: a row does not expire under it.                     *)
Locked(call) == call.seen \cap unused

(* ORDER BY created_at DESC LIMIT 1: the signature is checked against the  *)
(* newest row.                                                             *)
Accepts(call) ==
    /\ call.signed \in Locked(call)
    /\ \A id \in Locked(call) : id <= call.signed
    /\ call.signer = call.of

(* The rest of the transaction runs under the row's lock, up to the        *)
(* COMMIT: the signature is checked against the row's message, the row is  *)
(* used and the session inserted, or nothing is written.                   *)
Decide(call) ==
    /\ call.seen # None
    /\ verifying' = verifying \ {call}
    /\ IF Accepts(call)
       THEN /\ unused' = unused \ {call.signed}
            /\ opened' = [opened EXCEPT ![call.signed] = @ + 1]
       ELSE UNCHANGED <<unused, opened>>
    /\ UNCHANGED <<issued, outdated, expired>>

(* optionalAuth: the wallet a token stands for, None when no session is    *)
(* open under it.                                                          *)
WalletOf(token) ==
    IF token = None \/ token \in expired THEN None ELSE issued[token]
=============================================================================
