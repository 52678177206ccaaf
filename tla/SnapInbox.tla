----------------------------- MODULE SnapInbox -----------------------------
(***************************************************************************)
(* The Snap (apps/snap/src/index.tsx): one state, which every request      *)
(* reads whole, changes and writes back whole.  The read and the write are *)
(* two requests to MetaMask, so that two RPC calls can interleave between  *)
(* them; a call works on the state it read, its view.                      *)
(***************************************************************************)
EXTENDS Naturals, Sequences, SequencesExt

CONSTANTS
    Owners,     \* the wallets a context can name
    NoOwner,    \* the context before the first one is set
    Messages,
    OffOrigin,  \* messages whose action URL lies outside the calling page's origin
    MaxStored   \* MAX_STORED_MESSAGES

VARIABLE snap  \* the wallet context, and the messages with their read marks

SnapInit == snap = [context |-> NoOwner, messages |-> <<>>]

Ids(state) == {entry.id : entry \in Range(state.messages)}

(* setWalletContext: another wallet's messages go.                         *)
WithContext(view, w) ==
    [context  |-> w,
     messages |-> IF view.context \in {NoOwner, w} THEN view.messages ELSE <<>>]

(* normalizeAndVerifyMessage throws for one message, and with it the whole *)
(* call fails: the action URL is another origin's, or it has expired.      *)
Verifies(batch, lapsed) ==
    \A m \in Range(batch) : m \notin OffOrigin /\ m \notin lapsed

(* The k-th of a set of numbers.                                           *)
Nth(S, k) == CHOOSE n \in S : Cardinality({m \in S : m < n}) = k - 1

(* Mutant: the unknown messages go behind, and the newest ones fall off.   *)
IngestedBehind(view, batch) ==
    LET unknown == {i \in DOMAIN batch : batch[i] \notin Ids(view)}
        fresh == [k \in 1..Cardinality(unknown) |->
                     [id |-> batch[Nth(unknown, k)], read |-> FALSE]]
        all == view.messages \o fresh
    IN  [view EXCEPT !.messages =
            IF Len(all) < MaxStored THEN all
            ELSE SubSeq(all, Len(all) - MaxStored + 1, Len(all))]

(* ingestCommunications: the unknown messages go in front, unread, and the *)
(* oldest ones fall off the end.                                           *)
Ingested(view, batch) ==
    LET unknown == {i \in DOMAIN batch : batch[i] \notin Ids(view)}
        fresh == [k \in 1..Cardinality(unknown) |->
                     [id |-> batch[Nth(unknown, k)], read |-> FALSE]]
        all == fresh \o view.messages
    IN  [view EXCEPT !.messages =
            SubSeq(all, 1, IF Len(all) < MaxStored THEN Len(all) ELSE MaxStored)]

(* markAsRead and clearInbox.                                              *)
MarkedRead(view, m) ==
    [view EXCEPT !.messages =
        [i \in DOMAIN @ |-> IF @[i].id = m THEN [@[i] EXCEPT !.read = TRUE] ELSE @[i]]]

Cleared(view) == [view EXCEPT !.messages = <<>>]
=============================================================================
