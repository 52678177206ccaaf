------------------------------ MODULE MCPortal ------------------------------
(* An instance of Portal for TLC: both wallets may vote and bob created    *)
(* the event; message 2 is published later and message 3 is another        *)
(* origin's.  The Snap has room for two of the three others, so that two   *)
(* synchronisations push one out.                                          *)
EXTENDS Portal

CONSTANTS ann, bob, t1, t2, yes, no

MCAudienceOf == <<"ALL_ELIGIBLE", "NOT_VOTED", "SUBSCRIBERS",
                  "ALL_ELIGIBLE", "ALL_ELIGIBLE">>

Pair(first, second) == [t \in Tasks |-> IF t = t1 THEN first ELSE second]

MCScenarios ==
    {Pair("sync", "sync"), Pair("vote", "vote"), Pair("sync", "vote"),
     Pair("vote", "connect"), Pair("sync", "publish"),
     Pair("sync", "subscribe"), Pair("sync", "mark"), Pair("sync", "clear")}

(* No action tells one choice from another.                                *)
MCSymmetry == Permutations(Ballots)
=============================================================================
