------------------------- MODULE MCUniverseCampaign -------------------------
(* A small instance of UniverseCampaign: four sessions would add nothing to   *)
(* two, and the third day is one on which the market is closed.              *)
EXTENDS UniverseCampaign

CONSTANTS p1, p2

Bar(symbol, day) == [code |-> symbol, day |-> day, flaws |-> {}]
Final(rows) == Page(rows, "none")
More(rows) == Page(rows, "k1")
Full(symbol) == <<Bar(symbol, 1), Bar(symbol, 2)>>

MCSessions == {1, 2}
MCSlots == <<<<"a", "b">>, <<"c">>>>
MCPool == <<"c", "b", "a">>
MCVersions == <<"v1", "v2">>

\* One symbol comes in pages, with a gap, a key that comes back and errors;
\* one may repeat a day or bring a bad row for a closed day; one is whole.
MCAnswers ==
    [a |-> {Refused, More(<<Bar("a", 1)>>), Final(<<Bar("a", 2)>>)},
     b |-> {Final(Full("b")), Final(<<Bar("b", 2), Bar("b", 2)>>),
            Final(Full("b") \o <<[Bar("b", 3) EXCEPT !.flaws = {"INVALID_OHLC"}]>>)},
     c |-> {Final(Full("c"))}]
MCCalendars == {[kind |-> "calendar", status |-> "SUCCESS", open |-> {1}]}
\* The record of an earlier fetch may come later in digest order.
MCDigestRank == [n \in 1..(MaxCampaigns * Len(Pool)) |-> IF n % 2 = 0 THEN n - 1 ELSE n + 1]

\* Action constraint: one kind of trouble at a time.  Two campaigns at once,
\* a damaged file, or a new version between two campaigns.  The processes are
\* alike, and starting late is starting early and waiting, so that the second
\* starts with the first or not at all; only one symbol's answers vary then.
\* Files are damaged before they are read, when a manifest's have been read in
\* part, or after a campaign returned.  Of
\* two campaigns the one that is done with the pool waits for the other: it
\* reads what no longer changes and writes files of its own.
Overlapping == \E p \in Processes : Running(p) /\ ~run[p].alone
Done == {p \in Processes : Running(p) /\ run[p].at \in {"freeze", "report", "reread", "verify", "published"}}
OneTrouble ==
    /\ ~Running(p2) /\ run'[p2] # Idle => run[p1].at = "lookup" /\ run[p1].found = <<>>
    /\ started' # started => /\ version' # version => damaged = {}
                             /\ (\E p \in Processes : Running(p)) => damaged = {} /\ version' = 1
    /\ Overlapping \/ version = 2 =>
           \A n \in DOMAIN served :
               served'[n] \ served[n] \subseteq {Final(Full("b")), Final(Full("c"))} \cup MCAnswers["a"]
    /\ Overlapping => \A p \in Processes : Running(p) /\ run'[p] = Idle => outcomes' # outcomes
    /\ Overlapping => \A p \in Done : run'[p] # run[p] => \A q \in Processes : Running(q) => q \in Done /\ (p = p1 \/ q = p)
    /\ damaged' # damaged => /\ version = 1 /\ ~Overlapping /\ \A o \in outcomes : o.alone
                             /\ \/ run[p1].at \in {"record", "report"}
                                \/ run[p1].at = "verify" /\ run[p1].verified \in {0, 5}
                                \/ run[p1] = Idle /\ outcomes # {}
=============================================================================
