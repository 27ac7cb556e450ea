---------------------------- MODULE MCPublicSite ----------------------------
(* PublicSite for TLC: its two parts each by itself. *)
EXTENDS PublicSite, TLC

CONSTANTS s1, s2, f1, i1, b1, r1, x1, c1, n1

MCStartupOf == [r \in {r1} |-> s1]
MCCountryOf == [c \in {c1} |-> n1]
\* The text is a word of one company and one founder; misspelt, of an investor.
MCHits == [mode \in {"fulltext", "trigram"} |-> IF mode = "fulltext" THEN {s1, f1} ELSE {i1, b1}]
\* Every kind of link once, with the round's investor leading it; and a bare directory of drafts.
Linked ==
    {<<"city", s1, c1>>, <<"city", s2, c1>>, <<"industry", s1, x1, TRUE>>,
     <<"industry", s2, x1, FALSE>>, <<"founder", s1, f1, "ceo">>, <<"founder", s1, f1, "cto">>,
     <<"backer", s1, i1, r1, TRUE>>, <<"batch", s1, b1>>, <<"batch", s2, b1>>,
     <<"acquirer", s2, s1, TRUE>>, <<"organizer", b1, i1>>}
Bare == {<<"city", s1, c1>>, <<"city", s2, c1>>}
MCSeeds == {<<"published", Linked>>, <<"draft", Linked>>, <<"draft", Bare>>}

VARIABLE part   \* the one that is used: the other stays in an initial state

SiteInit ==
    /\ part \in {"pages", "cache"} /\ Init /\ Cache!Init
    /\ part = "pages" => watched = List /\ joined = {} /\ \A s \in Company : acquirer[s] = None
    /\ part = "cache" => links = Bare
SiteNext ==
    \/ part = "pages" /\ Next /\ UNCHANGED <<part, cached>>
    \/ part = "cache" /\ Cache!Next /\ UNCHANGED <<part, vars>>
SiteSpec == SiteInit /\ [][SiteNext]_<<part, vars, cached>>

MCSymmetry == Permutations(Tx) \cup Permutations(Company)
=============================================================================
