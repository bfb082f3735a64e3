--------------------------- MODULE MCClaimsCheck ---------------------------
(***************************************************************************)
(* Model checking of ClaimsCheck on a table of one ROW and one CLAIM of    *)
(* the same leg.  CONFIG stands for the ROW keys that no rule but X2 and   *)
(* X9 looks at, WHAT for those of a CLAIM.                                 *)
(***************************************************************************)
EXTENDS ClaimsCheck

V(c, n) == [c |-> c, n |-> n]

RowKeys == {"KIND", "LEG", "CONFIG", "DEVICE", "MODEL", "EXPOSURE_ACCT_RESIDENCY",
            "EXPOSURE_ACCT_HELD", "EXPOSURE_RSS", "THROUGHPUT", "COST", "COST_SPREAD",
            "CAVEAT", "CAVEAT_SOURCE", "COMMIT"}
ClaimKeys == {"KIND", "LEG", "WHAT", "COST", "COST_SPREAD", "CAVEAT", "CAVEAT_SOURCE", "COMMIT"}

\* 24 tokens in 12 seconds; 60 bytes of which 2 + 10 + 8 are held.
TableOfRecord == <<
    Other("comment"),
    KeyLine("KIND", V("ROW", <<>>)), KeyLine("LEG", V("leg-1", <<>>)),
    KeyLine("CONFIG", V("good", <<7>>)),
    KeyLine("DEVICE", V("good", <<8>>)), KeyLine("MODEL", V("good", <<60>>)),
    KeyLine("EXPOSURE_ACCT_RESIDENCY", V("open", <<300>>)), Cont(V("rest", <<60, 20, 2, 10, 8>>)),
    KeyLine("EXPOSURE_ACCT_HELD", V("good", <<300, 60, 20, 2, 10, 8, 0>>)),
    KeyLine("EXPOSURE_RSS", V("good", <<200, 30>>)),
    KeyLine("THROUGHPUT", V("good", <<200, 500, 24, 12>>)),
    KeyLine("COST", V("good", <<179>>)), KeyLine("COST_SPREAD", V("good", <<176, 179, 177>>)),
    KeyLine("CAVEAT", V("long", <<>>)),
    KeyLine("CAVEAT_SOURCE", V("good", <<9>>)), KeyLine("COMMIT", V("off-branch", <<>>)),
    Other("end"), Other("blank"),
    KeyLine("KIND", V("CLAIM", <<>>)), KeyLine("LEG", V("leg-1", <<>>)),
    KeyLine("WHAT", Empty), Cont(V("good", <<5>>)),
    KeyLine("COST", V("good", <<179>>)), KeyLine("COST_SPREAD", V("good", <<179, 177, 176>>)),
    KeyLine("CAVEAT", V("long", <<>>)), KeyLine("CAVEAT_SOURCE", V("good", <<9>>)),
    KeyLine("COMMIT", V("good", <<>>)), Other("end") >>

\* The surface quotes the exposure and the cost.
TheSurface == {300, 179}

Fault(k, c, n, broken) == [k |-> k, v |-> V(c, n), rules |-> broken]
FaultSet == {
    Fault("KIND", "LINE", <<>>, {"X2"}), Fault("CONFIG", "empty", <<>>, {"X2"}),
    Fault("CONFIG", "bare", <<>>, {"X9"}), Fault("WHAT", "bare", <<>>, {"X9"}),
    Fault("MODEL", "bare", <<>>, {"X9"}), Fault("THROUGHPUT", "bare", <<>>, {"X9"}),
    Fault("EXPOSURE_ACCT_RESIDENCY", "bare", <<>>, {"X9", "X5"}),
    Fault("EXPOSURE_ACCT_HELD", "bare", <<>>, {"X9", "X5"}),
    Fault("COST", "bare", <<>>, {"X9", "X4"}), Fault("COST_SPREAD", "bare", <<>>, {"X9", "X4"}),
    Fault("CAVEAT", "mute", <<>>, {"X9", "X3"}), Fault("CAVEAT_SOURCE", "bare", <<>>, {"X9", "X3"}),
    Fault("COMMIT", "bare", <<>>, {"X9", "X10"}), Fault("COMMIT", "unmeasured", <<>>, {"X10"}),
    Fault("CONFIG", "unmeasured", <<>>, {}),
    Fault("DEVICE", "ill", <<>>, {"X7"}), Fault("DEVICE", "unstated", <<8>>, {"X7"}), Fault("CAVEAT", "gap", <<>>, {}),
    Fault("MODEL", "ill", <<60>>, {"X8"}), Fault("MODEL", "good", <<61>>, {"X8"}),
    Fault("EXPOSURE_ACCT_HELD", "unmeasured", <<>>, {"X5"}),
    Fault("EXPOSURE_ACCT_HELD", "good", <<300, 60, 20, 2, 10, 8, 1>>, {"X8"}),
    Fault("EXPOSURE_ACCT_HELD", "good", <<300, 60, 0, 0>>, {"zero"}),
    Fault("EXPOSURE_RSS", "good", <<201, 30>>, {"X8"}), Fault("EXPOSURE_RSS", "good", <<200, 0>>, {"zero"}),
    Fault("THROUGHPUT", "ill", <<>>, {"X6"}), Fault("THROUGHPUT", "regime", <<200, 500, 24, 12>>, {"X6"}),
    Fault("THROUGHPUT", "good", <<200, 501, 24, 12>>, {"X8"}),
    Fault("THROUGHPUT", "good", <<200, 500, 24, 0>>, {"zero"}),
    Fault("COST", "good", <<176>>, {"X4"}), Fault("COST", "BASELINE", <<>>, {"X4"}),
    Fault("COST_SPREAD", "good", <<176, 179>>, {"X4"}), Fault("COST_SPREAD", "good", <<176>>, {"X4"}),
    Fault("LEG", "leg-2", <<>>, {}),
    Fault("CAVEAT", "empty", <<>>, {"X3"}), Fault("CAVEAT", "placeholder", <<>>, {"X3"}), Fault("CAVEAT", "short", <<>>, {"X3"}),
    Fault("CAVEAT_SOURCE", "ill", <<>>, {"X3"}), Fault("COMMIT", "ill", <<>>, {"X10"}) }

=============================================================================
