---------------------------- MODULE MCEngineWalk ----------------------------
(***************************************************************************)
(* Model checking of EngineWalk, and its agreement with the layer-major    *)
(* simulators: what engine_walk_check.py's main checks at the end of one   *)
(* walk over one log (AGREE=PASS), checked after every step of every log.  *)
(***************************************************************************)
EXTENDS EngineWalk

\* Of the logs of the second layer, those that follow the first at a distance.
Shift(row, s) == {(e + s) % E : e \in row}
SecondFollows ==
    \E s \in 0 .. 1 : \A i \in 1 .. Len(log'[1]) : log'[1][i] = Shift(log'[0][i], s)

\* The counters that engine_walk_check.py compares are those the committed
\* simulator computes for the rows read so far, summed over the layers; and the
\* engine's trace, in graph order, holds the lines sim_trace.py writes for the
\* same rows in layer order: the same decision at every boundary.
AgreesWithSimulator ==
    /\ misses = Total([l \in Layers |-> SimP2(log[l]).misses])
    /\ churn = Total([l \in Layers |-> SimP2(log[l]).churn])
    /\ picks = Total([l \in Layers |-> Picks * Len(log[l])])
    /\ lines = UNION {{<<l, line[1], line[2]>> : line \in TraceP2(log[l], MaxToken).lines} :
                           l \in Layers}

=============================================================================
