--------------------------- MODULE MCDecodeReplay ---------------------------
(***************************************************************************)
(* The same log, replayed by decode_replay.py and run by the engine: when  *)
(* the replay of a static policy has ended, the engine is launched on the  *)
(* log it replayed, with its frozen sets and its micro-batch, and every    *)
(* program reads the file that the run keeps.                              *)
(***************************************************************************)
EXTENDS DecodeReplay, RouteRun

CONSTANTS
    Prompts,        \* prompt lengths
    Spots           \* rows at which a file may be damaged

ASSUME PromptAssumption == Prompts \subseteq 1 .. T

\* The log that is replayed is as long as the run; accept_route.py can tell the
\* calls of a run from each other when there is more than one layer.
ASSUME RunAssumption == Budget = T /\ L > 1

\* The router's order of a row's picks, which is any, and other layers that take
\* the log from its end.
Ranked(row) == SetToSeq(row)
Routing == [l \in Layers |-> [i \in 1 .. T |-> Ranked(ids[IF l = 0 THEN i ELSE T + 1 - i])]]

\* The engine is run on the logs that end in two rows of the first experts; the
\* sets it holds make no difference to the file, which is damaged for one choice.
RunBound == ids[Budget] = 0 .. Picks - 1 /\ ids[Budget - 1] = ids[Budget]
DamageBound == policy[2] = {}

RunOfLog ==
    /\ phase = "replay" /\ t = Budget /\ policy[1] = "P0" /\ RunBound
    /\ \/ \E n \in Prompts : Launch(Routing, [l \in Layers |-> policy[2]], n, ubatch)
       \/ RunCall
       \/ DamageBound /\ \E f \in Faults, i \in Spots : Damage(f, i)

MCInit == Init /\ RunInit
MCNext ==
    \/ Next /\ UNCHANGED runVars
    \/ RunOfLog /\ UNCHANGED vars
MCSpec == MCInit /\ [][MCNext]_<<vars, runVars>>

----------------------------------------------------------------------------

\* The predictors foretell the counters, and so does the harness: with a static policy, whatever the micro-batch,
\* the lease events it counts for the log's layer at a call's first token are
\* the engine's in a run that is all prompt, and its misses are sim_miss.py's.
ReplayPredictsRun ==
    Intact /\ shape.n_gen = 0 =>
        /\ LeasesPredicted
        /\ events["window-start"] = lease_events[0]
        /\ peak["window-start"] <= peak_leased
        /\ L = 2 => 2 * pick_misses["window-start"]
                      = SimMiss(file, resident, Cardinality(policy[2])).misses

\* The log of the same routing at another schedule.
OtherUb == IF shape.ub = 1 THEN 2 ELSE 1
OtherLog ==
    LET Place(r) == <<CallOf(r.token, shape.n_prompt, OtherUb), r.layer, r.token>>
        Earlier(a, b) == \E i \in 1 .. 3 : a[i] < b[i] /\ \A j \in 1 .. i - 1 : a[j] = b[j]
        Row(l, k) == [layer |-> l, token |-> k, ids |-> routing[l][k + 1]]
    IN  SortSeq([n \in 1 .. L * T |-> Row((n - 1) \div T, (n - 1) % T)],
                LAMBDA a, b : Earlier(Place(a), Place(b)))

\* Comparing the logs of two schedules tells routing from emission order: rows
\* out of place make no difference to the three programs, one altered row shows
\* as itself and in its phase, and a row that is missing or there twice leaves
\* neither the multiset nor the emission order equal.
SchedulesCompared ==
    Kept =>
        LET s == AcceptSched(file, OtherLog, shape.n_prompt)
            c == AcceptCross(file, OtherLog, shape.n_prompt)
            r == RouteCompare(file, OtherLog)
            altered == {Key(file[i]) : i \in {j \in 1 .. Len(file) : j <= Len(doc.source)
                                                 /\ file[j] # doc.source[j]}}
        IN  /\ s.canonical <=> s.multiset
            /\ s.canonical => r.canonical /\ s.keys /\ s.diffs = {} /\ c.prefill + c.decode = 0
            /\ fault \in {"none", "swapped"} => s.canonical
            /\ fault \in {"repeated", "rerouted", "no expert"} =>
                 /\ s.diffs \subseteq altered /\ r.diff = s.diffs
                 /\ c.prefill = Cardinality(s.prefill) /\ c.decode = Cardinality(s.decode)
                 /\ s.canonical <=> file = doc.source
            /\ Len(file) # L * T => ~s.multiset /\ ~r.order
            /\ c.identical => r.order /\ s.posdiff = 0

=============================================================================
