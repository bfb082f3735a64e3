---------------------------- MODULE ClaimsCheck ----------------------------
(***************************************************************************)
(* claims_check.py: the checker of the release claims table.  It is a      *)
(* function of the bytes of the table and of the surfaces generated from   *)
(* it; around it an author edits the table.                                *)
(*                                                                         *)
(* A line is what the parser tells apart: a KEY line, a continuation, a    *)
(* terminator, a blank line, a comment, or none of these.  A value is the  *)
(* class that the regular expressions put it in, with its numbers: "good"  *)
(* matches the pattern of its key, "ill" does not, "bare" and "unmeasured" *)
(* start with UNMEASURED (without and with a reason; "mute" is the bare    *)
(* token as a caveat, too short for one), "open" is a value that the next  *)
(* line goes on.                                                           *)
(***************************************************************************)
EXTENDS Integers, Sequences, FiniteSets, SequencesExt, FiniteSetsExt

CONSTANTS
    ROW_KEYS, CLAIM_KEYS,
    Table,          \* the table of record: a sequence of lines
    Surface,        \* the numbers of the surface generated from it
    Faults,         \* edits of a value: records [k, v, rules], the rules that v breaks
    MaxEdits        \* bound of the model

VARIABLES
    text, bytes,    \* the lines of the table; what check_bytes finds in it
    edits,          \* the edits so far: the rules that each breaks, or {"layout"}
    outcome,        \* of the check: "none", "ACCEPTED", "REFUSED", "raised"
    rules           \* the rules its refusals name

vars == <<text, bytes, edits, outcome, rules>>

Empty == [c |-> "empty", n |-> <<>>]
KeyLine(k, v) == [t |-> "key", k |-> k, v |-> v]
Other(t) == [t |-> t, k |-> "", v |-> Empty]
Cont(v) == [t |-> "cont", k |-> "", v |-> v]

----------------------------------------------------------------------------
(* parse_blocks.                                                           *)

\* Folding: the next piece of a value.
Join(v, w) ==
    IF v.c = "empty" THEN w
    ELSE [c |-> CASE v.c = "open" /\ w.c = "rest" -> "good"
                  [] v.c \in {"bare", "mute", "unmeasured"} -> "bare"
                  [] v.c \in {"placeholder", "short", "long", "gap"} ->
                        IF "gap" \in {v.c, w.c} THEN "gap" ELSE "long"
                  [] OTHER -> "ill",
          n |-> v.n \o w.n]

\* blk: the keys of the open block with their values; last: lastkey, or "".
NoBlock == [open |-> FALSE, blk |-> <<>>, last |-> ""]
Start == [at |-> NoBlock, blocks |-> <<>>, rules |-> {}]

With(f, k, v) == [x \in DOMAIN f \cup {k} |-> IF x = k THEN v ELSE f[x]]

ParseLine(s, line) ==
    LET refused == [s EXCEPT !.rules = @ \cup {"X1"}, !.at.open = TRUE]
    IN CASE ~s.at.open /\ line.t \in {"blank", "comment"} -> s
         [] ~s.at.open /\ line.t = "end" -> [s EXCEPT !.rules = @ \cup {"X1"}]
         [] s.at.open /\ line.t = "end" ->
              [s EXCEPT !.blocks = Append(@, s.at.blk), !.at = NoBlock]
         [] line.t = "key" ->
              [s EXCEPT !.at = [open |-> TRUE, blk |-> With(@.blk, line.k, line.v), last |-> line.k],
                        !.rules = @ \cup (IF line.k \in DOMAIN s.at.blk THEN {"X1"} ELSE {})]
         [] line.t = "cont" /\ s.at.last # "" ->
              [s EXCEPT !.at.blk[s.at.last] = Join(@, line.v)]
         [] OTHER -> refused

AtEnd(lines) ==
    LET after[i \in 0 .. Len(lines)] ==
            IF i = 0 THEN Start ELSE ParseLine(after[i - 1], lines[i])
    IN after[Len(lines)]

\* Slip: a block that the file ends in is dropped silently.
ParseOpenEnd(lines) == AtEnd(lines)

Parse(lines) ==
    LET s == AtEnd(lines)
    IN [s EXCEPT !.rules = @ \cup (IF s.at.open THEN {"X1"} ELSE {})]

----------------------------------------------------------------------------
(* check_block: the rules of one block.                                    *)

Val(b, k) == IF k \in DOMAIN b THEN b[k] ELSE Empty
Class(b, k) == Val(b, k).c
IsUnmeasured(v) == v.c \in {"bare", "mute", "unmeasured"}
IsNumber(v) == v.c # "empty" /\ ~IsUnmeasured(v)

Required(b) == IF Class(b, "KIND") = "ROW" THEN ROW_KEYS ELSE CLAIM_KEYS

When(cond, rule) == IF cond THEN {rule} ELSE {}

\* Slip: the caveat counts as a field like the others.
CompletenessOfAll(b) ==
    When(\/ \E k \in Required(b) : Class(b, k) = "empty"
         \/ ~ DOMAIN b \subseteq Required(b), "X2")

\* An empty caveat is a matter of X3 alone.
Completeness(b) ==
    When(\/ ~ Required(b) \subseteq DOMAIN b
         \/ \E k \in Required(b) \ {"CAVEAT"} : Class(b, k) = "empty"
         \/ ~ DOMAIN b \subseteq Required(b), "X2")

Caveat(b) ==
    When(\/ Class(b, "CAVEAT") \in {"empty", "placeholder", "short", "mute"}
         \/ Class(b, "CAVEAT_SOURCE") \notin {"empty", "good"}, "X3")

Citation(b) == When(Class(b, "COMMIT") \notin {"empty", "good", "off-branch"}, "X10")

Unmeasured(b) == When(\E k \in Required(b) : Class(b, k) \in {"bare", "mute"}, "X9")

\* A quotient as it is stated, in units of its last decimal place.
Rounded(a, b) == (2 * a + b) \div (2 * b)

Device(b) ==
    When(\/ IsNumber(Val(b, "DEVICE")) /\ Class(b, "DEVICE") \notin {"good", "unstated"}
         \/ Class(b, "DEVICE") = "unstated" /\ Class(b, "CAVEAT") # "gap", "X7")

\* good: <<tok/s, ms per token, tokens, wall clock>>; "regime": it names no known regime.
Label(b) == When(IsNumber(Val(b, "THROUGHPUT")) /\ Class(b, "THROUGHPUT") # "good", "X6")
Throughput(b) ==
    LET v == Val(b, "THROUGHPUT")
    IN When(/\ v.c \in {"good", "regime"}
            /\ \/ v.n[1] # Rounded(100 * v.n[3], v.n[4])
               \/ v.n[2] # Rounded(1000 * v.n[4], v.n[3]), "X8")

\* MODEL good: <<bytes>>; EXPOSURE_RSS good: <<exposure, peak>>.
RssQuotient(b) ==
    LET model == Val(b, "MODEL")
        rss == Val(b, "EXPOSURE_RSS")
    IN When(\/ IsNumber(model) /\ model.c # "good"
            \/ IsNumber(rss) /\ rss.c # "good"
            \/ /\ rss.c = "good" /\ model.c = "good"
               /\ rss.n[1] # Rounded(100 * model.n[1], rss.n[2]), "X8")

ACCT == {"EXPOSURE_ACCT_RESIDENCY", "EXPOSURE_ACCT_HELD"}
Pairing(b) ==
    When(IsNumber(Val(b, "EXPOSURE_ACCT_RESIDENCY")) # IsNumber(Val(b, "EXPOSURE_ACCT_HELD")), "X5")

\* good: <<exposure, N, denominator>> and the terms of the denominator.
SumOf(s) == FoldLeft(LAMBDA x, y : x + y, 0, s)
AcctQuotient(b) ==
    When(\E k \in ACCT :
            LET v == Val(b, k)
            IN \/ IsNumber(v) /\ v.c # "good"
               \/ /\ v.c = "good"
                  /\ \/ SumOf(SubSeq(v.n, 4, Len(v.n))) # v.n[3]
                     \/ v.n[1] # Rounded(100 * v.n[2], v.n[3]), "X8")

\* A division by zero ends the program with a traceback.
RowRaises(b) ==
    /\ Class(b, "KIND") = "ROW"
    /\ \/ Class(b, "THROUGHPUT") \in {"good", "regime"}
            /\ 0 \in {b["THROUGHPUT"].n[3], b["THROUGHPUT"].n[4]}
       \/ Class(b, "EXPOSURE_RSS") = "good" /\ Class(b, "MODEL") = "good" /\ b["EXPOSURE_RSS"].n[2] = 0
       \/ \E k \in ACCT : Class(b, k) = "good" /\ b[k].n[3] = 0

RowRules(b) == Device(b) \cup Label(b) \cup Throughput(b) \cup RssQuotient(b)
                    \cup Pairing(b) \cup AcctQuotient(b)

BlockRules(b) ==
    IF Class(b, "KIND") \notin {"ROW", "CLAIM"} THEN {"X2"}
    ELSE Completeness(b) \cup Caveat(b) \cup Citation(b) \cup Unmeasured(b)
            \cup (IF Class(b, "KIND") = "ROW" THEN RowRules(b) ELSE {})

----------------------------------------------------------------------------
(* check_cost: worst in leg, across the blocks.                            *)

\* What a block's own cost and spread break.  COST good: <<ratio>>.
CostFault(b) ==
    LET cost == Val(b, "COST")
        spread == Val(b, "COST_SPREAD")
    IN CASE cost.c = "empty"    -> FALSE
         [] cost.c = "BASELINE" -> spread.c # "BASELINE"
         [] IsUnmeasured(cost)  -> ~IsUnmeasured(spread)
         [] OTHER -> \/ cost.c # "good" \/ spread.c \notin {"good", "empty"}
                     \/ spread.n = <<>> \/ cost.n[1] # Max(ToSet(spread.n))

\* The spread that a block gives its leg, once its own cost has passed.
SpreadOf(b) == SortSeq(b["COST_SPREAD"].n, LAMBDA x, y : x < y)
InLeg(b) == Class(b, "COST") = "good" /\ ~CostFault(b)

Cost(blocks) ==
    When(\/ \E i \in DOMAIN blocks : CostFault(blocks[i])
         \/ \E i, j \in DOMAIN blocks :
                /\ InLeg(blocks[i]) /\ InLeg(blocks[j])
                /\ Val(blocks[i], "LEG") = Val(blocks[j], "LEG")
                /\ SpreadOf(blocks[i]) # SpreadOf(blocks[j]), "X4")

----------------------------------------------------------------------------
(* check_surface and main.                                                 *)

Declared(blocks) ==
    UNION {UNION {ToSet(blocks[i][k].n) : k \in DOMAIN blocks[i]} : i \in DOMAIN blocks}

OnSurface(blocks) == When(~ Surface \subseteq Declared(blocks), "X11")

\* check_bytes: of a table that is not ASCII nothing is parsed.
BytesRule == When(bytes # "clean", "X0")

Check ==
    /\ outcome = "none"
    /\ LET p == IF bytes = "non-ascii" THEN Start ELSE Parse(text)
           all == BytesRule \cup p.rules \cup UNION {BlockRules(p.blocks[i]) : i \in DOMAIN p.blocks}
                    \cup (IF bytes = "non-ascii" THEN {} ELSE Cost(p.blocks) \cup OnSurface(p.blocks))
       IN IF \E i \in DOMAIN p.blocks : RowRaises(p.blocks[i])
          THEN outcome' = "raised" /\ rules' = {}
          ELSE outcome' = (IF all = {} THEN "ACCEPTED" ELSE "REFUSED") /\ rules' = all
    /\ UNCHANGED <<text, bytes, edits>>
----------------------------------------------------------------------------
(* The author.                                                             *)

Init ==
    /\ text = Table /\ bytes = "clean" /\ edits = <<>>
    /\ outcome = "none" /\ rules = {}

Edit(broken, lines) ==
    /\ Len(edits) < MaxEdits
    /\ edits' = Append(edits, broken) /\ text' = lines
    /\ outcome' = "none" /\ rules' = {}

RemoveLine == \E i \in DOMAIN text : Edit({"layout"}, RemoveAt(text, i)) /\ UNCHANGED bytes
RepeatLine == \E i \in DOMAIN text : Edit({"layout"}, InsertAt(text, i, text[i])) /\ UNCHANGED bytes
InsertLine ==
    \E i \in 1 .. Len(text) + 1, t \in {"blank", "comment", "end", "junk"} :
        Edit({"layout"}, InsertAt(text, i, Other(t))) /\ UNCHANGED bytes
SetValue ==
    \E i \in DOMAIN text, f \in Faults :
        /\ text[i].t = "key" /\ text[i].k = f.k
        /\ Edit(f.rules, [text EXCEPT ![i].v = f.v]) /\ UNCHANGED bytes
Soil ==
    \E b \in {"dirty", "non-ascii"} : Edit({"X0"}, text) /\ bytes = "clean" /\ bytes' = b

Next == Check \/ RemoveLine \/ RepeatLine \/ InsertLine \/ SetValue \/ Soil

Spec == Init /\ [][Next]_vars

----------------------------------------------------------------------------
(* Properties.                                                             *)

Ends == {i \in DOMAIN text : text[i].t = "end"}
Filler == {i \in DOMAIN text : text[i].t \in {"blank", "comment"}}

\* The lines of the block that line e closes: what lies between it and the
\* terminator before it, without the filler in front.
BlockLines(e) ==
    LET before == Max({0} \cup {d \in Ends : d < e})
    IN {i \in before + 1 .. e - 1 : ~ (before + 1 .. i \subseteq Filler)}

KeyLines(e) == {i \in BlockLines(e) : text[i].t = "key"}
Given(e, k) == {text[i].v : i \in {j \in KeyLines(e) : text[j].k = k}}

\* "A row missing any field does not publish": in an accepted table every line
\* that is not filler lies in a closed block, every block starts with a key, has
\* each key of its kind once and no other, and none of them is without a value;
\* and every number of a surface stands in one of them.  The anti-cherrypick law:
\* blocks that publish a cost of the same leg publish the same one, and no ratio
\* that any of them gives as observed in the leg is worse.
AcceptedIsComplete ==
    outcome = "ACCEPTED" =>
        /\ DOMAIN text = Filler \cup Ends \cup UNION {BlockLines(e) : e \in Ends}
        /\ \A e \in Ends :
            /\ BlockLines(e) # {}
            /\ \A i \in BlockLines(e) :
                /\ text[i].t \in {"key", "cont"}
                /\ text[i].t = "cont" => i - 1 \in BlockLines(e)
                /\ text[i].v.c = "empty" => text[i + 1].t = "cont"
            /\ LET keys == {text[i].k : i \in KeyLines(e)}
               IN /\ Cardinality(keys) = Cardinality(KeyLines(e))
                  /\ {v.c : v \in Given(e, "KIND")} =
                        CASE keys = ROW_KEYS -> {"ROW"} [] keys = CLAIM_KEYS -> {"CLAIM"}
                          [] OTHER -> {}
                  /\ Given(e, "KIND") # {}
        /\ \A x \in Surface : \E i \in DOMAIN text : x \in ToSet(text[i].v.n)
        /\ \A d, e \in Ends :
            Given(d, "LEG") = Given(e, "LEG") =>
                \A cost \in Given(d, "COST"), spread \in Given(e, "COST_SPREAD") :
                    cost.c = "good" /\ spread.c = "good" =>
                        /\ cost.n[1] \in ToSet(spread.n)
                        /\ \A x \in ToSet(spread.n) : x <= cost.n[1]

\* The fixtures' claim, for every rule: the table of record is accepted, and a
\* table with one fault is refused under the rules that the fault is about "and
\* not incidentally" under another one.  That is one rule, but two where a bare
\* UNMEASURED stands in a field that a rule besides X9 reads: one of the two
\* exposures (X5), a cost or its spread (X4), the caveat or its source (X3), the
\* commit (X10); with a reason given, X9 is satisfied and the other rule is not.
\* A zero divisor ends the program without a verdict.
EachFaultItsRule ==
    /\ edits = <<>> /\ outcome # "none" => outcome = "ACCEPTED"
    /\ Len(edits) = 1 /\ edits # <<{"layout"}>> /\ outcome # "none" =>
        IF edits[1] = {"zero"} THEN outcome = "raised"
        ELSE rules = edits[1] /\ outcome = (IF rules = {} THEN "ACCEPTED" ELSE "REFUSED")

=============================================================================
