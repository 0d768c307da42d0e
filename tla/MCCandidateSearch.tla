------------------------- MODULE MCCandidateSearch -------------------------
\* The instance of CandidateSearch that TLC checks: four pools between three
\* tokens, two of them anchors, at every rate out of three, with large, small
\* and unhealthy pools, a token that is kept out, and limits that bite or do not.
\* Of the two pools of one pair the second is held for the surer.
EXTENDS CandidateSearch, TLC

Pool(id, a, b, w, cap, healthy) ==
    [id |-> id, a |-> a, b |-> b, w |-> w, fee |-> 0, cap |-> cap,
     confidence |-> IF id = 2 THEN 9000 ELSE 8000, healthy |-> healthy]

Tuning(k, pairEdges, variants, max, multiplier, dedup, fill) ==
    [topK |-> k, branches |-> k, beam |-> k, pairEdges |-> pairEdges, variants |-> variants,
     canonical |-> variants, perAnchor |-> 1, max |-> max, multiplier |-> multiplier, dedup |-> dedup,
     fill |-> fill, prefilter |-> dedup]

Input(w, cap, healthy, ids, banned, t) ==
    LET ps == {Pool(1, 1, 2, w[1], 4, TRUE), Pool(2, 1, 2, w[2], cap, TRUE),
               Pool(3, 2, 3, w[3], 4, healthy), Pool(4, 3, 1, w[4], 2, TRUE)}
    IN  [pools |-> ps, changed |-> {p \in ps : p.id \in ids}, anchors |-> {1, 3},
         banned |-> banned, tuning |-> t]

MCInputs ==
    {Input(w, cap, TRUE, ids, {}, t) :
        w \in [1..4 -> {-1, 0, 1}], cap \in {1, 4}, ids \in {{1}, {2, 3}, {4}},
        t \in {Tuning(6, 2, 2, 9, 1, TRUE, TRUE), Tuning(9, 1, 1, 1, 3, TRUE, TRUE),
               Tuning(1, 2, 1, 3, 1, TRUE, FALSE)}}
    \union
    {Input(w, 4, healthy, {1, 4}, banned, Tuning(6, 2, 1, 9, 1, FALSE, TRUE)) :
        w \in [1..4 -> {-1, 1}], healthy \in BOOLEAN, banned \in {{}, {3}}}

MCPrice == <<1, 0, 2>>
MCQuality == <<10000, 1500, 8000>>

=============================================================================
