---------------------------- MODULE MCMemoryBoost ----------------------------
EXTENDS MemoryBoost

\* Mentality values: 1 is eligible, 2 and 3 are the targets of the draw.
\* Abilities: one more, up to the potential, which is the largest value.
MCTargets ==
    [k \in Kinds |-> [v \in Values |->
        IF k = "mentality" THEN IF v = 1 THEN Values \ {1} ELSE {v}
                           ELSE IF v + 1 \in Values THEN {v + 1} ELSE {v}]]
=============================================================================
