------------------------------ MODULE MatchGraph -----------------------------
(***************************************************************************)
(* How the question is answered (MatchGraph and GeneralMatchGraph, which   *)
(* are the same but for the objective): a unit at a time flows from a      *)
(* source through a place and a candidate to a sink, along the path that   *)
(* adds most; a path may take a candidate from a place that finds another, *)
(* and may give one optional place up for another.  Paths are found by     *)
(* correcting labels until none is improved; the order in which the queue  *)
(* does so is left open.                                                   *)
(***************************************************************************)
EXTENDS Matching

CONSTANTS Questions

VARIABLES asked,    \* the question
          residual, \* the capacity left on each edge
          flow,     \* units sent
          labels    \* what the best path to each node gains, and the paths

graphVars == <<asked, residual, flow, labels>>

Source == <<"source", 0>>
Gate == <<"gate", 0>>
Sink == <<"sink", 0>>
Place(i) == <<"place", i>>
Candidate(p) == <<"candidate", p>>

(* The blank node that match_lanes has between a lane and the sink is left  *)
(* out: one edge leads to it and one from it.                               *)
Edges(q) ==
    ({Source} \X {Place(i) : i \in 1..q.full})
    \cup {<<Source, Gate>>}
    \cup ({Gate} \X {Place(i) : i \in Optional(q)})
    \cup ({Place(i) : i \in Places(q)} \X {Sink})
    \cup UNION {{Place(i)} \X {Candidate(p) : p \in {u \in q.uids : Fits(q, i, u)}} :
                    i \in Places(q)}
    \cup ({Candidate(p) : p \in q.uids} \X {Sink})

Capacity(q, e) == IF e = <<Source, Gate>> THEN q.quota ELSE 1

Gain(q, e) ==
    IF e[1][1] # "place" THEN Zero(q)
    ELSE Contribution(q, e[1][2], IF e[2] = Sink THEN Vacant ELSE e[2][2])

Nodes(q) == {e[1] : e \in Edges(q)} \cup {Sink}

NoLabel == [gain |-> <<>>, paths |-> {}]

(* Only the source has a label when a search begins.                        *)
Unlabelled(q) ==
    [n \in Nodes(q) |-> IF n = Source THEN [gain |-> Zero(q), paths |-> {<<>>}]
                        ELSE NoLabel]

GraphInit ==
    /\ asked \in Questions
    /\ residual = [e \in Edges(asked) |-> Capacity(asked, e)]
    /\ flow = 0
    /\ labels = Unlabelled(asked)

(* A step along an edge, or back along one that is in use.                  *)
StepOf(e, forward) ==
    [from |-> IF forward THEN e[1] ELSE e[2], to |-> IF forward THEN e[2] ELSE e[1],
     gain |-> IF forward THEN Gain(asked, e) ELSE Negated(Gain(asked, e))]

(* Mutant: what has been decided is not taken back.                         *)
StepsForward == {StepOf(e, TRUE) : e \in {d \in DOMAIN residual : residual[d] > 0}}

Steps ==
    {StepOf(e, TRUE) : e \in {d \in DOMAIN residual : residual[d] > 0}}
    \cup {StepOf(e, FALSE) : e \in {d \in DOMAIN residual : residual[d] < Capacity(asked, d)}}

Along(label, step) ==
    IF label.paths = {} THEN NoLabel
    ELSE [gain |-> Plus(label.gain, step.gain),
          paths |-> {Append(path, <<step.from, step.to>>) : path \in label.paths}]

(* Of two paths that gain the same the one that was there first is kept:    *)
(* which one that is is left open.                                          *)
BetterLabel(a, b) ==
    IF a.paths = {} THEN b
    ELSE IF b.paths = {} \/ Better(a.gain, b.gain) THEN a
    ELSE IF Better(b.gain, a.gain) THEN b
    ELSE [b EXCEPT !.paths = @ \cup {path \in a.paths : \A z \in b.paths : Len(path) <= Len(z)}]

(* One round of corrections for every node.                                 *)
Corrected ==
    LET steps == Steps IN
    [n \in DOMAIN labels |->
        FoldSet(LAMBDA step, label : BetterLabel(Along(labels[step.from], step), label),
                labels[n], {s \in steps : s.to = n})]

Back(e) == <<e[2], e[1]>>

Sent(path) ==
    LET on == {path[i] : i \in DOMAIN path} IN
    [e \in DOMAIN residual |->
        residual[e] - (IF e \in on THEN 1 ELSE 0) + (IF Back(e) \in on THEN 1 ELSE 0)]

(* send_max_flow: labels are corrected until none improves, and then a unit *)
(* is sent along a best path to the sink.                                   *)
Search ==
    /\ flow < Target(asked)
    /\ LET better == Corrected IN
       \/ /\ better # labels
          /\ labels' = better
          /\ UNCHANGED <<asked, residual, flow>>
       \/ /\ better = labels
          /\ \E path \in labels[Sink].paths : residual' = Sent(path)
          /\ flow' = flow + 1
          /\ labels' = Unlabelled(asked)
          /\ UNCHANGED asked

GraphNext == Search

-----------------------------------------------------------------------------
InUse(from, to) ==
    LET e == <<from, to>> IN e \in DOMAIN residual /\ residual[e] < Capacity(asked, e)

(* What is read off the graph at the end: the places that were wanted and   *)
(* the candidate of each.                                                   *)
Answered ==
    LET wanted == {i \in Places(asked) : InUse(Source, Place(i)) \/ InUse(Gate, Place(i))} IN
    [i \in wanted |->
        IF \E p \in asked.uids : InUse(Place(i), Candidate(p))
        THEN CHOOSE p \in asked.uids : InUse(Place(i), Candidate(p)) ELSE Vacant]

(* Whatever the paths have taken from each other, after every unit the flow *)
(* is a way of deciding as many places as were sent, and there is no better *)
(* (the optimality of successive best paths, on which both optimizers rely).*)
EveryFlowIsBest == labels = Unlabelled(asked) => IsBest(asked, flow, Answered)

(* A unit can always be sent until all places are decided, and the answer is*)
(* then the only best one: it does not depend on the order of the candidates*)
(* (debug_assert_eq!(flow, count), and the uid tie-breaks).                 *)
AnswerIsTheOnlyBest ==
    /\ flow < Target(asked) /\ Corrected = labels => labels[Sink].paths # {}
    /\ flow = Target(asked) => \A w \in Ways(asked, flow) \ {Answered} :
                                   Better(Objective(asked, Answered), Objective(asked, w))

(* Both matchings (match_lanes, match_general_requirements) are optimal and *)
(* determined.                                                              *)
AnswerIsBest == EveryFlowIsBest /\ AnswerIsTheOnlyBest
=============================================================================
