----------------------------- MODULE Resolution -----------------------------
(***************************************************************************)
(* The pure part of the ingest pipeline: which action a candidate memory   *)
(* gets against the stored memories of its subject and category            *)
(* (resolveMemoryAction).  Text is abstract: Score is the trigram          *)
(* similarity of two contents as a percentage, rounded down: 100 for texts *)
(* with the same trigrams, as all that normalise to the same string have,  *)
(* and 0 for one that normalises to nothing.                               *)
(***************************************************************************)
EXTENDS Tables

CONSTANTS
    Score,                  \* trigramSimilarity, [Content \X Content -> 0..100]
    Threshold,              \* resolveThreshold as a percentage
    SingletonCategory       \* preference and instruction

\* The two have the same trigrams, and some.
SameText(a, b) == Score[a, b] = 100

ASSUME ResolutionAssumption ==
    /\ Score \in [Content \X Content -> 0..100]
    /\ \A c \in Content : Score[c, c] \in {0, 100}
    /\ \A a, b \in Content : Score[a, b] = Score[b, a]
    /\ \A a, b, c \in Content : SameText(a, b) => Score[a, c] = Score[b, c]
    /\ Threshold \in 1..100
    /\ Confidence \subseteq Nat
    /\ SingletonCategory \subseteq Category

\* Above this score two different texts count as the same memory.
SameTextScore == 98

Action == {"create", "update", "merge", "no_op"}

BestScore(candidate, existing) ==
    CHOOSE best \in {Score[candidate.content, m.content] : m \in existing} :
        \A m \in existing : Score[candidate.content, m.content] <= best

\* The memories whose score is the best one.  The code keeps the first of
\* them in updated_at order; any of them may be first here.
BestMatches(candidate, existing) ==
    {m \in existing : Score[candidate.content, m.content] = BestScore(candidate, existing)}

\* What happens to a candidate that is similar to the stored memory `target'.
SimilarAction(candidate, target) ==
    IF candidate.category \in SingletonCategory THEN "update"
    ELSE IF candidate.confidence > target.confidence THEN "update"
    ELSE IF Score[candidate.content, target.content] >= SameTextScore THEN "merge"
    ELSE "no_op"

\* Mutant: similar memories are not looked for.
MemoryActionsUnresolved(candidate, existing) == {[action |-> "create", target |-> None]}

\* The decisions resolveMemoryAction may return: more than one only when
\* several stored memories share the best score.
MemoryActions(candidate, existing) ==
    IF existing = {} \/ BestScore(candidate, existing) < Threshold
    THEN {[action |-> "create", target |-> None]}
    ELSE {[action |-> SimilarAction(candidate, m), target |-> m.id] :
            m \in BestMatches(candidate, existing)}
=============================================================================
