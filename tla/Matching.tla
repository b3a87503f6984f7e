------------------------------ MODULE Matching ------------------------------
(***************************************************************************)
(* How get_experiences_with_question_similarity                            *)
(* (src/experience/service.py) ranks experiences for a question: cosine    *)
(* similarity, small bonuses for tags and category, all of it multiplied   *)
(* by the quality of the content.  Similarities, tag scores and qualities  *)
(* are in thousandths; a score is in hundred-thousandths, which makes the  *)
(* weights 0.1 and 0.05 exact.  The code computes in floating point.       *)
(***************************************************************************)
EXTENDS Integers, FiniteSets, Sequences

CONSTANTS
    Tags,          \* a sample of AVAILABLE_TAGS
    Contents,      \* what experiences may contain
    Similarities   \* cosine similarities, in thousandths

\* What _calculate_content_quality looks at: how many texts of the format are
\* there, the number of their characters without blanks, of different ones,
\* and whether one of the patterns (only jamo, a repeated character) matches.
Content == [parts : Nat, chars : Nat, distinct : Nat, senseless : BOOLEAN]

\* The vectors of one model have no negative similarity in practice; the
\* formula has no lower bound for one.
ASSUME MatchingAssumption ==
    /\ IsFiniteSet(Tags)
    /\ Contents \subseteq Content /\ Similarities \subseteq 0..1000

VARIABLE ranking   \* what the request answers, best first

Experiment == [content : Contents, base : Similarities,
               tags : SUBSET Tags, sameCategory : BOOLEAN]

One == 100000
MinContentLength == 20

\* _calculate_content_quality, in the order of its returns.
Quality(k) ==
    IF k.parts = 0 THEN 200
    ELSE IF k.chars = 0 \/ k.senseless \/ 5 * k.distinct < k.chars THEN 100
    ELSE IF k.chars < MinContentLength THEN 700
    ELSE 1000

\* _calculate_tag_matching_score: Jaccard similarity, 0 without a common tag.
TagScore(mine, asked) ==
    IF mine \cap asked = {} THEN 0
    ELSE (1000 * Cardinality(mine \cap asked)) \div Cardinality(mine \cup asked)

\* _calculate_category_matching_score
CategoryScore(matches) == IF matches THEN 1000 ELSE 0

\* raw_score = base + tag * 0.1 + category * 0.05
Raw(base, tag, category) == 100 * base + 10 * tag + 5 * category

\* Mutant of Score: the bonuses are added after the penalty.
ScoreBonusesLast(base, tag, category, quality) ==
    Raw((base * quality) \div 1000, tag, category) + One \div 5

\* min(raw_score * quality + 0.2, 1.0)
Score(base, tag, category, quality) ==
    LET score == (Raw(base, tag, category) * quality) \div 1000 + One \div 5
    IN IF score < One THEN score ELSE One

ScoreOf(x, asked) ==
    Score(x.base, TagScore(x.tags, asked), CategoryScore(x.sameCategory),
          Quality(x.content))

\* query_points returns the nearest first; the sort by score is stable.
Rank(x, y, asked) ==
    IF ScoreOf(x, asked) >= ScoreOf(y, asked) THEN <<x, y>> ELSE <<y, x>>

\* The question's tags are what the model extracts, none when it fails.
MatchQuestion ==
    /\ ranking = <<>>
    /\ \E x, y \in Experiment, asked \in SUBSET Tags :
          /\ x.base >= y.base
          /\ ranking' = Rank(x, y, asked)

MatchSpec == ranking = <<>> /\ [][MatchQuestion]_ranking
----------------------------------------------------------------------------
\* However well it matches, an experience without a meaningful content never
\* outranks one with a content and a similarity of at least a third
\* (experience/service.py:1117): the bonuses cannot buy back the penalty.
QualityFirst ==
    \A i, j \in DOMAIN ranking :
        /\ Quality(ranking[i].content) <= 200
        /\ Quality(ranking[j].content) >= 700
        /\ 3 * ranking[j].base >= 1000
        => j < i
=============================================================================
