------------------------------ MODULE Matching ------------------------------
(***************************************************************************)
(* The matching engine: evidence about a candidate and a job in four       *)
(* dimensions, a fraction between 0 and 1 for each, and the overall score  *)
(* in percent.                                                             *)
(*                                                                         *)
(* Abstracted: skill names are equal or not (the code trims and lowers     *)
(* them) and a job names no skill twice; years and salaries are whole      *)
(* numbers; the currency, which no rule reads.  Fractions are exact; where *)
(* a score is exactly between two whole numbers, the sum the code computes *)
(* in binary fractions may fall on either side of it (see ScoresOf).       *)
(***************************************************************************)
EXTENDS Naturals, FiniteSets

CONSTANTS
    Skills,     \* skill names
    Years,      \* years of experience, asked for or had
    Salaries,   \* salaries expected or offered
    Null        \* not given, or not a number

ASSUME MatchingAssumption ==
    /\ IsFiniteSet(Skills)
    /\ Years \subseteq Nat \ {0} /\ Salaries \subseteq Nat \ {0}
    /\ Null \notin Nat

(* Mutant of EnglishRank: an entry is missing and counts as unknown.       *)
EnglishRankWithoutNative ==
    [a1 |-> 1, a2 |-> 2, b1 |-> 3, b2 |-> 4, c1 |-> 5, c2 |-> 6, fluent |-> 5,
     native |-> 0, unknown |-> 0]

(* ENGLISH_RANK; any other text ranks as unknown.                          *)
EnglishRank ==
    [a1 |-> 1, a2 |-> 2, b1 |-> 3, b2 |-> 4, c1 |-> 5, c2 |-> 6, fluent |-> 5,
     native |-> 6, unknown |-> 0]

EnglishLevels == DOMAIN EnglishRank

MatchingCandidateInput ==
    [skills: SUBSET Skills, yearsOfExperience: Years \cup {Null},
     englishLevel: EnglishLevels, expectedSalary: Salaries \cup {Null}]
MatchingJobInput ==
    [skills: SUBSET Skills, experienceYears: Years \cup {Null},
     englishRequirement: EnglishLevels, salaryMin: Salaries \cup {Null},
     salaryMax: Salaries \cup {Null}]

-----------------------------------------------------------------------------
(* Evidence: a pair <<n, d>> for the dimension score n / d.                *)

Full == <<1, 1>>

SkillsScore(jobSkills, candidateSkills) ==
    IF jobSkills = {} THEN Full
    ELSE <<Cardinality(jobSkills \cap candidateSkills), Cardinality(jobSkills)>>

ExperienceScore(required, actual) ==
    CASE required = Null -> Full
      [] required # Null /\ actual = Null -> <<3, 10>>
      [] required # Null /\ actual # Null ->
             IF actual >= required THEN Full ELSE <<actual, required>>

EnglishScore(required, actual) ==
    LET req == EnglishRank[required]
        act == EnglishRank[actual]
    IN  CASE act >= req -> Full
          [] act < req /\ act = 0 -> <<1, 5>>
          [] act < req /\ act # 0 -> <<act, req>>

SalaryScore(expected, min, max) ==
    CASE min = Null /\ max = Null -> Full
      [] (min # Null \/ max # Null) /\ expected = Null -> <<3, 10>>
      [] (min # Null \/ max # Null) /\ expected # Null ->
             IF max # Null /\ expected > max THEN <<2, 5>>
             ELSE IF min # Null /\ expected < min THEN <<4, 5>>
             ELSE Full

(* MATCHING_WEIGHTS, in percent.                                           *)
Weights == [skills |-> 60, experience |-> 20, english |-> 10, salary |-> 10]

(* computeEvidence and the weighted sum: numerator and denominator.        *)
Overall(c, j) ==
    LET s == SkillsScore(j.skills, c.skills)
        x == ExperienceScore(j.experienceYears, c.yearsOfExperience)
        e == EnglishScore(j.englishRequirement, c.englishLevel)
        m == SalaryScore(c.expectedSalary, j.salaryMin, j.salaryMax)
    IN <<Weights.skills * s[1] * x[2] * e[2] * m[2] + Weights.experience * x[1] * s[2] * e[2] * m[2]
           + Weights.english * e[1] * s[2] * x[2] * m[2] + Weights.salary * m[1] * s[2] * x[2] * e[2],
         s[2] * x[2] * e[2] * m[2]>>

(* Math.round of the fraction o.                                           *)
Rounded(o) == (2 * o[1] + o[2]) \div (2 * o[2])

overallMatchScore(c, j) == Rounded(Overall(c, j))

(* What the code may compute: the rounded score, or at an exact half also  *)
(* the whole number below.                                                 *)
ScoresOf(c, j) ==
    LET o == Overall(c, j)
        n == Rounded(o)
    IN IF 2 * o[1] = (2 * n - 1) * o[2] THEN {n - 1, n} ELSE {n}

(* Every score a pair of inputs can get.                                   *)
Scores ==
    UNION {ScoresOf(c, j) : c \in MatchingCandidateInput, j \in MatchingJobInput}

-----------------------------------------------------------------------------
(* Properties.                                                             *)

(* The levels of English a recruiter picks from, from worst to best.       *)
Ladder == <<"a1", "a2", "b1", "b2", "c1", "c2", "native">>
Better(l) == {Ladder[n] : n \in {n \in 2..7 : l = Ladder[n - 1]}}

(* The candidates that are like c but better in one dimension: a skill     *)
(* more, more years, the next level of English.                            *)
OneUp(c) ==
    {[c EXCEPT !.skills = @ \cup {s}] : s \in Skills}
    \cup {[c EXCEPT !.yearsOfExperience = y] :
              y \in {y \in Years : c.yearsOfExperience # Null /\ y > c.yearsOfExperience}}
    \cup {[c EXCEPT !.englishLevel = l] : l \in Better(c.englishLevel)}

(* Matching Stability: a candidate who is better in one dimension and      *)
(* equal in the others never scores less, whatever the job asks, although  *)
(* the dimensions are tables and thresholds of their own.  (Only known     *)
(* years and levels compare: an unknown level scores 1/5, a1 for a job     *)
(* that asks for native 1/6, so there an answer costs a point.)            *)
ScoreMonotone ==
    \A j \in MatchingJobInput, c \in MatchingCandidateInput :
        \A d \in OneUp(c) : overallMatchScore(c, j) <= overallMatchScore(d, j)

=============================================================================
