------------------------------- MODULE Search -------------------------------
(***************************************************************************)
(* SearchService: which candidates and jobs a query finds, in what order   *)
(* and on which page.  A query filters by text, where matching compares    *)
(* ranks, so the two read the same candidate differently.  Beside it the   *)
(* two other lists that are ranked and cut: the matches of a job, and the  *)
(* insights of InsightEngine.                                              *)
(*                                                                         *)
(* Abstracted: text, of which a query asks for one word; a word is in a    *)
(* text or not (the code trims, lowers and looks for a part of it).        *)
(* Ids are numbers, which compare as the code's ids do.                    *)
(***************************************************************************)
EXTENDS Matching, SequencesExt

CONSTANT Words          \* what the texts of a candidate or a job may say

DEFAULT_LIMIT == 50
MAX_LIMIT == 100

(* A query, normalized: Null where nothing is asked for. *)
SearchQuery ==
    [type : {"all", "candidate", "job"}, jobStatus : Words \cup {Null}, jobId : Nat \cup {Null},
     q : Words \cup Skills \cup EnglishLevels \cup {Null}, skills : SUBSET Skills,
     english : EnglishLevels \cup {Null}, experienceMin : Years \cup {Null},
     salaryMin : Salaries \cup {Null}, salaryMax : Salaries \cup {Null},
     stage : Words \cup {Null}, minMatchScore : (0..100) \cup {Null}]

(* normalizeQuery, of the part that pages. *)
Limit(limit) ==
    CASE limit = Null -> DEFAULT_LIMIT
      [] limit # Null /\ limit < 1 -> 1
      [] limit # Null /\ limit > MAX_LIMIT -> MAX_LIMIT
      [] OTHER -> limit
Offset(offset) == IF offset = Null \/ offset < 0 THEN 0 ELSE offset

-----------------------------------------------------------------------------
(* The filters. *)
textMatches(q, words) == q = Null \/ q \in words

skillsContainAll(haystack, needles) == needles \subseteq haystack

AtLeast(value, min) == min = Null \/ (value # Null /\ value >= min)

salaryInRange(value, min, max) ==
    \/ min = Null /\ max = Null
    \/ /\ value # Null
       /\ min # Null => value >= min
       /\ max # Null => value <= max

(* A job with one end of a range given is a job of exactly that salary. *)
jobSalaryOverlaps(jobMin, jobMax, min, max) ==
    LET lo == IF jobMin # Null THEN jobMin ELSE jobMax
        hi == IF jobMax # Null THEN jobMax ELSE jobMin
    IN \/ min = Null /\ max = Null
       \/ /\ jobMin # Null \/ jobMax # Null
          /\ min # Null => hi >= min
          /\ max # Null => lo <= max

InStage(query, stages) == query.stage = Null \/ query.stage \in stages

(* candidateHit, of a candidate with its text and the stages it is in;     *)
(* score is Null when the match fails, for instance with a deleted job.    *)
candidateHit(c, words, stages, score, query) ==
    /\ textMatches(query.q, words \cup c.skills \cup {c.englishLevel})
    /\ skillsContainAll(c.skills, query.skills)
    /\ query.english \in {Null, c.englishLevel}
    /\ AtLeast(c.yearsOfExperience, query.experienceMin)
    /\ salaryInRange(c.expectedSalary, query.salaryMin, query.salaryMax)
    /\ InStage(query, stages)
    /\ AtLeast(score, query.minMatchScore)

(* jobHit, of a job that is not deleted, with its text and its stages. *)
jobHit(j, words, status, stages, query) ==
    /\ textMatches(query.q, words \cup {status} \cup j.skills)
    /\ skillsContainAll(j.skills, query.skills)
    /\ query.jobStatus \in {Null, status}
    /\ query.english \in {Null, j.englishRequirement}
    /\ AtLeast(j.experienceYears, query.experienceMin)
    /\ jobSalaryOverlaps(j.salaryMin, j.salaryMax, query.salaryMin, query.salaryMax)
    /\ InStage(query, stages)
    /\ query.minMatchScore = Null

-----------------------------------------------------------------------------
(* sortHits and the page of the answer.  A job has no score. *)
Hit == [type : {"candidate", "job"}, id : Nat, score : (0..100) \cup {Null}]

(* search, of the rows that were read: a candidate with the score of its   *)
(* match, a job with the time it was deleted at.                           *)
search(query, candidates, jobs) ==
    LET found(row, score) ==
            candidateHit(row.of, row.words, row.stages, score, query)
        asked == {row \in candidates : query.type # "job" /\ found(row, 100)}
        scored == query.minMatchScore # Null
    IN IF scored /\ query.jobId = Null /\ asked # {} THEN "INVALID_MATCH_FILTER"
       ELSE {[type |-> "candidate", id |-> row.id, score |-> IF scored THEN row.score ELSE Null] :
                row \in {row \in asked : found(row, row.score)}}
            \cup {[type |-> "job", id |-> row.id, score |-> Null] :
                row \in {row \in jobs : query.type # "candidate" /\ row.deletedAt = Null
                             /\ jobHit(row.of, row.words, row.status, row.stages, query)}}

Rank(hit) == IF hit.score = Null THEN 0 ELSE hit.score + 1

Before(a, b, byScore) ==
    \/ byScore /\ Rank(a) > Rank(b)
    \/ ~byScore /\ a.type = "candidate" /\ b.type = "job"
    \/ /\ IF byScore THEN Rank(a) = Rank(b) ELSE a.type = b.type
       /\ a.id < b.id

(* The elements of S in an order: the n-th is the one after n - 1 others.  *)
InOrder(S, order) ==
    [n \in 1..Cardinality(S) |->
        CHOOSE x \in S : Cardinality({y \in S : <<y, x>> \in order}) = n - 1]

sortHits(hits, byScore) == InOrder(hits, {p \in hits \X hits : Before(p[1], p[2], byScore)})

Page(hits, byScore, limit, offset) ==
    LET sorted == sortHits(hits, byScore)
        last == Offset(offset) + Limit(limit)
    IN SubSeq(sorted, Offset(offset) + 1, IF last < Len(sorted) THEN last ELSE Len(sorted))

-----------------------------------------------------------------------------
(* scoreCandidateAgainstJob, of the row of a candidate.                    *)
scoreCandidateAgainstJob(job, record) ==
    [id |-> record.id, score |-> overallMatchScore(record.of, job),
     matchedSkills |-> job.skills \cap record.of.skills,
     missingSkills |-> job.skills \ record.of.skills]

(* rankReadyCandidates: the matches of a job, of which equal ones stay in  *)
(* the order in which the rows were read.                                  *)
rankReadyCandidates(job, records) ==
    LET matches == {scoreCandidateAgainstJob(job, r) : r \in {r \in records : r.ready}}
    IN InOrder(matches,
               {p \in matches \X matches :
                   p[1].score > p[2].score \/ (p[1].score = p[2].score /\ p[1].id < p[2].id)})

(* JobInsightProvider counts the matches without ranking them. *)
countReadyMatchesAtLeast(job, records, min) ==
    Cardinality({r \in records : r.ready /\ overallMatchScore(r.of, job) >= min})

-----------------------------------------------------------------------------
(* InsightEngine.getInsights: what the providers say of one subject, the   *)
(* most severe first, up to a limit.  Titles are numbers here.             *)
SEVERITY_RANK == [critical |-> 0, warning |-> 1, info |-> 2]

Sooner(a, b) ==
    \/ SEVERITY_RANK[a.severity] < SEVERITY_RANK[b.severity]
    \/ a.severity = b.severity /\ a.title < b.title

(* Equal insights stay in their order.                                     *)
sortInsightsBySeverity(insights) ==
    LET places == DOMAIN insights
        order == {p \in places \X places :
                     \/ Sooner(insights[p[1]], insights[p[2]])
                     \/ ~Sooner(insights[p[2]], insights[p[1]]) /\ p[1] < p[2]}
    IN [n \in places |-> insights[InOrder(places, order)[n]]]

getInsights(batches, limit) ==
    LET sorted == sortInsightsBySeverity(FlattenSeq(batches))
    IN SubSeq(sorted, 1, IF limit < Len(sorted) THEN limit ELSE Len(sorted))

highestSeverity(insights) ==
    IF insights = << >> THEN Null ELSE sortInsightsBySeverity(insights)[1].severity

-----------------------------------------------------------------------------
(* Properties.                                                             *)

(* A search never loses a candidate who is better than one it finds: with  *)
(* a skill more, more years, or better English, unless it asks for a level *)
(* of English, which it takes for a word.                                  *)
FindsTheBetter(queries, words, stages, scores) ==
    \A query \in queries, c \in MatchingCandidateInput, score \in scores :
        candidateHit(c, words, stages, score, query) =>
            \A d \in OneUp(c) :
                (d.englishLevel = c.englishLevel \/ {query.english, query.q} \cap EnglishLevels = {}) =>
                    \A better \in {s \in scores : s # Null /\ (score = Null \/ s >= score)} :
                        candidateHit(d, words, stages, better, query)

(* A job that is found at the salary a candidate expects is one that the   *)
(* matching engine has no objection to, although each reads the ends of a  *)
(* range in its own way.                                                   *)
SalaryAsMatched ==
    \A expected \in Salaries, j \in MatchingJobInput :
        jobSalaryOverlaps(j.salaryMin, j.salaryMax, expected, expected) =>
            SalaryScore(expected, j.salaryMin, j.salaryMax) = Full

(* The pages of a search hold every hit once, the best scores first.       *)
PagesWhole(hits, byScore, limit) ==
    LET numbers == 0..Cardinality(hits)
        page == [n \in numbers |-> Page(hits, byScore, limit, n * Limit(limit))]
        places == UNION {{<<n, i>> : i \in DOMAIN page[n]} : n \in numbers}
        at(p) == page[p[1]][p[2]]
    IN /\ \A p \in places : at(p) \in hits /\ p[2] <= Limit(limit)
       /\ \A hit \in hits : Cardinality({p \in places : at(p) = hit}) = 1
       /\ byScore => \A p, q \in places :
             p[1] < q[1] \/ (p[1] = q[1] /\ p[2] < q[2]) => Rank(at(p)) >= Rank(at(q))

(* What a query asks for one thing at a time, or for both ends of a range. *)
AnyQuery ==
    [type |-> "all", jobStatus |-> Null, jobId |-> Null, q |-> Null, skills |-> {}, english |-> Null, experienceMin |-> Null,
     salaryMin |-> Null, salaryMax |-> Null, stage |-> Null, minMatchScore |-> Null]
TextQuery(w, y, l) == [AnyQuery EXCEPT !.q = w, !.experienceMin = y, !.english = l]
RangeQuery(S, m, n, w) ==
    [AnyQuery EXCEPT !.skills = S, !.salaryMin = m, !.salaryMax = n, !.stage = w]
ScoreQuery(n, y) == [AnyQuery EXCEPT !.minMatchScore = n, !.experienceMin = y]
Queries ==
    {TextQuery(w, y, l) : w \in Words \cup Skills \cup {Null}, y \in Years \cup {Null},
                          l \in EnglishLevels \cup {Null}}
    \cup {RangeQuery(S, m, n, w) : S \in SUBSET Skills, m \in Salaries \cup {Null},
                                   n \in Salaries \cup {Null}, w \in Words \cup {Null}}
    \cup {ScoreQuery(n, y) : n \in {0, 60}, y \in Years \cup {Null}}

(* Candidates who differ in skills and years. *)
SomeCandidates ==
    {[skills |-> S, yearsOfExperience |-> y, englishLevel |-> "b1", expectedSalary |-> Null] :
        S \in SUBSET Skills, y \in Years \cup {Null}}

(* Rows that differ in what the answer shows of them. *)
SomeRows(ids, fields) ==
    [id : ids, words : {Words}, stages : {Words},
     of : {[skills |-> Skills, yearsOfExperience |-> Null, englishLevel |-> "b1", expectedSalary |-> Null,
            experienceYears |-> Null, englishRequirement |-> "b1", salaryMin |-> Null, salaryMax |-> Null]},
     score : fields, status : {Null}, deletedAt : {Null}]
Distinct(rows) == {S \in SUBSET rows : \A a, b \in S : a.id = b.id => a = b}

(* The matches of a job are its ready candidates, none behind one who      *)
(* scores less, and the insight counts those at the head of the list.      *)
MatchesRanked ==
    \A job \in MatchingJobInput, l, r \in SomeCandidates, ready \in BOOLEAN, min \in {0, 50, 100} :
        LET records == {[id |-> 1, of |-> l, ready |-> TRUE], [id |-> 2, of |-> r, ready |-> ready]}
            ranked == rankReadyCandidates(job, records)
            count == countReadyMatchesAtLeast(job, records, min)
        IN /\ Len(ranked) = IF ready THEN 2 ELSE 1
           /\ \A n \in DOMAIN ranked : ranked[n].score >= min <=> n <= count
           /\ ready /\ l \in OneUp(r) => ranked[1].id = 1

(* A limit never cuts a more severe insight for a lesser one, whichever    *)
(* provider has them, and so never changes the severity that is reported.  *)
SevereFirst ==
    LET Insights == [severity : DOMAIN SEVERITY_RANK, title : 1..2]
    IN \A l, r \in BoundedSeq(Insights, 2), limit \in 1..3 :
        LET answer == getInsights(<<l, r>>, limit) IN
        /\ highestSeverity(answer) = highestSeverity(r \o l)
        /\ \A i \in ToSet(l \o r) \ ToSet(answer), j \in ToSet(answer) :
              SEVERITY_RANK[j.severity] <= SEVERITY_RANK[i.severity]

(* No search hides a candidate behind one who is worse, contradicts the    *)
(* matching engine on salaries, or loses a hit between two pages.          *)
SearchStable ==
    /\ \A stages \in {{}, Words} : FindsTheBetter(Queries, {}, stages, {Null, 59, 60})
    /\ SalaryAsMatched /\ MatchesRanked
    /\ \A candidates \in Distinct(SomeRows(1..2, {Null, 59, 60})), jobs \in Distinct(SomeRows(3..4, {Null})),
          type \in {"all", "candidate", "job"}, min \in {Null, 60}, limit \in {0, 1, 2, 3} :
          PagesWhole(search([AnyQuery EXCEPT !.type = type, !.minMatchScore = min, !.jobId = 3],
                            candidates, jobs), min # Null, limit)

=============================================================================
