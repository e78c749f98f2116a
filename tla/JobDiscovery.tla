---------------------------- MODULE JobDiscovery ----------------------------
(***************************************************************************)
(* The discovery aggregator (discover): every configured source is asked   *)
(* in turn, a source that fails is skipped, and of the postings of the     *)
(* others at most LimitPerSource new ones each are kept, one for each pair *)
(* of company and title.                                                   *)
(***************************************************************************)
EXTENDS Naturals, SequencesExt

CONSTANTS
    Failed,         \* what a source that cannot be reached or read answers
    Broken,         \* an element of an answer that is no job object
    Blank,          \* a title or company that is missing or empty
    Sources,        \* the registry: for each source its name, ats and company
    LimitPerSource  \* limit_per_source

ASSUME LimitAssumption == LimitPerSource \in Nat \ {0}

-----------------------------------------------------------------------------
(* The connectors.  An answer is an object or a list, with the jobs in it; *)
(* what has not the shape a connector expects holds no jobs for it.        *)
Listed(data, kind) == IF data.kind = kind THEN data.jobs ELSE <<>>
Only(jobs, wanted) ==
    FoldLeft(LAMBDA kept, job : IF job \in wanted THEN Append(kept, job) ELSE kept, <<>>, jobs)
Objects(jobs) == ToSet(jobs) \ {Broken}

(* An aggregator's jobs name their company, a company's board does not.    *)
JobPosting(source, job) ==
    [source |-> source.name, id |-> job.id, title |-> job.title,
     company |-> IF source.company = Blank THEN job.company ELSE source.company]

(* A connector that does not look for broken elements raises at the first. *)
PostingsOf(source, jobs) ==
    IF Broken \in ToSet(jobs) THEN Failed
    ELSE [n \in DOMAIN jobs |-> JobPosting(source, jobs[n])]

greenhouse(source, data) == PostingsOf(source, Listed(data, "object"))
lever(source, data) == PostingsOf(source, Listed(data, "list"))
naukri(source, data) == PostingsOf(source, Listed(data, "object"))
smartrecruiters(source, data) ==
    LET jobs == Listed(data, "object") IN PostingsOf(source, Only(jobs, Objects(jobs)))
(* the notice in front of RemoteOK's jobs has no position                  *)
remoteok(source, data) ==
    LET jobs == Listed(data, "list")
    IN  PostingsOf(source, Only(jobs, {job \in Objects(jobs) : job.title # Blank}))

fetch(source, data) ==
    IF data = Failed THEN Failed
    ELSE CASE source.ats = "greenhouse"      -> greenhouse(source, data)
           [] source.ats = "lever"           -> lever(source, data)
           [] source.ats = "smartrecruiters" -> smartrecruiters(source, data)
           [] source.ats = "naukri"          -> naukri(source, data)
           [] source.ats = "remoteok"        -> remoteok(source, data)

-----------------------------------------------------------------------------
(* The aggregator.                                                         *)

external_ref(posting) == <<posting.source, posting.id>>

dedup_key(posting) == <<posting.company, posting.title>>

is_relevant(posting) == Blank \notin {posting.title, posting.company}

KeepCountingSeen(found, posting) ==                                 \* mutant
    IF ~is_relevant(posting) \/ found.kept >= LimitPerSource THEN found
    ELSE [seen |-> found.seen \cup {dedup_key(posting)}, kept |-> found.kept + 1,
          postings |-> IF dedup_key(posting) \in found.seen THEN found.postings
                       ELSE Append(found.postings, posting)]

(* The body of the loop over one source's postings.                        *)
Keep(found, posting) ==
    IF \/ found.kept >= LimitPerSource
       \/ ~is_relevant(posting)
       \/ dedup_key(posting) \in found.seen
    THEN found
    ELSE [seen |-> found.seen \cup {dedup_key(posting)}, kept |-> found.kept + 1,
          postings |-> Append(found.postings, posting)]

FromSource(found, postings) ==
    IF postings = Failed THEN found
    ELSE FoldLeft(Keep, [found EXCEPT !.kept = 0], postings)

(* answers: what each source answers, in the order of the registry.        *)
discover(answers) ==
    FoldLeft(FromSource, [seen |-> {}, kept |-> 0, postings |-> <<>>],
             [i \in DOMAIN answers |-> fetch(Sources[i], answers[i])]).postings

-----------------------------------------------------------------------------
(* What discovery promises, without saying how: no two postings with one   *)
(* key, none that no source offers, and what a source offers is left out   *)
(* only if its key is there or the source has had its share.  A source     *)
(* offers the titled jobs of its answer, unless it sent a broken one to a  *)
(* connector that cannot pass over it.                                     *)

Shape == [greenhouse |-> "object", lever |-> "list", naukri |-> "object",
          smartrecruiters |-> "object", remoteok |-> "list"]
PassesOver == {"smartrecruiters", "remoteok"}

(* A source is named once, and is of a kind there is a connector for.      *)
ASSUME SourcesAssumption ==
    /\ \A i \in DOMAIN Sources : Sources[i].ats \in DOMAIN Shape
    /\ \A i, j \in DOMAIN Sources : Sources[i].name = Sources[j].name => i = j

Offered(source, data) ==
    IF data = Failed \/ data.kind # Shape[source.ats]
       \/ (Broken \in ToSet(data.jobs) /\ source.ats \notin PassesOver)
    THEN {}
    ELSE {p \in {JobPosting(source, job) : job \in Objects(data.jobs)} : is_relevant(p)}

Keys(postings) == {dedup_key(posting) : posting \in ToSet(postings)}

ShareOf(source, postings) == {n \in DOMAIN postings : postings[n].source = source}

Promised(answers, postings) ==
    LET offer == UNION {Offered(Sources[i], answers[i]) : i \in DOMAIN answers}
    IN  /\ Cardinality(Keys(postings)) = Len(postings)
        /\ ToSet(postings) \subseteq offer
        /\ \A p \in offer :
              \/ dedup_key(p) \in Keys(postings)
              \/ Cardinality(ShareOf(p.source, postings)) = LimitPerSource
=============================================================================
