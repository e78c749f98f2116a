---------------------------- MODULE Applications -----------------------------
(***************************************************************************)
(* One user's resumes, applications and notifications, and the requests    *)
(* that change them: services/resume_service.py, recommendation_service.py *)
(* (approve_apply), agent_service.py (auto_apply), notification_service.py *)
(* and the rewrite of ai_features.py.  A handler is a sequence of awaited  *)
(* statements; `at' is the one it is about to run.  That a resume fits a   *)
(* job well enough to apply is Needs[job] \subseteq its skills.            *)
(***************************************************************************)
EXTENDS Sessions, Sequences, FiniteSetsExt

CONSTANTS
  None,
  Jobs,             \* the corpus, in the order of the ranking: 1, 2, ...
  Needs,            \* [job -> skills]
  MaxApplications,  \* of one auto_apply
  Calls,            \* what the requests may ask, all at about the same time:
                    \*   a set of functions on Requests, None standing for no request
  Beginnings,       \* committed tables to start from
  MaxFaults         \* bound of the model: statements that fail

ASSUME JobsAssumption ==
  Jobs \subseteq Nat /\ IsFiniteSet(Jobs) /\ MaxApplications \in Nat \ {0}

VARIABLES
  call,         \* what each request asks
  h,            \* the locals of each handler
  answer,       \* None, or how the request ended
  faults

vars == <<session, call, h, answer, faults>>

Fresh == [at |-> "arrived", resume |-> None, guess |-> FALSE, copy |-> {},
          match |-> {}, todo |-> <<>>, queued |-> 0, told |-> FALSE,
          skipped |-> FALSE, aborted |-> FALSE]

Init ==
  /\ \E committed \in Beginnings : SessionInit(committed)
  /\ call \in Calls
  /\ h = [p \in Requests |-> Fresh]
  /\ answer = [p \in Requests |-> None]
  /\ faults = 0

Does(p) == call[p].do
Profile == <<"profile", 0, 0>>
Own(p) == <<"resume", p, 0>>
Parsed(r) == {i \in Table("resume", r) : r[i].status = "parsed"}

-----------------------------------------------------------------------------
(* How a handler goes on and how it ends.                                  *)

Goes(p, to) == h' = [h EXCEPT ![p].at = to] /\ UNCHANGED <<call, answer, faults>>
Reads(p) == UNCHANGED session

Ends(p, a) ==
  /\ h' = [h EXCEPT ![p].at = "done"]
  /\ answer' = [answer EXCEPT ![p] = a]
  /\ UNCHANGED call

Refused == [ok |-> FALSE, queued |-> 0, skipped |-> FALSE]
Served(p) == [ok |-> TRUE, queued |-> h[p].queued, skipped |-> h[p].skipped]

Raises(p) ==
  /\ RollsBack(p)
  /\ Ends(p, Refused)
  /\ UNCHANGED faults

(* auto_apply: what one job raises skips the job.                          *)
Skips(p, aborted) ==
  /\ h' = [h EXCEPT ![p].todo = Tail(@), ![p].skipped = TRUE, ![p].aborted = aborted,
                    ![p].at = IF Len(h[p].todo) = 1 THEN "commit" ELSE "resume"]
  /\ UNCHANGED <<call, answer>>

Entry(p) ==
  CASE Does(p) = "approve" -> "resume"
    [] Does(p) = "auto" -> "agent"
    [] Does(p) = "verify" -> "skills"
    [] Does(p) = "upload" -> IF call[p].primary THEN "clear" ELSE "insert"
    [] Does(p) \in {"set_primary", "delete", "rewrite"} -> "find"
    [] Does(p) \in {"mark_read", "mark_all_read"} -> "notes"

Arrive(p) ==
  /\ call[p] # None /\ h[p].at = "arrived"
  /\ Begins(p) /\ Goes(p, Entry(p))

-----------------------------------------------------------------------------
(* UPDATE ... WHERE: the rows are matched when the statement begins, then  *)
(* taken one after the other, in any order, each waited for and looked at  *)
(* again.                                                                  *)

Still(p, row) ==
  CASE Does(p) \in {"upload", "set_primary"} -> row.primary
    [] Does(p) = "mark_all_read" -> ~row.read
    [] OTHER -> TRUE
Set(p, row) ==
  IF Does(p) \in {"upload", "set_primary"} THEN [row EXCEPT !.primary = FALSE]
  ELSE [row EXCEPT !.read = TRUE]
Then(p) ==
  CASE Does(p) = "upload" -> "insert" [] Does(p) = "set_primary" -> "promote" [] OTHER -> "commit"

Matches(p, K) ==
  /\ Reads(p)
  /\ h' = [h EXCEPT ![p].match = K, ![p].at = IF K = {} THEN Then(p) ELSE "update"]
  /\ UNCHANGED <<call, answer, faults>>

OnlyOne(p) ==                                                        \* mutant
  /\ h[p].at = "clear"
  /\ LET K == {i \in Table("resume", View(p)) : View(p)[i].primary}
     IN Matches(p, {i \in K : \A k \in K : i[3] <= k[3]})
clear_primary(p) ==
  /\ h[p].at = "clear"
  /\ Matches(p, {i \in Table("resume", View(p)) : View(p)[i].primary})

mark_read(p) ==
  /\ h[p].at = "notes"
  /\ Matches(p, {i \in Table("note", View(p)) :
                   IF Does(p) = "mark_read" THEN i = call[p].id ELSE ~View(p)[i].read})

Update(p) ==
  /\ h[p].at = "update"
  /\ \E i \in h[p].match :
       /\ Free(p, i)
       /\ IF i \in DOMAIN View(p) /\ Still(p, View(p)[i])
          THEN Write(p, i, Set(p, View(p)[i])) ELSE Reads(p)
       /\ h' = [h EXCEPT ![p].match = @ \ {i},
                         ![p].at = IF h[p].match = {i} THEN Then(p) ELSE @]
  /\ UNCHANGED <<call, answer, faults>>

-----------------------------------------------------------------------------
(* Requests that wait for each other's rows: the database makes one of     *)
(* their statements fail.                                                  *)

Wanted(p) ==
  CASE h[p].at = "update" -> h[p].match
    [] h[p].at \in {"promote", "delete"} -> {call[p].id}
    [] h[p].at = "flush" -> {h[p].resume}
    [] OTHER -> {}
Deadlocked(p) ==
  \E S \in SUBSET {q \in Requests : Wanted(q) # {}} :
    /\ p \in S
    /\ \A q \in S : \E i \in Wanted(q), s \in S \ {q} : i \in DOMAIN edits[s]

DeadlockDetected(p) ==
  /\ Deadlocked(p)
  /\ Raises(p)

-----------------------------------------------------------------------------
(* Resumes.                                                                *)

(* The resumes get_primary may answer; None when there is none.  With two  *)
(* primaries scalar_one_or_none raises.                                    *)
Primaries(r) == {i \in Parsed(r) : r[i].primary}
Ambiguous(p) == Cardinality(Primaries(View(p))) > 1
get_primary(p) ==
  IF Primaries(View(p)) # {} THEN Primaries(View(p))
  ELSE IF Parsed(View(p)) # {} THEN Parsed(View(p)) ELSE {None}
SkillsOf(p, i) == IF i = None \/ View(p)[i].skills = None THEN {} ELSE View(p)[i].skills

get_for_user(p) ==
  /\ h[p].at = "find"
  /\ IF call[p].id \notin DOMAIN View(p) THEN Raises(p)
     ELSE /\ Reads(p)
          /\ h' = [h EXCEPT ![p].copy = SkillsOf(p, call[p].id),
                            ![p].at = CASE Does(p) = "set_primary" -> "clear"
                                        [] Does(p) = "delete" -> "delete"
                                        [] Does(p) = "rewrite" -> "insert"]
          /\ UNCHANGED <<call, answer, faults>>

(* the end of set_primary; an UPDATE that finds no row is no error         *)
WritesItsCopy(p) ==                                                  \* mutant
  /\ h[p].at = "promote"
  /\ LET i == call[p].id
     IN IF i \in DOMAIN View(p)
        THEN Write(p, i, [View(p)[i] EXCEPT !.primary = TRUE, !.skills = h[p].copy])
        ELSE Reads(p) /\ Free(p, i)
  /\ Goes(p, "commit")
set_primary(p) ==
  /\ h[p].at = "promote"
  /\ LET i == call[p].id
     IN IF i \in DOMAIN View(p)
        THEN Write(p, i, [View(p)[i] EXCEPT !.primary = TRUE])
        ELSE Reads(p) /\ Free(p, i)
  /\ Goes(p, "commit")

(* a DELETE that finds no row is no error either                           *)
delete_resume(p) ==
  /\ h[p].at = "delete" /\ Free(p, call[p].id)
  /\ IF call[p].id \in DOMAIN View(p) THEN Write(p, call[p].id, Gone) ELSE Reads(p)
  /\ Goes(p, "commit")

(* upload_and_process up to PARSING; resume_rewrite stores a parsed        *)
(* version without a profile                                               *)
Insert(p) ==
  /\ h[p].at = "insert"
  /\ IF Does(p) = "upload"
     THEN /\ Write(p, Own(p), [status |-> "parsing", primary |-> call[p].primary, skills |-> None])
          /\ Goes(p, "parse")
     ELSE /\ Write(p, Own(p), [status |-> "parsed", primary |-> FALSE, skills |-> None])
          /\ Goes(p, "commit")

Parse(p) ==
  /\ h[p].at = "parse"
  /\ Reads(p) /\ Goes(p, "select")

ParseFails(p) ==
  /\ h[p].at = "parse"
  /\ Raises(p)

(* _profile_domains: any failure in it is caught                           *)
SelectProfile(p) ==
  /\ h[p].at = "select"
  /\ Reads(p)
  /\ h' = [h EXCEPT ![p].resume = IF Profile \in DOMAIN View(p) THEN Profile ELSE None,
                    ![p].at = "profile"]
  /\ UNCHANGED <<call, answer, faults>>

ProfilingRaises(p) ==
  /\ h[p].at = "select"
  /\ Reads(p) /\ Goes(p, "save")

FlushProfile(p) ==
  /\ h[p].at = "profile" /\ Free(p, Profile)
  /\ IF h[p].resume = None /\ Profile \in DOMAIN rows
     THEN Dies(p)
     ELSE Write(p, Profile, [by |-> p])
  /\ Goes(p, "save")

save_parsed(p) ==
  /\ h[p].at = "save"
  /\ IF p \in dead THEN Raises(p)
     ELSE /\ Write(p, Own(p), [edits[p][Own(p)] EXCEPT !.status = "parsed", !.skills = call[p].skills])
          /\ Goes(p, "commit")

(* add_verified_skills: the profile is read, extended and written back     *)
ReadSkills(p) ==
  /\ h[p].at = "skills"
  /\ \/ Ambiguous(p) /\ Raises(p)
     \/ /\ ~Ambiguous(p)
        /\ \E i \in get_primary(p) :
             IF i = None \/ View(p)[i].skills = None THEN Raises(p)
             ELSE LET new == call[p].skill \notin View(p)[i].skills
                  IN /\ Reads(p)
                     /\ h' = [h EXCEPT ![p].resume = i, ![p].copy = View(p)[i].skills,
                                       ![p].told = new,
                                       ![p].at = IF new THEN "flush" ELSE "commit"]
                     /\ UNCHANGED <<call, answer, faults>>

add_verified_skills(p) ==
  /\ h[p].at = "flush" /\ Free(p, h[p].resume)
  /\ LET i == h[p].resume
     IN IF i \in DOMAIN View(p)
        THEN /\ Write(p, i, [View(p)[i] EXCEPT !.skills = h[p].copy \cup {call[p].skill}])
             /\ Goes(p, "commit")
        ELSE Raises(p)

-----------------------------------------------------------------------------
(* Applications.                                                           *)

Fitting(skills) == {j \in Jobs : Needs[j] \subseteq skills}

(* the first MaxApplications decisions that say apply_now                  *)
Targets(skills) ==
  LET F == Fitting(skills)
      n == Min({MaxApplications, Cardinality(F)})
  IN [k \in 1..n |-> CHOOSE j \in F : Cardinality({i \in F : i < j}) = k - 1]

auto_apply(p) ==
  /\ h[p].at = "agent"
  /\ \/ Ambiguous(p) /\ Raises(p)
     \/ /\ ~Ambiguous(p) /\ Reads(p)
        /\ \E i \in get_primary(p) :
             LET todo == Targets(SkillsOf(p, i))
             IN h' = [h EXCEPT ![p].todo = todo, ![p].at = IF todo = <<>> THEN "commit" ELSE "resume"]
        /\ UNCHANGED <<call, answer, faults>>

(* What a job's approve_apply raises: auto_apply goes on with the next one. *)
ApprovalRaises(p) ==
  IF Does(p) = "auto" THEN Skips(p, h[p].aborted) /\ Reads(p) /\ UNCHANGED faults ELSE Raises(p)

ReadResume(p) ==
  /\ h[p].at = "resume"
  /\ IF p \in dead \/ Ambiguous(p) THEN ApprovalRaises(p)
     ELSE /\ \E i \in get_primary(p) :
               h' = [h EXCEPT ![p].resume = i, ![p].at = "score",
                              ![p].guess = Primaries(View(p)) = {}]
          /\ Reads(p) /\ UNCHANGED <<call, answer, faults>>

Job(p) == IF Does(p) = "auto" THEN Head(h[p].todo) ELSE call[p].job

ScoresAnyResume(p) ==                                                \* mutant
  /\ h[p].at = "score"
  /\ IF Ambiguous(p) \/ Job(p) \notin Jobs THEN ApprovalRaises(p)
     ELSE /\ \E i \in Parsed(View(p)) \cup {None} : h' = [h EXCEPT ![p].copy = i, ![p].at = "file"]
          /\ Reads(p) /\ UNCHANGED <<call, answer, faults>>
ReadScored(p) ==
  /\ h[p].at = "score"
  /\ IF Ambiguous(p) \/ Job(p) \notin Jobs THEN ApprovalRaises(p)
     ELSE /\ \E i \in get_primary(p) : h' = [h EXCEPT ![p].copy = i, ![p].at = "file"]
          /\ Reads(p) /\ UNCHANGED <<call, answer, faults>>

AppId(p) == <<"app", p, h[p].queued + 1>>
NoteId(p) == <<"note", p, h[p].queued + 1>>

CommitsFirst(p) ==                                                   \* mutant
  /\ h[p].at = "file" /\ p \notin dead
  /\ rows' = Over([i \in {AppId(p)} |-> [job |-> Job(p), resume |-> h[p].resume, scored |-> h[p].copy]], View(p))
  /\ edits' = [edits EXCEPT ![p] = Nothing]
  /\ UNCHANGED <<dead, open, overlap>>
  /\ Goes(p, "tell")
CreateApplication(p) ==
  /\ h[p].at = "file"
  /\ Write(p, AppId(p), [job |-> Job(p), resume |-> h[p].resume, scored |-> h[p].copy])
  /\ Goes(p, "tell")

(* A notification is created unread.                                        *)
_create(p, job) == Write(p, NoteId(p), [job |-> job, read |-> FALSE])
create_application_update(p) ==
  /\ h[p].at = "tell"
  /\ _create(p, Job(p))
  /\ LET more == Does(p) = "auto" /\ Len(h[p].todo) > 1
     IN h' = [h EXCEPT ![p].queued = @ + 1, ![p].todo = IF @ = <<>> THEN @ ELSE Tail(@),
                       ![p].at = IF more THEN "resume" ELSE "commit"]
  /\ UNCHANGED <<call, answer, faults>>

-----------------------------------------------------------------------------
(* get_db after the handler returned.                                      *)

Commit(p) ==
  /\ h[p].at = "commit" /\ p \notin dead
  /\ Commits(p)
  /\ Ends(p, Served(p))
  /\ UNCHANGED faults

(* the COMMIT of a transaction that only the database has aborted: it is   *)
(* answered as a ROLLBACK, which is no error                               *)
CommitVanishes(p) ==
  /\ h[p].at = "commit" /\ p \in dead /\ h[p].aborted
  /\ RollsBack(p)
  /\ Ends(p, Served(p))
  /\ UNCHANGED faults

CommitRaises(p) ==
  /\ h[p].at = "commit" /\ p \in dead /\ ~h[p].aborted
  /\ Raises(p)

(* A statement fails.  Where the code catches it, the request goes on, its *)
(* session dead: the commit will raise too after a flush or with a broken  *)
(* connection, but not where only the database has aborted the transaction, *)
(* after a SELECT.  Of a COMMIT whose connection broke the effect is       *)
(* unknown.                                                                *)
Fault(p) ==
  /\ faults < MaxFaults /\ h[p].at \notin {"arrived", "done", "parse"}
  /\ p \notin dead \/ h[p].aborted
  /\ faults' = faults + 1
  /\ CASE h[p].at \in {"select", "profile"} ->
            /\ Dies(p)
            /\ h' = [h EXCEPT ![p].at = "save"] /\ UNCHANGED <<call, answer>>
       [] Does(p) = "auto" /\ h[p].at \in {"resume", "score", "file", "tell"} ->
            /\ Dies(p)
            /\ \E aborted \in BOOLEAN : Skips(p, aborted)
       [] OTHER ->
            /\ RollsBack(p) \/ (h[p].at = "commit" /\ Commits(p))
            /\ Ends(p, Refused)

Step(p) ==
  \/ Arrive(p) \/ clear_primary(p) \/ mark_read(p) \/ Update(p)
  \/ get_for_user(p) \/ set_primary(p) \/ delete_resume(p) \/ Insert(p)
  \/ Parse(p) \/ ParseFails(p) \/ SelectProfile(p) \/ ProfilingRaises(p)
  \/ FlushProfile(p) \/ save_parsed(p) \/ ReadSkills(p) \/ add_verified_skills(p)
  \/ auto_apply(p) \/ ReadResume(p) \/ ReadScored(p) \/ CreateApplication(p)
  \/ create_application_update(p) \/ Commit(p) \/ CommitVanishes(p) \/ CommitRaises(p)
  \/ DeadlockDetected(p)

Next == \E p \in Requests : Step(p) \/ Fault(p)
Spec == Init /\ [][Next]_vars
FairSpec == Spec /\ \A p \in Requests : WF_vars(Step(p))

-----------------------------------------------------------------------------
(* A request files and announces all its applications or none, through     *)
(* failures in the middle of an auto-apply too, and an answer that reports *)
(* no skipped job reports what was filed.                                  *)
Ids(t) == {<<i[2], i[3]>> : i \in {k \in Table(t, rows) : k[2] > 0}}
Books == INSTANCE Desk WITH filed <- Ids("app"), told <- Ids("note"), MaxQueued <- MaxApplications
KeepsBooks == Books!Spec

(* The table holds no resume that was not parsed: a failed upload leaves   *)
(* nothing behind, whatever status it had written.  And an application is  *)
(* sent with the resume it was scored with (both reads of approve_apply),  *)
(* unless another request changed the primary meanwhile or there was none  *)
(* and any resume served.                                                  *)
Movers == {p \in Requests : call[p] # None /\ Does(p) \in {"upload", "set_primary", "delete"}}
SentAsScored ==
  /\ Table("resume", rows) = Parsed(rows)
  /\ \A i \in Table("app", rows) :
       \/ rows[i].resume = rows[i].scored
       \/ i[2] > 0 /\ (h[i[2]].guess \/ overlap[i[2]] \cap Movers # {})

(* However many primaries there are, a request that makes a resume the     *)
(* primary and is not interfered with leaves exactly that one.             *)
Chosen(p) == IF Does(p) = "upload" THEN Own(p) ELSE call[p].id
Heals ==
  [][\A p \in Requests :
       (/\ p \in open \ open' /\ overlap'[p] = {} /\ answer'[p] # None
        /\ answer'[p].ok
        /\ Does(p) = "set_primary" \/ (Does(p) = "upload" /\ call[p].primary))
       => Primaries(rows') = {Chosen(p)}]_vars

(* A skill the user was told is on the resume is on it as long as the      *)
(* resume is there; only another verification of the same moment, which    *)
(* writes back its own copy, may take it off.                              *)
ToldSkillsStay ==
  \A p \in Requests :
    (/\ answer[p] # None /\ answer[p].ok /\ h[p].told /\ h[p].resume \in DOMAIN rows
     /\ \A q \in Requests : p \in overlap[q] => Does(q) # "verify")
    => call[p].skill \in rows[h[p].resume].skills

(* Every request ends: whatever rows it has to wait for, and though a wait *)
(* for a row may follow a wait for another one.                            *)
RequestsEnd == \A p \in Requests : p \in open ~> p \notin open
=============================================================================
