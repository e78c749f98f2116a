----------------------------- MODULE MobileApp ------------------------------
(***************************************************************************)
(* The controllers of the mobile app that share the API client: the mentor *)
(* chat (MentorController), an offline-first feed (DashboardController and *)
(* the controllers built like it) and the learner's progress, completed    *)
(* lessons and badges, kept on the device and backed up to the server.     *)
(***************************************************************************)
EXTENDS ApiClient, Sequences, SequencesExt

CONSTANTS
    Lessons,        \* lessons of the curriculum
    Tracks,         \* the lessons of each track that has a badge
    Required,       \* lessons the learning plan marks required
    Closed, Loading, Error,     \* what the feed shows when it shows no data
    Absent,         \* no entry in the cache
    Readable,       \* versions of the feed that fromJson of this app decodes
    MaxVersion      \* bound of the model: versions of the feed on the server

ASSUME TracksAssumption ==
    /\ Required \subseteq Lessons
    /\ \A t \in DOMAIN Tracks : Tracks[t] \subseteq Lessons /\ Tracks[t] # {}
ASSUME VersionAssumption ==
    /\ MaxVersion \in Nat /\ {Closed, Loading, Error, Absent} \cap (0..MaxVersion) = {}
    /\ Readable \subseteq 0..MaxVersion

VARIABLES
    mentor,         \* MentorState: messages and sending
    shown,          \* the feed's AsyncValue: closed, loading, error, or data
    cache,          \* the feed's entry in CacheService, which a restart keeps
    lessons,        \* lessons_completed, kept on the device
    badges,         \* badges_earned, kept on the device
    rows,           \* the server's app_progress rows of the user, oldest first
    version         \* the newest version of the feed on the server

app == <<mentor, shown, cache, lessons, badges>>
server == <<rows, version>>
vars == <<calls, mentor, shown, cache, lessons, badges, rows, version>>

Versions == 0..MaxVersion
Badges == {"first-lesson", "gap-closer"} \cup DOMAIN Tracks
Progress == [lessons : SUBSET Lessons, badges : SUBSET Badges]

Message == [role : {"user", "assistant"}, text : Calls \cup {0}, pending : BOOLEAN]
Failure == 0                    \* the text of a failed request

MentorState == [messages |-> <<>>, sending |-> FALSE]       \* the empty chat

TypeOK ==
    /\ ApiTypeOK
    /\ mentor.messages \in Seq(Message) /\ mentor.sending \in BOOLEAN
    /\ shown \in {Closed, Loading, Error} \cup Versions
    /\ cache \in Versions \cup {Absent}
    /\ [lessons |-> lessons, badges |-> badges] \in Progress
    /\ rows \in Seq(Progress) /\ version \in Versions

Init ==
    /\ ApiInit
    /\ mentor = MentorState /\ shown = Closed /\ cache \in {0, Absent}
    /\ lessons = {} /\ badges = {} /\ rows = <<>> /\ version = 0

-----------------------------------------------------------------------------
(* The mentor chat.                                                        *)

send(c) ==
    /\ ~mentor.sending
    /\ mentor' = [messages |-> mentor.messages \o
                    << [role |-> "user", text |-> c, pending |-> FALSE],
                       [role |-> "assistant", text |-> Failure, pending |-> TRUE] >>,
                  sending |-> TRUE]
    /\ Request(c, [kind |-> "chat"])
    /\ UNCHANGED <<shown, cache, lessons, badges, server>>

clear ==
    /\ mentor.messages # <<>> /\ mentor' = MentorState
    /\ UNCHANGED <<calls, shown, cache, lessons, badges, server>>

AppendsAlways(messages, text) ==                                    \* mutant
    Append(messages, [role |-> "assistant", text |-> text, pending |-> FALSE])

_resolveLast(messages, text) ==
    LET idx == SelectLastInSeq(messages, LAMBDA m : m.pending)
    IN  IF idx = 0
        THEN Append(messages, [role |-> "assistant", text |-> text, pending |-> FALSE])
        ELSE [messages EXCEPT ![idx].text = text, ![idx].pending = FALSE]

(* The rest of send: the answer or a failure is shown, sending is over.    *)
SendEnds(c) ==
    /\ Kind(c) = "chat"
    /\ \E text \in {c, Failure} :
          /\ IF text = c THEN Returns(c) ELSE Raises(c)
          /\ Forgotten(c)
          /\ mentor' = [messages |-> _resolveLast(mentor.messages, text), sending |-> FALSE]
    /\ UNCHANGED <<shown, cache, lessons, badges, server>>

-----------------------------------------------------------------------------
(* The feed.                                                               *)

(* build: what is cached, and can be decoded, is shown and refreshed in    *)
(* the background.                                                         *)
build(c) ==
    /\ shown = Closed
    /\ \E cached \in {cache, Absent} :        \* an entry may have expired
          /\ cache' = cached
          /\ shown' = IF cached \in Readable THEN cached ELSE Loading
          /\ Request(c, [kind |-> "feed", background |-> cached \in Readable])
    /\ UNCHANGED <<mentor, lessons, badges, server>>

(* refresh: the screens offer it unless they show their skeletons.         *)
refresh(c) ==
    /\ shown \notin {Closed, Loading} /\ shown' = Loading
    /\ Request(c, [kind |-> "feed", background |-> FALSE])
    /\ UNCHANGED <<mentor, cache, lessons, badges, server>>

(* A failed refresh shows an error, a failed background one nothing.       *)
Failed(c) == IF calls[c].request.background THEN shown ELSE Error

ForgetsToSave(c) ==                                                 \* mutant
    /\ Returns(c) /\ UNCHANGED cache
    /\ shown' = IF Answer(c).version \in Readable THEN Answer(c).version ELSE Failed(c)

(* _fetch saves what came and then decodes it, which may throw.            *)
_fetch(c) ==
    /\ Returns(c)
    /\ cache' = Answer(c).version
    /\ shown' = IF Answer(c).version \in Readable THEN Answer(c).version ELSE Failed(c)

KeepsLoading(c) ==                                                  \* mutant
    /\ Raises(c)
    /\ UNCHANGED <<shown, cache>>

FetchFails(c) ==
    /\ Raises(c)
    /\ shown' = Failed(c)
    /\ UNCHANGED cache

FetchEnds(c) ==
    /\ Kind(c) = "feed"
    /\ _fetch(c) \/ FetchFails(c)
    /\ Forgotten(c)
    /\ UNCHANGED <<mentor, lessons, badges, server>>

-----------------------------------------------------------------------------
(* The learner's progress.                                                 *)

(* onLessonCompleted; the tracks may not have been loaded.                 *)
onLessonCompleted(lesson, completed, loaded) ==
    badges \cup {"first-lesson"}
           \cup (IF lesson \in Required THEN {"gap-closer"} ELSE {})
           \cup (IF loaded THEN {t \in DOMAIN Tracks : Tracks[t] \subseteq completed} ELSE {})

(* The lesson screen: markComplete, which sends the backup, and then the   *)
(* badges.                                                                 *)
markComplete(c, lesson) ==
    /\ lesson \notin lessons /\ lessons' = lessons \cup {lesson}
    /\ Request(c, [kind |-> "sync",
                   body |-> [lessons |-> lessons', badges |-> badges]])
    /\ \E loaded \in BOOLEAN : badges' = onLessonCompleted(lesson, lessons', loaded)
    /\ UNCHANGED <<mentor, shown, cache, server>>

(* The answer to the backup is ignored, and so is its failure.             *)
SyncEnds(c) ==
    /\ Kind(c) = "sync"
    /\ Returns(c) \/ Raises(c)
    /\ Ended(c)
    /\ UNCHANGED <<app, server>>

-----------------------------------------------------------------------------
(* The server.                                                             *)

(* GET of the feed and POST of a chat message, for a call that waits.      *)
Handles(c) ==
    /\ Kind(c) \in {"chat", "feed"} /\ calls[c].state = "waiting"
    /\ Answer(c).at = "sent"
    /\ Answered(c, calls[c].retry, IF Kind(c) = "chat" THEN [at |-> "ok"]
                                   ELSE [at |-> "ok", version |-> version])
    /\ UNCHANGED <<app, server>>

(* put_progress: one of the user's rows, or none, is loaded and overwritten*)
(* by the transaction's end.                                               *)
put_progress(c, i) ==
    /\ calls[c].copies[i].at = "sent" /\ Kind(c) = "sync"
    /\ \E row \in IF rows = <<>> THEN {0} ELSE DOMAIN rows :
          Answered(c, i, [at |-> "read", row |-> row])
    /\ UNCHANGED <<app, server>>

CommitProgress(c, i) ==
    /\ calls[c].copies[i].at = "read"
    /\ LET row == calls[c].copies[i].row
           body == calls[c].request.body
       IN  rows' = IF row = 0 THEN Append(rows, body) ELSE [rows EXCEPT ![row] = body]
    /\ Answered(c, i, [at |-> "ok"])
    /\ UNCHANGED <<app, version>>

(* get_progress: the newest row.                                           *)
get_progress == IF rows = <<>> THEN [lessons |-> {}, badges |-> {}] ELSE Last(rows)

NewVersion ==
    /\ version < MaxVersion /\ version' = version + 1
    /\ UNCHANGED <<calls, app, rows>>

-----------------------------------------------------------------------------
(* The app is killed and opened again: its calls are forgotten (but not    *)
(* the copies it sent), what CacheService holds is kept.                   *)
Restart ==
    /\ shown # Closed /\ shown' = Closed /\ mentor' = MentorState
    /\ calls' = [c \in Calls |->
                    CASE calls[c] = Unused -> Unused
                      [] Kind(c) = "sync" ->
                            [calls[c] EXCEPT !.state = "ended"]
                      [] OTHER -> [Unused EXCEPT !.state = "ended"]]
    /\ UNCHANGED <<cache, lessons, badges, server>>

ClientStep(c) ==
    \/ Transport(c) /\ UNCHANGED <<app, server>>
    \/ SendEnds(c) \/ FetchEnds(c) \/ SyncEnds(c)

Next ==
    \/ \E c \in Calls :
          \/ send(c) \/ build(c) \/ refresh(c)
          \/ \E lesson \in Lessons : markComplete(c, lesson)
          \/ ClientStep(c)
          \/ Handles(c)
          \/ \E i \in Copies : put_progress(c, i) \/ CommitProgress(c, i)
          \/ Refuses(c) /\ UNCHANGED <<app, server>>
    \/ clear \/ NewVersion \/ Restart

(* Every timeout and delay of the client is finite; the server, the user   *)
(* and the network owe nothing.                                            *)
Fairness == \A c \in Calls : WF_vars(ClientStep(c))

Spec == Init /\ [][Next]_vars /\ Fairness

-----------------------------------------------------------------------------
(* Properties.                                                             *)

Pending == {i \in DOMAIN mentor.messages : mentor.messages[i].pending}

(* The send button is disabled exactly while a bubble waits for its        *)
(* answer, and no bubble is left waiting, also when the chat was cleared   *)
(* and used again while an answer was on its way (MentorController.send).  *)
SendingMeansPending ==
    Pending = IF mentor.sending THEN {Len(mentor.messages)} ELSE {}

(* What the feed shows is what a restart would show, or the cache holds a  *)
(* version this app cannot decode, which a fetch saved before it failed:   *)
(* background and user's refreshes finish in any order, and none leaves    *)
(* the screen with an older answer than the cache otherwise (_fetch,       *)
(* _refresh).                                                              *)
ShownIsCached == shown \in Versions =>
    shown \in Readable /\ (cache = shown \/ cache \in Versions \ Readable)

(* No skeleton and no typing bubble stays for ever, whatever the network   *)
(* does.                                                                   *)
NothingLoadsForever ==
    /\ mentor.sending ~> ~mentor.sending
    /\ shown = Loading ~> shown # Loading
=============================================================================
