--------------------------- MODULE MobileApp_proofs ---------------------------
(***************************************************************************)
(* The chat and the feed of the mobile app, for any number of calls,       *)
(* retries and versions: whatever answers come back, late, twice refused   *)
(* or after the chat was cleared, the send button tells the truth, and     *)
(* what is shown is what is kept.                                          *)
(***************************************************************************)
EXTENDS MobileApp, SequenceTheorems, TLAPS

Waits(messages) == {i \in DOMAIN messages : messages[i].pending}

Chat ==
    /\ mentor.messages \in Seq(Message) /\ mentor.sending \in BOOLEAN
    /\ SendingMeansPending

-----------------------------------------------------------------------------
(* Messages.                                                               *)

LEMMA Said ==
  ASSUME NEW messages \in Seq(Message), NEW m \in Message, ~m.pending
  PROVE  /\ Append(messages, m) \in Seq(Message)
         /\ Waits(Append(messages, m)) = Waits(messages)
<1>1. /\ Append(messages, m) \in Seq(Message) /\ Len(messages) \in Nat
      /\ DOMAIN messages = 1..Len(messages) /\ DOMAIN Append(messages, m) = 1..(Len(messages) + 1)
      /\ Append(messages, m)[Len(messages) + 1] = m
      /\ \A i \in 1..Len(messages) : Append(messages, m)[i] = messages[i]
  OBVIOUS
<1> QED BY <1>1 DEF Waits

LEMMA LastWaiting ==
  ASSUME NEW messages \in Seq(Message)
  PROVE  /\ Waits(messages) = {} => SelectLastInSeq(messages, LAMBDA m : m.pending) = 0
         /\ \A k \in Nat : Waits(messages) = {k} => SelectLastInSeq(messages, LAMBDA m : m.pending) = k
<1>1. DOMAIN messages = 1..Len(messages)
  OBVIOUS
<1>2. {i \in 1..Len(messages) : messages[i].pending} = Waits(messages)
  BY <1>1 DEF Waits
<1>3. SelectLastInSeq(messages, LAMBDA m : m.pending) =
         IF {i \in 1..Len(messages) : messages[i].pending} # {}
         THEN Max({i \in 1..Len(messages) : messages[i].pending}) ELSE 0
  BY DEF SelectLastInSeq
<1>4. \A k \in Nat : Max({k}) = k
  BY DEF Max
<1> QED BY <1>2, <1>3, <1>4

(* The answer takes the place of the bubble that waits, and if the chat    *)
(* was cleared meanwhile it is added.                                      *)
LEMMA Resolved ==
  ASSUME NEW messages \in Seq(Message), NEW text \in Calls \cup {0}, NEW k \in Nat,
         Waits(messages) \subseteq {k}
  PROVE  /\ _resolveLast(messages, text) \in Seq(Message)
         /\ Waits(_resolveLast(messages, text)) = {}
<1> DEFINE idx == SelectLastInSeq(messages, LAMBDA m : m.pending)
           answer == [role |-> "assistant", text |-> text, pending |-> FALSE]
<1>1. _resolveLast(messages, text) =
         IF idx = 0 THEN Append(messages, answer)
         ELSE [messages EXCEPT ![idx].text = text, ![idx].pending = FALSE]
  BY DEF _resolveLast
<1>2. answer \in Message /\ ~answer.pending
  BY DEF Message
<1>3. CASE Waits(messages) = {}
  <2>1. idx = 0
    BY <1>3, LastWaiting
  <2> HIDE DEF idx, answer
  <2> QED BY <1>1, <1>2, <1>3, <2>1, Said
<1>4. CASE Waits(messages) = {k}
  <2>1. idx = k
    BY <1>4, LastWaiting
  <2>2. k \in DOMAIN messages /\ k # 0 /\ messages[k] \in Message
    BY <1>4 DEF Waits
  <2> HIDE DEF idx
  <2>3. _resolveLast(messages, text) = [messages EXCEPT ![k].text = text, ![k].pending = FALSE]
    BY <1>1, <2>1, <2>2
  <2> DEFINE m == [messages[k] EXCEPT !.text = text, !.pending = FALSE]
  <2>4. m \in Message /\ ~m.pending
    BY <2>2 DEF Message
  <2>5. _resolveLast(messages, text) = [messages EXCEPT ![k] = m]
    BY <2>2, <2>3
  <2> HIDE DEF m
  <2>6. /\ _resolveLast(messages, text) \in Seq(Message)
        /\ DOMAIN _resolveLast(messages, text) = DOMAIN messages
        /\ _resolveLast(messages, text)[k] = m
        /\ \A i \in DOMAIN messages : i # k => _resolveLast(messages, text)[i] = messages[i]
    BY <2>2, <2>4, <2>5
  <2> QED BY <1>4, <2>4, <2>6 DEF Waits
<1> QED BY <1>3, <1>4

-----------------------------------------------------------------------------
(* The chat.                                                               *)

LEMMA ChatMeans ==
  SendingMeansPending <=>
     Waits(mentor.messages) = IF mentor.sending THEN {Len(mentor.messages)} ELSE {}
  BY DEF SendingMeansPending, Pending, Waits

LEMMA SendKeepsChat ==
  ASSUME Chat, NEW c \in Calls, send(c)
  PROVE  Chat'
<1> DEFINE asked == [role |-> "user", text |-> c, pending |-> FALSE]
           bubble == [role |-> "assistant", text |-> Failure, pending |-> TRUE]
           old == mentor.messages
           new == old \o <<asked, bubble>>
<1>1. mentor' = [messages |-> new, sending |-> TRUE] /\ ~mentor.sending
  BY DEF send
<1>2. asked \in Message /\ bubble \in Message /\ ~asked.pending /\ bubble.pending
  BY DEF Message, Failure
<1>3. old \in Seq(Message) /\ Waits(old) = {}
  BY <1>1, ChatMeans DEF Chat
<1> HIDE DEF asked, bubble
<1>4. /\ new \in Seq(Message) /\ Len(new) = Len(old) + 2 /\ Len(old) \in Nat
      /\ DOMAIN new = 1..(Len(old) + 2) /\ DOMAIN old = 1..Len(old)
      /\ new[Len(old) + 1] = asked /\ new[Len(old) + 2] = bubble
      /\ \A i \in 1..Len(old) : new[i] = old[i]
  BY <1>2, <1>3
<1> HIDE DEF old, new
<1>5. Waits(new) = {Len(new)}
  <2>1. \A i \in 1..Len(old) : ~new[i].pending
    BY <1>3, <1>4 DEF Waits
  <2>2. \A i \in DOMAIN new : i \in 1..Len(old) \/ i = Len(old) + 1 \/ i = Len(old) + 2
    BY <1>4
  <2>3. \A i \in DOMAIN new : new[i].pending <=> i = Len(old) + 2
    BY <1>2, <1>4, <2>1, <2>2
  <2> QED BY <1>4, <2>3 DEF Waits
<1>6. mentor'.messages = new /\ mentor'.sending = TRUE
  BY <1>1
<1>7. SendingMeansPending'
  BY <1>5, <1>6 DEF SendingMeansPending, Pending, Waits
<1> QED BY <1>4, <1>6, <1>7 DEF Chat

LEMMA AnswerKeepsChat ==
  ASSUME Chat, NEW c \in Calls, SendEnds(c)
  PROVE  Chat'
<1>1. PICK text \in {c, Failure} :
         mentor' = [messages |-> _resolveLast(mentor.messages, text), sending |-> FALSE]
  BY DEF SendEnds
<1>2. text \in Calls \cup {0} /\ mentor.messages \in Seq(Message) /\ Len(mentor.messages) \in Nat
  BY DEF Failure, Chat
<1>3. Waits(mentor.messages) \subseteq {Len(mentor.messages)}
  BY ChatMeans DEF Chat
<1> DEFINE new == _resolveLast(mentor.messages, text)
<1>4. new \in Seq(Message) /\ Waits(new) = {}
  BY <1>2, <1>3, Resolved
<1>5. mentor'.messages = new /\ mentor'.sending = FALSE
  BY <1>1
<1> HIDE DEF new
<1>6. SendingMeansPending'
  BY <1>4, <1>5 DEF SendingMeansPending, Pending, Waits
<1> QED BY <1>4, <1>5, <1>6 DEF Chat

LEMMA EmptyChat == mentor = MentorState => Chat
<1> SUFFICES ASSUME mentor = MentorState PROVE Chat
  OBVIOUS
<1>1. mentor.messages = <<>> /\ mentor.sending = FALSE
  BY DEF MentorState
<1>2. SendingMeansPending
  BY <1>1 DEF SendingMeansPending, Pending
<1>3. <<>> \in Seq(Message)
  OBVIOUS
<1>4. mentor.messages \in Seq(Message)
  BY <1>1, <1>3
<1>5. mentor.sending \in BOOLEAN
  BY <1>1
<1> QED BY <1>2, <1>4, <1>5 DEF Chat

LEMMA EmptiedChat == mentor' = MentorState => Chat'
<1> SUFFICES ASSUME mentor' = MentorState PROVE Chat'
  OBVIOUS
<1>1. mentor'.messages = <<>> /\ mentor'.sending = FALSE
  BY DEF MentorState
<1>2. SendingMeansPending'
  BY <1>1 DEF SendingMeansPending, Pending
<1>3. <<>> \in Seq(Message)
  OBVIOUS
<1>4. mentor'.messages \in Seq(Message)
  BY <1>1, <1>3
<1>5. mentor'.sending \in BOOLEAN
  BY <1>1
<1> QED BY <1>2, <1>4, <1>5 DEF Chat

LEMMA QuietChat == Chat /\ mentor' = mentor => Chat'
  BY DEF Chat, SendingMeansPending, Pending

(* The chat is changed by its own steps only.                              *)
LEMMA ChatInductive == Chat /\ [Next]_vars => Chat'
<1> SUFFICES ASSUME Chat, [Next]_vars PROVE Chat'
  OBVIOUS
<1>1. ASSUME NEW c \in Calls, send(c) PROVE Chat'
  BY <1>1, SendKeepsChat
<1>2. ASSUME NEW c \in Calls, SendEnds(c) PROVE Chat'
  BY <1>2, AnswerKeepsChat
<1>3. CASE clear \/ Restart
  BY <1>3, EmptiedChat DEF clear, Restart
<1>4. ASSUME NEW c \in Calls,
             \/ build(c) \/ refresh(c) \/ \E lesson \in Lessons : markComplete(c, lesson)
             \/ Transport(c) /\ UNCHANGED <<app, server>>
             \/ FetchEnds(c) \/ SyncEnds(c) \/ Handles(c)
             \/ \E i \in Copies : put_progress(c, i) \/ CommitProgress(c, i)
             \/ Refuses(c) /\ UNCHANGED <<app, server>>
      PROVE  mentor' = mentor
  BY <1>4 DEF build, refresh, markComplete, FetchEnds, SyncEnds, Handles, put_progress,
              CommitProgress, app
<1>5. CASE NewVersion \/ UNCHANGED vars
  BY <1>5, QuietChat DEF NewVersion, app, vars
<1> QED BY <1>1, <1>2, <1>3, <1>4, <1>5, QuietChat DEF Next, ClientStep

-----------------------------------------------------------------------------
(* What the calls carry: a feed's answer names a version of the feed.      *)

Requests ==
    {[kind |-> "none"], [kind |-> "chat"]}
        \cup [kind : {"feed"}, background : BOOLEAN]
        \cup [kind : {"sync"}, body : Progress]

CopyStates ==
    {None, [at |-> "sent"], [at |-> "error"], [at |-> "ok"]}
        \cup [at : {"ok"}, version : Versions] \cup [at : {"read"}, row : Nat]

Call == [state : CallStates, request : Requests, retry : Copies,
         copies : [Copies -> CopyStates]]

Sound(call) == \A i \in Copies :
    /\ call.copies[i].at = "ok" /\ call.request.kind = "feed" =>
           call.copies[i].version \in Versions
    /\ call.copies[i].at = "read" => call.request.kind = "sync" /\ call.copies[i].row \in Nat

Kept ==
    /\ version \in Versions /\ rows \in Seq(Progress)
    /\ lessons \subseteq Lessons /\ badges \subseteq Badges

Carried == calls \in [Calls -> Call] /\ \A c \in Calls : Sound(calls[c])

LEMMA UnusedIsSound == Unused \in Call /\ Sound(Unused)
  BY RetriesAssumption DEF Unused, Call, Sound, Requests, CopyStates, CallStates, Copies, None

LEMMA CallChanged ==
  ASSUME Carried, NEW c \in Calls, NEW call \in Call, Sound(call),
         calls' = [calls EXCEPT ![c] = call]
  PROVE  Carried'
<1>1. calls' \in [Calls -> Call]
  BY DEF Carried
<1>2. ASSUME NEW d \in Calls PROVE Sound(calls'[d])
  <2>1. calls'[d] = IF d = c THEN call ELSE calls[d]
    BY DEF Carried
  <2> QED BY <2>1 DEF Carried
<1>3. (\A d \in Calls : Sound(calls[d]))'
  BY <1>2 DEF Sound, Copies
<1> QED BY <1>1, <1>3 DEF Carried

(* A new call.                                                             *)
LEMMA RequestCarries ==
  ASSUME Carried, NEW c \in Calls, NEW request \in Requests, Request(c, request)
  PROVE  Carried'
<1> DEFINE call == [calls[c] EXCEPT !.state = "checking", !.request = request]
<1>1. calls[c] \in Call /\ calls[c] = Unused
  BY DEF Carried, Request
<1>2. calls' = [calls EXCEPT ![c] = call]
  BY DEF Request, Carried
<1>3. call \in Call /\ call.copies = calls[c].copies
  BY <1>1 DEF Call, CallStates
<1>4. Sound(call)
  BY <1>1, <1>3 DEF Sound, Unused, None
<1> HIDE DEF call
<1> QED BY <1>2, <1>3, <1>4, CallChanged

(* A copy is sent, or answered.                                            *)
LEMMA AnswerCarries ==
  ASSUME Carried, NEW c \in Calls, NEW i \in Copies, NEW answer \in CopyStates,
         NEW state \in CallStates,
         answer.at = "ok" /\ Kind(c) = "feed" => answer.version \in Versions,
         answer.at = "read" => Kind(c) = "sync" /\ answer.row \in Nat,
         calls' = [calls EXCEPT ![c].state = state, ![c].copies[i] = answer]
  PROVE  Carried'
<1> DEFINE copies == [calls[c].copies EXCEPT ![i] = answer]
           call == [calls[c] EXCEPT !.state = state, !.copies = copies]
<1>1. calls[c] \in Call /\ Sound(calls[c])
  BY DEF Carried
<1>2. calls' = [calls EXCEPT ![c] = call]
  BY <1>1 DEF Carried, Call
<1>3. /\ copies \in [Copies -> CopyStates]
      /\ \A j \in Copies : copies[j] = IF j = i THEN answer ELSE calls[c].copies[j]
  BY <1>1 DEF Call
<1> HIDE DEF copies
<1>4. call \in Call /\ call.copies = copies /\ call.request = calls[c].request
  BY <1>1, <1>3 DEF Call
<1> HIDE DEF call
<1>5. Sound(call)
  BY <1>1, <1>3, <1>4 DEF Sound, Kind
<1> QED BY <1>2, <1>4, <1>5, CallChanged

LEMMA AnsweredCarries ==
  ASSUME Carried, NEW c \in Calls, NEW i \in Copies, NEW answer \in CopyStates,
         answer.at = "ok" /\ Kind(c) = "feed" => answer.version \in Versions,
         answer.at = "read" => Kind(c) = "sync" /\ answer.row \in Nat,
         Answered(c, i, answer)
  PROVE  Carried'
<1> DEFINE state == calls[c].state
<1>1. calls[c] \in Call
  BY DEF Carried
<1>2. state \in CallStates
  BY <1>1 DEF Call
<1>3. calls' = [calls EXCEPT ![c].state = state, ![c].copies[i] = answer]
  BY <1>1 DEF Answered, Carried, Call
<1> HIDE DEF state
<1> QED BY <1>2, <1>3, AnswerCarries

LEMMA EndCarries ==
  ASSUME Carried, NEW c \in Calls, Ended(c) \/ Forgotten(c)
  PROVE  Carried'
<1>1. CASE Ended(c)
  <2> DEFINE call == [calls[c] EXCEPT !.state = "ended"]
  <2>1. calls[c] \in Call /\ Sound(calls[c])
    BY DEF Carried
  <2>2. calls' = [calls EXCEPT ![c] = call]
    BY <1>1 DEF Ended, Carried
  <2>3. call \in Call /\ call.copies = calls[c].copies /\ call.request = calls[c].request
    BY <2>1 DEF Call, CallStates
  <2> HIDE DEF call
  <2>4. Sound(call)
    BY <2>1, <2>3 DEF Sound
  <2> QED BY <2>2, <2>3, <2>4, CallChanged
<1>2. CASE Forgotten(c)
  <2> DEFINE call == [Unused EXCEPT !.state = "ended"]
  <2>1. call \in Call /\ call.copies = Unused.copies /\ call.request = Unused.request
    BY UnusedIsSound DEF Call, CallStates
  <2>2. calls' = [calls EXCEPT ![c] = call]
    BY <1>2 DEF Forgotten
  <2> HIDE DEF call
  <2>3. Sound(call)
    BY <2>1, UnusedIsSound DEF Sound
  <2> QED BY <2>1, <2>2, <2>3, CallChanged
<1> QED BY <1>1, <1>2

LEMMA TransportCarries ==
  ASSUME Carried, NEW c \in Calls, Transport(c)
  PROVE  Carried'
<1>1. calls[c] \in Call /\ calls[c].retry \in Copies
  BY DEF Carried, Call
<1>2. CASE Check(c)
  <2>1. [at |-> "sent"] \in CopyStates /\ "waiting" \in CallStates
    BY DEF CopyStates, CallStates
  <2> QED BY <1>1, <1>2, <2>1, AnswerCarries DEF Check
<1>3. CASE Retry(c)
  <2> DEFINE call == [calls[c] EXCEPT !.state = "checking", !.retry = @ + 1]
  <2>1. calls[c].retry + 1 \in Copies
    BY <1>1, <1>3, RetriesAssumption DEF Retry, Copies
  <2>2. calls' = [calls EXCEPT ![c] = call]
    BY <1>1, <1>3 DEF Retry, Carried
  <2>3. call \in Call /\ call.copies = calls[c].copies /\ call.request = calls[c].request
    BY <1>1, <2>1 DEF Call, CallStates
  <2> HIDE DEF call
  <2>4. Sound(call)
    BY <2>3 DEF Sound, Carried
  <2> QED BY <2>2, <2>3, <2>4, CallChanged
<1> QED BY <1>2, <1>3 DEF Transport

LEMMA RestartCarries == Carried /\ Restart => Carried'
<1> SUFFICES ASSUME Carried, Restart PROVE Carried'
  OBVIOUS
<1>1. ASSUME NEW c \in Calls PROVE calls'[c] \in Call /\ Sound(calls'[c])
  <2>0. calls[c] \in Call /\ Sound(calls[c])
    BY DEF Carried
  <2>1. CASE calls[c] = Unused
    <3>1. calls'[c] = Unused
      BY <2>1 DEF Restart, Kind, Unused
    <3> QED BY <3>1, UnusedIsSound
  <2>2. CASE calls[c] # Unused /\ Kind(c) = "sync"
    <3> DEFINE call == [calls[c] EXCEPT !.state = "ended"]
    <3>1. calls'[c] = call
      BY <2>2 DEF Restart
    <3>2. call \in Call /\ call.copies = calls[c].copies /\ call.request = calls[c].request
      BY <2>0 DEF Call, CallStates
    <3> HIDE DEF call
    <3> QED BY <2>0, <3>1, <3>2 DEF Sound
  <2>3. CASE calls[c] # Unused /\ Kind(c) # "sync"
    <3> DEFINE call == [Unused EXCEPT !.state = "ended"]
    <3>1. calls'[c] = call
      BY <2>3 DEF Restart
    <3>2. call \in Call /\ call.copies = Unused.copies /\ call.request = Unused.request
      BY UnusedIsSound DEF Call, CallStates
    <3> HIDE DEF call
    <3> QED BY UnusedIsSound, <3>1, <3>2 DEF Sound
  <2> QED BY <2>1, <2>2, <2>3
<1>2. calls' = [c \in Calls |-> calls'[c]]
  BY DEF Restart
<1>3. calls' \in [Calls -> Call]
  BY <1>1, <1>2
<1>4. (\A c \in Calls : Sound(calls[c]))'
  BY <1>1 DEF Sound, Copies
<1> QED BY <1>3, <1>4 DEF Carried

LEMMA CarriedInductive == Kept /\ Carried /\ [Next]_vars => Kept' /\ Carried'
<1> SUFFICES ASSUME Kept, Carried, [Next]_vars PROVE Kept' /\ Carried'
  OBVIOUS
<1>1. ASSUME NEW c \in Calls, send(c) PROVE Kept' /\ Carried'
  <2>1. [kind |-> "chat"] \in Requests
    BY DEF Requests
  <2> QED BY <1>1, <2>1, RequestCarries DEF send, Kept, server
<1>2. ASSUME NEW c \in Calls, build(c) \/ refresh(c) PROVE Kept' /\ Carried'
  <2>1. \A b \in BOOLEAN : [kind |-> "feed", background |-> b] \in Requests
    BY DEF Requests
  <2>2. PICK b \in BOOLEAN : Request(c, [kind |-> "feed", background |-> b])
    <3>1. CASE build(c)
      <4>1. PICK cached \in {cache, Absent} :
               Request(c, [kind |-> "feed", background |-> cached \in Readable])
        BY <3>1 DEF build
      <4>2. (cached \in Readable) = TRUE \/ (cached \in Readable) = FALSE
        OBVIOUS
      <4> QED BY <4>1, <4>2
    <3>2. CASE refresh(c)
      BY <3>2 DEF refresh
    <3> QED BY <1>2, <3>1, <3>2
  <2> QED BY <1>2, <2>1, <2>2, RequestCarries DEF build, refresh, Kept, server
<1>3. ASSUME NEW c \in Calls, NEW lesson \in Lessons, markComplete(c, lesson)
      PROVE  Kept' /\ Carried'
  <2>1. lessons' \subseteq Lessons
    BY <1>3 DEF markComplete, Kept
  <2>2. badges' \subseteq Badges
    <3>1. PICK loaded \in BOOLEAN : badges' = onLessonCompleted(lesson, lessons', loaded)
      BY <1>3 DEF markComplete
    <3> QED BY <3>1 DEF onLessonCompleted, Badges, Kept
  <2> DEFINE body == [lessons |-> lessons', badges |-> badges]
  <2>3. body \in Progress
    BY <2>1 DEF Progress, Kept
  <2>4. Request(c, [kind |-> "sync", body |-> body])
    BY <1>3 DEF markComplete
  <2> HIDE DEF body
  <2>5. [kind |-> "sync", body |-> body] \in Requests
    BY <2>3 DEF Requests
  <2>6. Carried'
    BY <2>4, <2>5, RequestCarries
  <2> QED BY <1>3, <2>1, <2>2, <2>6 DEF markComplete, Kept, server
<1>4. ASSUME NEW c \in Calls, Transport(c) /\ UNCHANGED <<app, server>>
      PROVE  Kept' /\ Carried'
  BY <1>4, TransportCarries DEF Kept, app, server
<1>5. ASSUME NEW c \in Calls, SendEnds(c) \/ FetchEnds(c) \/ SyncEnds(c)
      PROVE  Kept' /\ Carried'
  <2>1. Ended(c) \/ Forgotten(c)
    BY <1>5 DEF SendEnds, FetchEnds, SyncEnds
  <2>2. Kept'
    BY <1>5 DEF SendEnds, FetchEnds, SyncEnds, Kept, app, server
  <2> QED BY <2>1, <2>2, EndCarries
<1>6. ASSUME NEW c \in Calls, Handles(c) PROVE Kept' /\ Carried'
  <2>1. calls[c].retry \in Copies
    BY DEF Carried, Call
  <2> DEFINE answer == IF Kind(c) = "chat" THEN [at |-> "ok"]
                       ELSE [at |-> "ok", version |-> version]
  <2>2. answer \in CopyStates /\ answer.at = "ok"
    BY DEF CopyStates, Kept
  <2>3. Kind(c) = "feed" => answer.version \in Versions
    BY DEF Kept
  <2>4. Answered(c, calls[c].retry, answer)
    BY <1>6 DEF Handles
  <2> HIDE DEF answer
  <2>5. Carried'
    BY <2>1, <2>2, <2>3, <2>4, AnsweredCarries
  <2> QED BY <1>6, <2>5 DEF Handles, Kept, app, server
<1>7. ASSUME NEW c \in Calls, NEW i \in Copies, put_progress(c, i) PROVE Kept' /\ Carried'
  <2>1. PICK row \in IF rows = <<>> THEN {0} ELSE DOMAIN rows :
           Answered(c, i, [at |-> "read", row |-> row])
    BY <1>7 DEF put_progress
  <2>2. row \in Nat
    BY <2>1 DEF Kept
  <2>3. [at |-> "read", row |-> row] \in CopyStates
    BY <2>2 DEF CopyStates
  <2>4. Carried'
    BY <1>7, <2>1, <2>2, <2>3, AnsweredCarries DEF put_progress
  <2> QED BY <1>7, <2>4 DEF put_progress, Kept, app, server
<1>8. ASSUME NEW c \in Calls, NEW i \in Copies, CommitProgress(c, i) PROVE Kept' /\ Carried'
  <2>1. calls[c] \in Call /\ Kind(c) = "sync"
    BY <1>8 DEF CommitProgress, Carried, Sound, Kind
  <2>2. calls[c].request.body \in Progress
    BY <2>1 DEF Call, Requests, Kind
  <2>3. rows' \in Seq(Progress)
    <3> DEFINE body == calls[c].request.body
               row == calls[c].copies[i].row
    <3>1. rows' = IF row = 0 THEN Append(rows, body) ELSE [rows EXCEPT ![row] = body]
      BY <1>8 DEF CommitProgress
    <3> HIDE DEF body, row
    <3>2. body \in Progress
      BY <2>2 DEF body
    <3>3. rows \in Seq(Progress)
      BY DEF Kept
    <3>4. [rows EXCEPT ![row] = body] \in Seq(Progress)
      <4>1. CASE row \in DOMAIN rows
        BY <3>2, <3>3, <4>1
      <4>2. CASE row \notin DOMAIN rows
        <5>1. [rows EXCEPT ![row] = body] = rows
          BY <3>3, <4>2
        <5> QED BY <3>3, <5>1
      <4> QED BY <4>1, <4>2
    <3>5. Append(rows, body) \in Seq(Progress)
      BY <3>2, <3>3
    <3> QED BY <3>1, <3>4, <3>5
  <2>4. [at |-> "ok"] \in CopyStates
    BY DEF CopyStates
  <2>5. Carried'
    BY <1>8, <2>1, <2>4, AnsweredCarries DEF CommitProgress
  <2> QED BY <1>8, <2>3, <2>5 DEF CommitProgress, Kept, app
<1>9. ASSUME NEW c \in Calls, Refuses(c) /\ UNCHANGED <<app, server>> PROVE Kept' /\ Carried'
  <2>1. calls[c].retry \in Copies
    BY DEF Carried, Call
  <2>2. [at |-> "error"] \in CopyStates
    BY DEF CopyStates
  <2>3. Carried'
    BY <1>9, <2>1, <2>2, AnsweredCarries DEF Refuses
  <2> QED BY <1>9, <2>3 DEF Kept, app, server
<1>10. CASE Restart
  BY <1>10, RestartCarries DEF Restart, Kept, server
<1>11. CASE NewVersion
  <2>1. version' \in Versions
    BY <1>11, VersionAssumption DEF NewVersion, Kept, Versions
  <2> QED BY <1>11, <2>1 DEF NewVersion, Kept, Carried, Sound, app
<1>12. CASE clear \/ UNCHANGED vars
  BY <1>12 DEF clear, vars, server, Kept, Carried, Sound
<1> QED BY <1>1, <1>2, <1>3, <1>4, <1>5, <1>6, <1>7, <1>8, <1>9, <1>10, <1>11, <1>12
        DEF Next, ClientStep

-----------------------------------------------------------------------------
(* The feed.                                                               *)

LEMMA FeedInductive == Carried /\ ShownIsCached /\ [Next]_vars => ShownIsCached'
<1> DEFINE Shows == /\ shown' \in Readable
                    /\ cache' = shown' \/ cache' \in Versions \ Readable
<1> SUFFICES ASSUME Carried, ShownIsCached, [Next]_vars, shown' \in Versions PROVE Shows
  BY DEF ShownIsCached
<1>1. /\ Closed \notin Versions /\ Loading \notin Versions
      /\ Error \notin Versions /\ Absent \notin Versions
  BY VersionAssumption DEF Versions
<1>2. ASSUME NEW c \in Calls, build(c) PROVE Shows
  BY <1>1, <1>2 DEF build, Versions
<1>3. ASSUME NEW c \in Calls, refresh(c) PROVE FALSE
  BY <1>1, <1>3 DEF refresh
<1>4. ASSUME NEW c \in Calls, FetchEnds(c) PROVE Shows
  <2>1. CASE _fetch(c)
    <3> DEFINE v == Answer(c).version
    <3>1. /\ cache' = v
          /\ shown' = IF v \in Readable THEN v ELSE Failed(c)
      BY <2>1 DEF _fetch
    <3>2. CASE v \in Readable
      BY <3>1, <3>2
    <3>3. CASE v \notin Readable
      <4>1. shown' = shown
        BY <1>1, <3>1, <3>3 DEF Failed
      <4>2. shown \in Readable
        BY <4>1 DEF ShownIsCached
      <4>3. v \in Versions
        BY <1>4, <2>1 DEF _fetch, Returns, FetchEnds, Answer, Kind, Carried, Call, Sound
      <4> QED BY <3>1, <3>3, <4>1, <4>2, <4>3
    <3> QED BY <3>2, <3>3
  <2>2. CASE FetchFails(c)
    <3>1. shown' = shown /\ cache' = cache
      BY <1>1, <2>2 DEF FetchFails, Failed
    <3> QED BY <3>1 DEF ShownIsCached
  <2> QED BY <1>4, <2>1, <2>2 DEF FetchEnds
<1>5. CASE Restart
  BY <1>1, <1>5 DEF Restart
<1>6. ASSUME NEW c \in Calls,
             \/ send(c) \/ SendEnds(c) \/ \E lesson \in Lessons : markComplete(c, lesson)
             \/ Transport(c) /\ UNCHANGED <<app, server>>
             \/ SyncEnds(c) \/ Handles(c)
             \/ \E i \in Copies : put_progress(c, i) \/ CommitProgress(c, i)
             \/ Refuses(c) /\ UNCHANGED <<app, server>>
      PROVE  shown' = shown /\ cache' = cache
  BY <1>6 DEF send, SendEnds, markComplete, SyncEnds, Handles, put_progress, CommitProgress, app
<1>7. CASE clear \/ NewVersion \/ UNCHANGED vars
  BY <1>7 DEF clear, NewVersion, app, vars, ShownIsCached
<1> QED BY <1>2, <1>3, <1>4, <1>5, <1>6, <1>7 DEF Next, ClientStep, ShownIsCached

IInv == Chat /\ Kept /\ Carried /\ ShownIsCached

LEMMA AlwaysInductive == Spec => []IInv
<1>1. Init => IInv
  <2> SUFFICES ASSUME Init PROVE IInv
    OBVIOUS
  <2>1. Chat
    BY EmptyChat DEF Init
  <2>2. Kept
    BY VersionAssumption DEF Init, Kept, Versions
  <2>3. Carried
    BY UnusedIsSound DEF Init, ApiInit, Carried
  <2>4. ShownIsCached
    BY VersionAssumption DEF Init, ShownIsCached, Versions
  <2> QED BY <2>1, <2>2, <2>3, <2>4 DEF IInv
<1>2. IInv /\ [Next]_vars => IInv'
  BY ChatInductive, CarriedInductive, FeedInductive DEF IInv
<1> QED BY <1>1, <1>2, PTL DEF Spec

(* The send button is disabled exactly while the last bubble waits for its *)
(* answer, also for answers that come after the chat was cleared.          *)
THEOREM SendingAlwaysMeansPending == Spec => []SendingMeansPending
<1>1. IInv => SendingMeansPending
  BY DEF IInv, Chat
<1> QED BY <1>1, AlwaysInductive, PTL

(* What the feed shows is what a restart would show, in whatever order     *)
(* background refreshes and the user's end, unless a fetch saved what this *)
(* app cannot decode.                                                      *)
THEOREM ShownAlwaysCached == Spec => []ShownIsCached
<1>1. IInv => ShownIsCached
  BY DEF IInv
<1> QED BY <1>1, AlwaysInductive, PTL
=============================================================================
