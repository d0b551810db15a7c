------------------------------ MODULE Conversation ------------------------------
(***************************************************************************)
(* The chat page (renderer app/AskPage.tsx): its threads, which it keeps   *)
(* in the storage of the window, and the turns it asks of the main process *)
(* (ipc/handlers.ts).                                                      *)
(*                                                                         *)
(* The page may be left and visited again while a turn is in flight.  The  *)
(* function that waits for the turn goes on: it holds the threads as they  *)
(* were when it asked, and stores them with the answer when it comes.      *)
(***************************************************************************)
EXTENDS Integers, Sequences, SequencesExt, FiniteSets

CONSTANTS MaxTurns, MaxThreads, MaxVisits   \* bounds: questions, threads made, visits

VARIABLES
  mounted,    \* whether the page is there
  visit,      \* how often it was
  shown,      \* its threads: <<[id, mark, messages], ...>>
  stored,     \* those in the storage; empty before the first is stored
  active,     \* the id of the one that is open
  made,       \* how many threads were made
  thinking,   \* whether it waits for an answer
  live,       \* the reply that arrives: [turn, heard], turn 0 if none does
  asked,      \* how many questions were asked
  turns,      \* those in flight: [turn, visit, thread, threads]
  foreign     \* whether a turn of an earlier visit ended during this one

chatVars ==
  <<mounted, visit, shown, stored, active, made, thinking, live, asked, turns, foreign>>

Question(n) == [role |-> "user", turn |-> n]
Answer(n)   == [role |-> "assistant", turn |-> n]

\* A thread starts with a greeting, which is left out.
Thread(id, messages) == [id |-> id, mark |-> "none", messages |-> messages]

Silent == [turn |-> 0, heard |-> {}]

\* The thread that is open, or else the first one.
Open ==
  LET found == SelectSeq(shown, LAMBDA t : t.id = active) IN
  IF found # <<>> THEN found[1] ELSE shown[1]

Replace(threads, thread) ==
  [i \in DOMAIN threads |-> IF threads[i].id = thread.id THEN thread ELSE threads[i]]

\* saveThreads.
Save(threads) == shown' = threads /\ stored' = threads

-----------------------------------------------------------------------------

ChatInit ==
  /\ mounted = FALSE /\ visit = 0 /\ shown = <<>> /\ stored = <<>> /\ active = 0
  /\ made = 0 /\ thinking = FALSE /\ live = Silent /\ asked = 0 /\ turns = {} /\ foreign = FALSE

Mount ==
  /\ ~mounted /\ visit < MaxVisits
  /\ mounted' = TRUE /\ visit' = visit + 1 /\ foreign' = FALSE
  /\ shown' = IF stored = <<>> THEN <<Thread(0, <<>>)>> ELSE stored
  /\ active' = shown'[1].id
  /\ UNCHANGED <<stored, made, thinking, live, asked, turns>>

Unmount ==
  /\ mounted
  /\ mounted' = FALSE /\ shown' = <<>> /\ thinking' = FALSE /\ live' = Silent
  /\ UNCHANGED <<visit, stored, active, made, asked, turns, foreign>>

\* A new thread, or one that forks off the open one at one of its messages.
Start(messages) ==
  /\ mounted /\ made < MaxThreads
  /\ made' = made + 1 /\ active' = made'
  /\ Save(<<Thread(made', messages)>> \o shown)
  /\ UNCHANGED <<mounted, visit, thinking, live, asked, turns, foreign>>

Create == Start(<<>>)
Fork   == mounted /\ \E i \in DOMAIN Open.messages : Start(SubSeq(Open.messages, 1, i))

Select(id) ==
  /\ mounted /\ \E t \in ToSet(shown) : t.id = id
  /\ active' = id
  /\ UNCHANGED <<mounted, visit, shown, stored, made, thinking, live, asked, turns, foreign>>

Delete(id) ==
  /\ mounted /\ Len(shown) > 1
  /\ \E t \in ToSet(shown) : t.id = id
  /\ Save(SelectSeq(shown, LAMBDA t : t.id # id))
  /\ active' = IF active = id THEN shown'[1].id ELSE active
  /\ UNCHANGED <<mounted, visit, made, thinking, live, asked, turns, foreign>>

\* Pinned, renamed or archived; the open thread is left when it is archived, if there is
\* another one.
Mark(id, mark) ==
  /\ mounted
  /\ \E t \in ToSet(shown) :
       t.id = id /\ t.mark # mark /\ Save(Replace(shown, [t EXCEPT !.mark = mark]))
  /\ LET others == SelectSeq(shown, LAMBDA t : t.id # id /\ t.mark # "archived") IN
     active' = IF mark = "archived" /\ active = id /\ others # <<>> THEN others[1].id ELSE active
  /\ UNCHANGED <<mounted, visit, made, thinking, live, asked, turns, foreign>>

-----------------------------------------------------------------------------
(* Turns.                                                                  *)

Send ==
  /\ mounted /\ ~thinking /\ asked < MaxTurns
  /\ asked' = asked + 1 /\ thinking' = TRUE
  /\ LET thread == [Open EXCEPT !.messages = Append(@, Question(asked'))] IN
     /\ Save(Replace(shown, thread))
     /\ turns' = turns \cup {[turn |-> asked', visit |-> visit, thread |-> thread,
                              threads |-> Replace(shown, thread)]}
  /\ live' = [turn |-> asked', heard |-> {}]
  /\ UNCHANGED <<mounted, visit, active, made, foreign>>

\* The page that sent a turn still listens to its chunks.
Mounted(t) == mounted /\ t.visit = visit

\* Variant for mutation: every chunk that arrives is shown.
HearsAll(t, n) == Mounted(t)

Hears(t, n) == Mounted(t) /\ t.turn = n /\ live.turn = n

\* A chunk goes to all that listen: a turn that has ended does not.
Chunk(n) ==
  /\ \E t \in turns : t.turn = n
  /\ \E t \in turns : Hears(t, n)
  /\ live' = [live EXCEPT !.heard = @ \cup {n}]
  /\ UNCHANGED <<mounted, visit, shown, stored, active, made, thinking, asked, turns, foreign>>

\* Variant for mutation: the answer goes to the end of the thread as it is now.
AnsweredNow(t) ==
  [i \in DOMAIN stored |->
     IF stored[i].id = t.thread.id THEN [stored[i] EXCEPT !.messages = Append(@, Answer(t.turn))]
     ELSE stored[i]]

Answered(t) ==
  Replace(t.threads, [t.thread EXCEPT !.messages = Append(@, Answer(t.turn))])

\* Whatever became of a turn, there is an answer: what the model said, or what went wrong.
TurnEnds(t) ==
  /\ t \in turns
  /\ turns' = turns \ {t}
  /\ stored' = Answered(t)
  /\ IF Mounted(t)
     THEN shown' = stored' /\ thinking' = FALSE /\ live' = Silent /\ UNCHANGED foreign
     ELSE foreign' = TRUE /\ UNCHANGED <<shown, thinking, live>>
  /\ UNCHANGED <<mounted, visit, active, made, asked>>

ChatNext ==
  \/ Mount \/ Unmount \/ Create \/ Fork \/ Send
  \/ \E id \in 0..MaxThreads :
       Select(id) \/ Delete(id) \/ \E mark \in {"none", "archived"} : Mark(id, mark)
  \/ \E n \in 1..MaxTurns : Chunk(n)
  \/ \E t \in turns : TurnEnds(t)

\* The main process answers every call: see CallsReturn of MCWork.
ChatFairness ==
  \A n \in 1..MaxTurns : WF_chatVars(\E t \in turns : t.turn = n /\ TurnEnds(t))

-----------------------------------------------------------------------------
(* Properties.                                                             *)

\* An answer stands behind its question, once (AskPage.tsx:968); what is stored and what
\* is shown.  Edits and turns of other visits may replace whole threads by older ones, but
\* never mix them.
AnswersFollowQuestions ==
  \A t \in ToSet(stored) \cup ToSet(shown) : \A i \in DOMAIN t.messages :
    /\ t.messages[i].role = "assistant" =>
         i > 1 /\ t.messages[i - 1] = Question(t.messages[i].turn)
    /\ \A j \in DOMAIN t.messages : t.messages[i] = t.messages[j] => i = j

\* The reply that arrives is made of chunks of the turn it belongs to, which this page
\* waits for (AskPage.tsx:853), though other visits may still listen to theirs.
LiveReplyIsOwn ==
  /\ live.heard \subseteq {live.turn}
  /\ live.turn # 0 => thinking /\ \E t \in turns : t.turn = live.turn /\ Mounted(t)

\* What the page shows is what the next visit will: only the end of a turn of an earlier
\* visit changes the one and not the other.
ShownIsStored == mounted /\ stored # <<>> /\ ~foreign => shown = stored

TranscriptsHold == AnswersFollowQuestions /\ LiveReplyIsOwn /\ ShownIsStored
=============================================================================
