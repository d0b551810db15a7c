------------------------------ MODULE HostedScreen ------------------------------
(***************************************************************************)
(* Reading a hosted CLI by its screen: hostedSession.ts on the rules of    *)
(* interactiveTurn.ts.  The CLI paints when it likes; Forge looks every    *)
(* 250 ms, for a prompt that has settled, for the end of a turn that it    *)
(* typed, and for a dialog, all of them bounded.  AgentSession takes the   *)
(* prompt from here, and the end of a turn from the hook of the CLI; the   *)
(* end that the screen shows is what it falls back to without one.         *)
(*                                                                         *)
(* A screen is [text, caret, busy, dialog]; a CLI is the screens of its    *)
(* start and those of each turn that is submitted to it, in their order.   *)
(***************************************************************************)
EXTENDS Integers, Sequences

CONSTANTS
  Clis,         \* [boot, turns, brisk]; a brisk CLI is not quiet in the midst of its start
  QuietTicks,   \* polls without a change that end the start
  MaxTicks      \* polls that one wait lasts, at most

Screen == [text : STRING, caret : BOOLEAN, busy : BOOLEAN, dialog : {"none", "trust", "permission"}]

\* What is assumed of the constants.  A dialog waits for the user: a brisk start paints
\* nothing after it.
ScreenAssumption ==
  /\ QuietTicks \in Nat \ {0} /\ MaxTicks \in Nat /\ MaxTicks > QuietTicks
  /\ \A c \in Clis :
       /\ c.boot \in Seq(Screen) /\ Len(c.boot) > 0 /\ c.turns \in Seq(Seq(Screen))
       /\ c.brisk => Len(c.turns) > 0 /\ \A i \in 1..Len(c.boot) - 1 : c.boot[i].dialog = "none"

VARIABLES
  cli,        \* one of Clis
  stage,      \* "settling", "quieting", "prompting", "typing", "pasted", "turning", "done"
  screens,    \* the screens that are still to come
  screen,     \* what is displayed
  nthTurn,    \* the turn
  ticks,      \* the polls of this wait
  lastSeen,   \* the screen at the last poll, or as the prompt was submitted
  quietFor,   \* polls without a change
  sawWork,    \* this turn was seen at work
  outcomes,   \* how each turn ended: [kind, text]
  typedAt,    \* the screen at which the first prompt was typed
  hurried     \* a wait ended at its limit

screenVars == <<cli, stage, screens, screen, nthTurn, ticks, lastSeen, quietFor, sawWork,
                outcomes, typedAt, hurried>>
reader     == <<stage, nthTurn, ticks, lastSeen, quietFor, sawWork, outcomes, typedAt, hurried>>

Blank == [text |-> "blank", caret |-> FALSE, busy |-> FALSE, dialog |-> "none"]

ScreenInit ==
  /\ cli \in Clis
  /\ stage = "settling" /\ screens = cli.boot /\ screen = Blank
  /\ nthTurn = 1 /\ ticks = 0 /\ lastSeen = Blank /\ quietFor = 0 /\ sawWork = FALSE
  /\ outcomes = <<>> /\ typedAt = Blank /\ hurried = FALSE

-----------------------------------------------------------------------------
(* What a screen says.                                                     *)

\* Variant for mutation: while it is busy, the caret that it shows is enough.
IdleByCaret(s) == s.caret

\* turnLooksComplete(): a busy indicator is stronger than a prompt.
TurnLooksComplete(s) == s.caret /\ ~s.busy

\* A dialog before anything else; the caret is what isPromptReady() looks for.
Prompt(s) == IF s.dialog # "none" THEN s.dialog ELSE IF s.caret THEN "ready" ELSE "none"

-----------------------------------------------------------------------------
(* The CLI.                                                                *)

Paint ==
  /\ screens # <<>>
  /\ screen' = Head(screens) /\ screens' = Tail(screens)
  /\ UNCHANGED <<cli, reader>>

\* A start that is noisy to its end is never quiet for as long as Forge waits.
Noisy == stage = "quieting" /\ cli.brisk /\ screens # <<>> /\ quietFor = QuietTicks - 1
         /\ screen = lastSeen

-----------------------------------------------------------------------------
(* The session.                                                            *)

Wait(s) == stage' = s /\ ticks' = 0

Ends(kind) ==
  /\ outcomes' = Append(outcomes, [kind |-> kind, text |-> screen.text])
  /\ stage' = "done" /\ ticks' = 0

\* waitForBootSettled() begins with waitForPrompt(), and goes on to that of send() when it
\* saw a dialog or no prompt at all.
Settle ==
  /\ stage = "settling"
  /\ \/ /\ Prompt(screen) = "ready"
        /\ Wait("quieting") /\ lastSeen' = screen /\ quietFor' = 0
        /\ UNCHANGED hurried
     \/ /\ Prompt(screen) # "none" /\ Prompt(screen) # "ready"
        /\ Wait("prompting") /\ UNCHANGED <<lastSeen, quietFor, hurried>>
     \/ /\ Prompt(screen) = "none"
        /\ \/ ticks < MaxTicks /\ ticks' = ticks + 1 /\ UNCHANGED <<stage, hurried>>
           \/ Wait("prompting") /\ hurried' = TRUE
        /\ UNCHANGED <<lastSeen, quietFor>>
  /\ UNCHANGED <<cli, screens, screen, nthTurn, sawWork, outcomes, typedAt>>

\* Variant for mutation: a screen that is painted again does not start the wait anew.
QuietOrNot == quietFor' = quietFor + 1

\* Polls without a change, in a row.
Quieter == quietFor' = IF screen = lastSeen THEN quietFor + 1 ELSE 0

Quiet ==
  /\ stage = "quieting" /\ ~Noisy
  /\ lastSeen' = screen
  /\ Quieter
  /\ \/ quietFor' = QuietTicks /\ Wait("prompting") /\ UNCHANGED hurried
     \/ quietFor' < QuietTicks /\ ticks < MaxTicks /\ ticks' = ticks + 1
        /\ UNCHANGED <<stage, hurried>>
     \/ quietFor' < QuietTicks /\ ticks = MaxTicks /\ Wait("prompting") /\ hurried' = TRUE
  /\ UNCHANGED <<cli, screens, screen, nthTurn, sawWork, outcomes, typedAt>>

\* Nothing is typed into a dialog, nor before there is a prompt.
AwaitPrompt ==
  /\ stage = "prompting"
  /\ \/ Prompt(screen) = "ready" /\ Wait("typing") /\ UNCHANGED <<outcomes, hurried>>
     \/ Prompt(screen) \notin {"ready", "none"} /\ Ends("blocked") /\ UNCHANGED hurried
     \/ /\ Prompt(screen) = "none"
        /\ \/ ticks < MaxTicks /\ ticks' = ticks + 1 /\ UNCHANGED <<stage, outcomes, hurried>>
           \/ Ends("timeout") /\ hurried' = TRUE
  /\ UNCHANGED <<cli, screens, screen, nthTurn, lastSeen, quietFor, sawWork, typedAt>>

\* The prompt is pasted as one text, and submitted after a moment.
Paste ==
  /\ stage = "typing"
  /\ stage' = "pasted"
  /\ typedAt' = IF nthTurn = 1 THEN screen ELSE typedAt
  /\ UNCHANGED <<cli, screens, screen, nthTurn, ticks, lastSeen, quietFor, sawWork, outcomes,
                 hurried>>

Submit ==
  /\ stage = "pasted"
  /\ stage' = "turning" /\ ticks' = 0
  /\ lastSeen' = screen /\ sawWork' = FALSE
  /\ screens' = screens \o cli.turns[nthTurn]
  /\ UNCHANGED <<cli, screen, nthTurn, quietFor, outcomes, typedAt, hurried>>

\* Variant for mutation: a prompt box is the end of a turn, whatever was seen before.
SeesBox(s) == TurnLooksComplete(s)

\* The turn was seen at work: a busy screen, or another one than that of its submission.
SeesWork(s) == sawWork \/ ~TurnLooksComplete(s) \/ s # lastSeen

\* runTurn(): the end is an idle screen after work was seen.
AwaitEnd ==
  /\ stage = "turning"
  /\ \/ screen.dialog # "none" /\ Ends("blocked") /\ UNCHANGED <<sawWork, hurried>>
     \/ /\ screen.dialog = "none" /\ TurnLooksComplete(screen) /\ SeesWork(screen)
        /\ Ends("answered") /\ sawWork' = TRUE /\ UNCHANGED hurried
     \/ /\ screen.dialog = "none" /\ ~(TurnLooksComplete(screen) /\ SeesWork(screen))
        /\ sawWork' = SeesWork(screen)
        /\ \/ ticks < MaxTicks /\ ticks' = ticks + 1 /\ UNCHANGED <<stage, outcomes, hurried>>
           \/ Ends("timeout") /\ hurried' = TRUE
  /\ UNCHANGED <<cli, screens, screen, nthTurn, lastSeen, quietFor, typedAt>>

\* The session stays: another prompt is sent to it, without waiting for a start.
SendAgain ==
  /\ stage = "done" /\ nthTurn < Len(cli.turns)
  /\ outcomes[nthTurn].kind = "answered"
  /\ nthTurn' = nthTurn + 1
  /\ Wait("prompting")
  /\ UNCHANGED <<cli, screens, screen, lastSeen, quietFor, sawWork, outcomes, typedAt, hurried>>

ScreenNext ==
  \/ Paint \/ Settle \/ Quiet \/ AwaitPrompt \/ Paste \/ Submit \/ AwaitEnd \/ SendAgain

\* Forge looks again and again; no assumption is made of the CLI but that it paints what
\* its start still has.
ScreenFairness ==
  /\ WF_screenVars(Settle \/ Quiet \/ AwaitPrompt \/ Paste \/ Submit \/ AwaitEnd \/ SendAgain)
  /\ WF_screenVars(Noisy /\ Paint)

-----------------------------------------------------------------------------
(* Properties.                                                             *)

LastOf(list) == list[Len(list)]

\* An honest turn is busy from the moment that anything of it is seen until its end.
Honest(turn) == \A i \in 1..Len(turn) - 1 : turn[i].busy

\* The prompt is not typed into the midst of a start (hostedSession.ts:122), and what an
\* honest CLI is said to have answered is the answer to that prompt and not what the turn
\* before left on the screen (hostedSession.ts:174).
ScreenIsReadRightly ==
  /\ cli.brisk /\ ~hurried /\ typedAt # Blank => typedAt = LastOf(cli.boot)
  /\ (\A n \in 1..Len(cli.turns) : Honest(cli.turns[n])) /\ (cli.brisk /\ ~hurried) =>
       \A n \in 1..Len(outcomes) :
         outcomes[n].kind = "answered" => outcomes[n].text = LastOf(cli.turns[n]).text

\* Forge waits for its CLI; no wait lasts for ever, whatever the screen shows.
Watching == stage # "done"
=============================================================================
