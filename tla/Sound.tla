-------------------------------- MODULE Sound --------------------------------
(***************************************************************************)
(* The sounds of P2 (target/stm32f4/p2/dac.c, application/p2/buzzer.c):    *)
(* two callbacks of the software timer register each other to play a theme *)
(* note by note, a third sounds the alarm of the battery, and the main     *)
(* loop starts a theme at any moment of another.                           *)
(*                                                                         *)
(* The timer interrupts the main loop between any two of its steps.  When  *)
(* it does is left open, so the durations of the notes are left out.       *)
(***************************************************************************)
EXTENDS Naturals

CONSTANT NULL

\* How many notes the tables have; nobody plays the long one.
Notes(theme) == CASE theme = "once" -> 1
                  [] theme = "twice" -> 2
                  [] theme = "tripple" -> 3
                  [] theme = "short" -> 7
                  [] theme = "mario" -> 156

Beeps == {"once", "twice", "tripple"}

VARIABLES
  g_themeIndex,
  g_musicPtr,
  g_musicNotesCnt,
  callbacks,    \* of playNextNote, onTimerAfterDuration and onTimer: those registered
  tones,        \* what the two channels of the converter sound
  isRegistered,
  step,         \* of the main loop: the next of playTheme or onRelBatVoltage
  due,          \* history: how many notes of the theme asked for have been sounded
  hit           \* history: playTheme has been interrupted by a note's timer,
                \* onRelBatVoltage by the alarm

vars == <<g_themeIndex, g_musicPtr, g_musicNotesCnt, callbacks, tones, isRegistered,
          step, due, hit>>

TypeOK ==
  /\ g_themeIndex \in 0 .. 8
  /\ g_musicPtr \in Beeps \cup {"short"}
  /\ g_musicNotesCnt \in 1 .. 7
  /\ callbacks \subseteq {"playNextNote", "onTimerAfterDuration", "onTimer"}
  /\ tones \in [1 .. 2 -> {"none", "note", "alarm"}]
  /\ isRegistered \in BOOLEAN
  /\ step \in [at : {"idle", "ptr", "count", "check", "sound", "end", "register", "unregister"},
               theme : Beeps \cup {NULL}]
  /\ due \in 0 .. 7
  /\ hit \subseteq {"theme", "alarm"}

Idle == [at |-> "idle", theme |-> NULL]

\* dac_init and buzzer_init, which plays the first note of the first theme
Init ==
  /\ g_themeIndex = 0 /\ g_musicPtr = "short" /\ g_musicNotesCnt = Notes("short")
  /\ callbacks = {"onTimerAfterDuration"}
  /\ tones = [c \in 1 .. 2 |-> "note"]
  /\ isRegistered = FALSE
  /\ step = Idle /\ due = 1 /\ hit = {}

-------------------------------------------------------------------------------
\* setFreq, of both channels
SetFreq(tone) == tones' = [c \in 1 .. 2 |-> tone]

\* swTimer_registerOnTimer of a callback that is or is not registered
Register(callback) == callbacks' = callbacks \cup {callback}

\* The histories: the note at the index sounds; it is the next one of the
\* theme, or the one before again. The theme has 0 notes sounded when asked for.
Counted == due' = IF g_themeIndex = due THEN due + 1 ELSE due

\* A timer's callback runs, once; the main loop may be within what.
Fires(callback) == callback \in callbacks
Interrupts(what) ==
  hit' = hit \cup {w \in {what} : IF w = "theme" THEN step.theme # NULL ELSE step.at = "unregister"}
Rest == UNCHANGED <<isRegistered, step>>

OnTimerAfterDuration ==
  /\ Fires("onTimerAfterDuration")
  /\ SetFreq("none")
  /\ g_themeIndex' = g_themeIndex + 1
  /\ callbacks' = (callbacks \ {"onTimerAfterDuration"}) \cup {"playNextNote"}
  /\ Interrupts("theme")
  /\ UNCHANGED <<g_musicPtr, g_musicNotesCnt, due>> /\ Rest

PlayNextNote ==
  /\ Fires("playNextNote")
  /\ IF g_themeIndex >= g_musicNotesCnt
       THEN /\ g_themeIndex' = 0
            /\ SetFreq("none")
            /\ callbacks' = callbacks \ {"playNextNote"}
            /\ UNCHANGED due
       ELSE /\ SetFreq("note")
            /\ callbacks' = (callbacks \ {"playNextNote"}) \cup {"onTimerAfterDuration"}
            /\ Counted
            /\ UNCHANGED g_themeIndex
  /\ Interrupts("theme")
  /\ UNCHANGED <<g_musicPtr, g_musicNotesCnt>> /\ Rest

\* onTimer of the alarm, which stays registered
OnTimer ==
  /\ Fires("onTimer")
  /\ tones' = [c \in 1 .. 2 |-> "alarm"]
  /\ Interrupts("alarm")
  /\ UNCHANGED <<g_themeIndex, g_musicPtr, g_musicNotesCnt, callbacks, due>> /\ Rest

-------------------------------------------------------------------------------
\* beepSoundEndpoint and playTheme: the index is reset first.
MutantPlayTheme(theme) ==
  /\ step = Idle
  /\ step' = [at |-> "ptr", theme |-> theme]
  /\ due' = 0
  /\ hit' = hit \ {"theme"}
  /\ UNCHANGED <<g_themeIndex, g_musicPtr, g_musicNotesCnt, callbacks, tones, isRegistered>>

PlayTheme(theme) ==
  /\ step = Idle
  /\ g_themeIndex' = 0
  /\ step' = [at |-> "ptr", theme |-> theme]
  /\ due' = 0
  /\ hit' = hit \ {"theme"}
  /\ UNCHANGED <<g_musicPtr, g_musicNotesCnt, callbacks, tones, isRegistered>>

\* The rest of playTheme_internal, with playNextNote as it calls it.
At(from, to) == step.at = from /\ step' = IF to = "idle" THEN Idle ELSE [step EXCEPT !.at = to]

ThemePtr ==
  /\ At("ptr", "count")
  /\ g_musicPtr' = step.theme
  /\ UNCHANGED <<g_themeIndex, g_musicNotesCnt, callbacks, tones, isRegistered, due, hit>>

ThemeCount ==
  /\ At("count", "check")
  /\ g_musicNotesCnt' = Notes(step.theme)
  /\ UNCHANGED <<g_themeIndex, g_musicPtr, callbacks, tones, isRegistered, due, hit>>

CheckIndex ==
  /\ At("check", IF g_themeIndex >= g_musicNotesCnt THEN "end" ELSE "sound")
  /\ g_themeIndex' = IF g_themeIndex >= g_musicNotesCnt THEN 0 ELSE g_themeIndex
  /\ UNCHANGED <<g_musicPtr, g_musicNotesCnt, callbacks, tones, isRegistered, due, hit>>

EndTheme ==
  /\ At("end", "idle")
  /\ SetFreq("none")
  /\ UNCHANGED <<g_themeIndex, g_musicPtr, g_musicNotesCnt, callbacks, isRegistered, due, hit>>

SoundNote ==
  /\ At("sound", "register")
  /\ SetFreq("note")
  /\ Counted
  /\ UNCHANGED <<g_themeIndex, g_musicPtr, g_musicNotesCnt, callbacks, isRegistered, hit>>

RegisterOff ==
  /\ At("register", "idle")
  /\ Register("onTimerAfterDuration")
  /\ UNCHANGED <<g_themeIndex, g_musicPtr, g_musicNotesCnt, tones, isRegistered, due, hit>>

\* onRelBatVoltage, of a battery that is low and of one that is not
OnLowVoltage ==
  /\ step = Idle
  /\ ~isRegistered
  /\ Register("onTimer")
  /\ isRegistered' = TRUE
  /\ UNCHANGED <<g_themeIndex, g_musicPtr, g_musicNotesCnt, tones, step, due, hit>>

OnGoodVoltage ==
  /\ step = Idle
  /\ isRegistered
  /\ tones' = [tones EXCEPT ![1] = "none"]
  /\ step' = [step EXCEPT !.at = "unregister"]
  /\ hit' = hit \ {"alarm"}
  /\ UNCHANGED <<g_themeIndex, g_musicPtr, g_musicNotesCnt, callbacks, isRegistered, due>>

Unregister ==
  /\ At("unregister", "idle")
  /\ callbacks' = callbacks \ {"onTimer"}
  /\ isRegistered' = FALSE
  /\ UNCHANGED <<g_themeIndex, g_musicPtr, g_musicNotesCnt, tones, due, hit>>

Next ==
  \/ PlayNextNote \/ OnTimerAfterDuration \/ OnTimer
  \/ \E theme \in Beeps : PlayTheme(theme)
  \/ ThemePtr \/ ThemeCount \/ CheckIndex \/ EndTheme \/ SoundNote \/ RegisterOff
  \/ OnLowVoltage \/ OnGoodVoltage \/ Unregister

Spec == Init /\ [][Next]_vars

-------------------------------------------------------------------------------
\* A theme is played to its last note and leaves the first channel silent,
\* whatever theme or alarm it has cut short and whichever callbacks of the
\* other were still registered: when no callback is left, all notes of the
\* theme asked for last have been sounded in order. (Not if a timer of the
\* theme before interrupts playTheme, which then may start it late, or read a
\* note past its end; nor is it silent after an alarm that has sounded
\* between the silencing and the end of its registration.)
ThemesAreWhole ==
  callbacks = {} /\ step = Idle =>
    /\ "theme" \notin hit => due = g_musicNotesCnt
    /\ "alarm" \notin hit => tones[1] = "none"
===============================================================================
