------------------------------- MODULE Buttons -------------------------------
(***************************************************************************)
(* The user buttons of P1 (target/stm32f4/p1/usrButtons.c, gpio_interrupts *)
(* and application/p1/usrButtonsConfig.c): an edge masks the button and    *)
(* asks for one evaluation of all buttons, later, by the software timer;   *)
(* the evaluation posts what has changed and unmasks.  The main loop sets  *)
(* a button up meanwhile.                                                  *)
(*                                                                         *)
(* The handler of an edge interrupts everything, the timer the main loop:  *)
(* between any two of its steps, so also between the read and the write    *)
(* of the mask that all pins share.  A button is pressed or not for either *)
(* of its pins.                                                            *)
(***************************************************************************)
EXTENDS Naturals

CONSTANTS
  Buttons,
  Adjusted,   \* the buttons enableButton is called for
  NULL

Pins == Buttons \X {"A", "K"}
PinsOf(b) == {b} \X {"A", "K"}

\* A button with its light on and no ear is like one that is off.
Configs == {"OFF", "LED_ON_LISTENING", "LED_OFF_LISTENING"}

\* The pin a listening button is read and heard through.
EarOf(b, config) == {<<b, p>> : p \in IF config = "LED_ON_LISTENING" THEN {"K"}
                                      ELSE IF config = "LED_OFF_LISTENING" THEN {"A"} ELSE {}}

VARIABLES
  configs,    \* g_usrButtonConfigs
  pressed,    \* the buttons that are
  states,     \* g_buttonStates: the buttons last posted as pressed
  imr,        \* EXTI_IMR: the pins that are not masked
  due,        \* buttonEvaluation is registered
  read,       \* what buttonEvaluation has read, NULL while it does not run
  setup,      \* of the main loop: how far setupButton is, with the mask it has read
  missed,     \* history: the buttons whose last edge nobody had to see
  masked      \* history: the main loop has written back a mask older than one
              \* the evaluation has written

vars == <<configs, pressed, states, imr, due, read, setup, missed, masked>>

Done == [at |-> "done", button |-> NULL, config |-> "OFF", mask |-> {}]

TypeOK ==
  /\ configs \in [Buttons -> Configs]
  /\ pressed \subseteq Buttons /\ states \subseteq Buttons /\ missed \subseteq Buttons
  /\ imr \subseteq Pins
  /\ due \in BOOLEAN /\ masked \in BOOLEAN
  /\ read = NULL \/ read \in SUBSET Buttons
  /\ setup.at \in {"done", "A", "A_written", "K", "K_written", "config", "ear", "ear_written"}

\* usrButtons_init of the driver and of the application, which lets them listen
Init ==
  /\ configs = [b \in Buttons |-> "LED_ON_LISTENING"]
  /\ pressed = {} /\ states = {}
  /\ imr = UNION {EarOf(b, "LED_ON_LISTENING") : b \in Buttons}
  /\ due = FALSE /\ read = NULL /\ setup = Done
  /\ missed = {} /\ masked = FALSE

Listening(b) == configs[b] # "OFF"
Ear(b) == EarOf(b, configs[b])

-------------------------------------------------------------------------------
\* onButtonPressed, which dispatchInterrupt calls for a pin that is not masked.
\* The mask buttonEvaluation is about to write may undo its own.
OnButtonPressed(b) ==
  /\ due' = TRUE
  /\ \/ imr' = imr \ PinsOf(b)
     \/ read # NULL /\ imr' = imr

\* A button is pressed or released. Nobody has to see it while it does not
\* listen, while it is set up, or when its pin, masked, has just been read.
Edge(b) ==
  /\ pressed' = IF b \in pressed THEN pressed \ {b} ELSE pressed \cup {b}
  /\ IF imr \cap PinsOf(b) # {} THEN OnButtonPressed(b) ELSE UNCHANGED <<due, imr>>
  /\ missed' = IF ~Listening(b) \/ setup.button = b
                  \/ (read # NULL /\ ~due /\ imr \cap Ear(b) = {})
                 THEN missed \cup {b} ELSE missed \ {b}
  /\ UNCHANGED <<configs, states, read, setup, masked>>

\* buttonEvaluation reads the port,
EvaluationReads ==
  /\ due /\ read = NULL
  /\ due' = FALSE
  /\ read' = pressed
  /\ UNCHANGED <<configs, pressed, states, imr, setup, missed, masked>>

\* posts what has changed and unmasks the buttons that listen.
ListeningNow == {b \in Buttons : Listening(b)}

MutantButtonEvaluation ==
  /\ read # NULL
  /\ states' = (states \ ListeningNow) \cup (read \cap ListeningNow)
  /\ imr' = imr \cup UNION {Ear(b) : b \in {c \in ListeningNow : c \in states <=> c \notin read}}
  /\ read' = NULL
  /\ UNCHANGED <<configs, pressed, due, setup, missed, masked>>

ButtonEvaluation ==
  /\ read # NULL
  /\ states' = (states \ ListeningNow) \cup (read \cap ListeningNow)
  /\ imr' = imr \cup UNION {Ear(b) : b \in ListeningNow}
  /\ read' = NULL
  /\ UNCHANGED <<configs, pressed, due, setup, missed, masked>>

-------------------------------------------------------------------------------
\* setupButton, called by the procedure enableButton. The timer's callback ends
\* before the main loop goes on.
Main(from, to) ==
  /\ read = NULL /\ setup.at = from
  /\ setup' = IF to = "done" THEN Done ELSE [setup EXCEPT !.at = to, !.mask = {}]

SetupButton(b, config) ==
  /\ read = NULL /\ setup = Done
  /\ setup' = [at |-> "A", button |-> b, config |-> config, mask |-> {}]
  /\ missed' = missed \cup {b}
  /\ UNCHANGED <<configs, pressed, states, imr, due, read, masked>>

Written(at) == CASE at = "A" -> "A_written"
                 [] at = "K" -> "K_written"
                 [] at = "ear" -> "ear_written"

\* gpio_enable_interrupt and gpio_disable_interrupt read the mask, and write it.
ReadMask ==
  /\ read = NULL
  /\ setup.at \in {"A", "K", "ear"}
  /\ setup' = [setup EXCEPT !.at = Written(@), !.mask = imr]
  /\ UNCHANGED <<configs, pressed, states, imr, due, read, missed, masked>>

WriteMask(mask) ==
  /\ imr' = mask
  /\ masked' = (masked \/ imr \ setup.mask # {})
  /\ UNCHANGED <<pressed, states, due, read, missed>>

DisableA ==
  /\ Main("A_written", "K")
  /\ WriteMask(setup.mask \ {<<setup.button, "A">>})
  /\ UNCHANGED configs

DisableK ==
  /\ Main("K_written", "config")
  /\ WriteMask(setup.mask \ {<<setup.button, "K">>})
  /\ UNCHANGED configs

Configure ==
  /\ Main("config", IF setup.config = "OFF" THEN "done" ELSE "ear")
  /\ configs' = [configs EXCEPT ![setup.button] = setup.config]
  /\ UNCHANGED <<pressed, states, imr, due, read, missed, masked>>

EnableEar ==
  /\ Main("ear_written", "done")
  /\ WriteMask(setup.mask \cup EarOf(setup.button, setup.config))
  /\ UNCHANGED configs

Handlers == (\E b \in Buttons : Edge(b)) \/ EvaluationReads \/ ButtonEvaluation

Setup ==
  \/ \E b \in Adjusted, config \in Configs : SetupButton(b, config)
  \/ ReadMask \/ DisableA \/ DisableK \/ Configure \/ EnableEar

\* A bound: nothing is stated of what comes after an old mask was written back.
MaskIsOld == masked /\ UNCHANGED vars

Next ==
  \/ ~masked /\ (Handlers \/ Setup)
  \/ MaskIsOld

Spec == Init /\ [][Next]_vars

-------------------------------------------------------------------------------
\* What the other boards believe of a listening button is true once nothing is
\* pending: no edge is swallowed by the masking, by the evaluation another
\* button has asked for, or by the setup of another, and no button stays
\* masked for ever. (Except for an edge between the reading of the port and the
\* unmasking, which clears it, and if setupButton has masked again what an
\* evaluation unmasked while it held the old mask.)
EdgesAreReported ==
  ~due /\ read = NULL /\ setup = Done /\ ~masked =>
    \A b \in Buttons \ missed : Listening(b) => (b \in states <=> b \in pressed)
===============================================================================
