------------------------------- MODULE Orbit --------------------------------
(***************************************************************************)
(* The slider of the pages, which shows the medias that are on air: one    *)
(* slide for each of them, a clock that moves on to the next slide, the    *)
(* arrows, and the lock that keeps two slides from moving at a time.       *)
(*                                                                         *)
(* The pages leave every option at its default.  The slide that moves in   *)
(* is an animation, of which the module only says that it ends, in         *)
(* `Arrive'; an animation of no element, which a page without medias asks  *)
(* for, has no end.                                                        *)
(***************************************************************************)
EXTENDS Integers, FiniteSets

CONSTANTS
  MaxSlides,  \* the largest number of medias of a page
  Turn,       \* the degrees of a whole turn of the clock
  Clock,      \* the handles of setInterval()
  Nothing

ASSUME OrbitAssumption ==
  /\ MaxSlides \in Nat /\ Turn \in Nat
  /\ Nothing \notin Clock /\ Nothing \notin Int

VARIABLES
  slides,       \* $slides.length
  hiddenTimer,  \* the style sheet of old browsers hides the timer
  called,       \* orbit() was called
  numberSlides, activeSlide, prevActiveSlide, locked,
  moving,       \* the slide that is being animated
  zIndex, opacity, left,     \* the style of every slide
  timer, directionalNav,     \* the options that one slide only turns off
  timerRunning, degrees,
  clock,        \* the handle that is remembered
  intervals,    \* the handles of the intervals that run
  pressed,      \* the slide whose button was pressed last
  forgotten     \* history: the slides that were left in a move of which a
                \* refused shift made the slider forget where it began

style == <<zIndex, opacity, left>>
position == <<activeSlide, prevActiveSlide, locked, moving, style, forgotten>>
clockwork == <<timerRunning, clock, intervals>>
slider == <<slides, hiddenTimer, called, numberSlides, timer, directionalNav>>
orbitVars == <<slider, position, clockwork, degrees, pressed>>

Slide == 0 .. slides - 1

OrbitInit ==
  /\ slides \in 0 .. MaxSlides
  /\ hiddenTimer \in BOOLEAN
  /\ called = FALSE
  /\ numberSlides = 0 /\ activeSlide = 0 /\ prevActiveSlide = Nothing
  /\ locked = FALSE /\ moving = Nothing
  /\ zIndex = [s \in Slide |-> 0]
  /\ opacity = [s \in Slide |-> 0]
  /\ left = [s \in Slide |-> "in"]
  /\ timer = TRUE /\ directionalNav = TRUE
  /\ timerRunning = FALSE /\ degrees = 0
  /\ clock = Nothing /\ intervals = {}
  /\ pressed = Nothing /\ forgotten = {}

-----------------------------------------------------------------------------
(* The clock.                                                              *)
startClock ==
  \E c \in Clock \ intervals :
    /\ clock' = c
    /\ intervals' = intervals \cup {c}
    /\ timerRunning' = (timerRunning \/ ~hiddenTimer)

stopClock ==
  /\ timerRunning' = FALSE
  /\ intervals' = intervals \ {clock}
  /\ UNCHANGED clock

(* What $(...).eq(i).css(property, value) makes of the slides: nothing     *)
(* when there is no slide i.                                               *)
Css(property, i, v) ==
  [s \in Slide |-> IF s = i THEN v ELSE property[s]]

(* Mutant of Succ: after the last slide comes none.                        *)
SuccNoWrap(s) == s + 1

(* Mutant of Succ: the last slide is left out.                             *)
SuccShort(s) == IF s + 2 >= numberSlides THEN 0 ELSE s + 1

Succ(s) == IF s + 1 = numberSlides THEN 0 ELSE s + 1
Pred(s) == IF s - 1 < 0 THEN numberSlides - 1 ELSE s - 1

(* Mutant of Accept: the old slide stays in front of the new one.          *)
AcceptBehind(direction) ==
  LET new == IF direction = "next" THEN Succ(activeSlide)
                                   ELSE Pred(activeSlide)
  IN  /\ locked' = TRUE
      /\ activeSlide' = new
      /\ moving' = IF new \in Slide THEN new ELSE Nothing
      /\ zIndex' = Css(Css(zIndex, activeSlide, 3), new, 2)
      /\ opacity' = Css(Css(opacity, new, 1), activeSlide, 0)
      /\ left' = Css(left, new, direction)

(* Mutant of Accept: the old slide is not hidden.                          *)
AcceptOver(direction) ==
  LET new == IF direction = "next" THEN Succ(activeSlide)
                                   ELSE Pred(activeSlide)
  IN  /\ locked' = TRUE
      /\ activeSlide' = new
      /\ moving' = IF new \in Slide THEN new ELSE Nothing
      /\ zIndex' = Css(Css(zIndex, activeSlide, 2), new, 3)
      /\ opacity' = Css(opacity, new, 1)
      /\ left' = Css(left, new, direction)

(* shift(), while no slide moves: the new slide is put beside the others   *)
(* and in front of them, and moves in; the old one disappears at once.     *)
Accept(direction) ==
  LET new == IF direction = "next" THEN Succ(activeSlide)
                                   ELSE Pred(activeSlide)
  IN  /\ locked' = TRUE
      /\ activeSlide' = new
      /\ moving' = IF new \in Slide THEN new ELSE Nothing
      /\ zIndex' = Css(Css(zIndex, activeSlide, 2), new, 3)
      /\ opacity' = Css(Css(opacity, new, 1), activeSlide, 0)
      /\ left' = Css(left, new, direction)

(* shift(): what it remembers as the previous slide it remembers before it *)
(* looks at the lock, so that a shift that is refused makes it forget the  *)
(* slide that is being left.                                               *)
shift(direction) ==
  /\ prevActiveSlide' = activeSlide
  /\ IF slides # 1 /\ ~locked
     THEN /\ Accept(direction)
          /\ forgotten' = forgotten \ {activeSlide'}
     ELSE /\ forgotten' = forgotten \cup ({prevActiveSlide} \ {activeSlide, Nothing})
          /\ UNCHANGED <<activeSlide, locked, moving, style>>

-----------------------------------------------------------------------------
(* A slider of one slide has neither clock nor arrows; the first slide is  *)
(* in front and seen.                                                      *)
OnlyOneSlide == slides = 1
FirstSlide == /\ zIndex' = Css(zIndex, 0, 3)
              /\ opacity' = Css(opacity, 0, 1)

(* orbit() once the window is loaded: the slides of a media are no images, *)
(* so that the slider is set up at once.                                   *)
Load ==
  /\ ~called
  /\ called' = TRUE
  /\ numberSlides' = slides
  /\ FirstSlide
  /\ timer' = ~OnlyOneSlide /\ directionalNav' = ~OnlyOneSlide
  /\ IF timer' THEN startClock ELSE UNCHANGED clockwork
  /\ UNCHANGED <<slides, hiddenTimer, activeSlide, prevActiveSlide, locked,
                 moving, left, forgotten, degrees, pressed>>

(* rotateTimer(): two degrees on, and the next slide after a whole turn.   *)
Rotate(c) ==
  /\ c \in intervals /\ ~hiddenTimer
  /\ degrees + 2 <= Turn
  /\ degrees' = degrees + 2
  /\ UNCHANGED <<slider, position, clockwork, pressed>>

Strike(c) ==
  /\ c \in intervals /\ ~hiddenTimer
  /\ degrees + 2 > Turn
  /\ degrees' = 0
  /\ shift("next")
  /\ UNCHANGED <<slider, clockwork, pressed>>

(* The interval of a timer that is not shown.                              *)
StrikeHidden(c) ==
  /\ c \in intervals /\ hiddenTimer
  /\ shift("next")
  /\ UNCHANGED <<slider, clockwork, degrees, pressed>>

(* Mutant of Arrive: the lock is kept.                                     *)
ArriveLocked ==
  /\ moving # Nothing
  /\ left' = Css(left, moving, "in")
  /\ zIndex' = Css(zIndex, prevActiveSlide, 1)
  /\ moving' = Nothing
  /\ UNCHANGED <<slider, activeSlide, prevActiveSlide, locked, opacity,
                 forgotten, clockwork, degrees, pressed>>

(* resetAndUnlock(), when the animation of the new slide ends.             *)
Arrive ==
  /\ moving # Nothing
  /\ left' = Css(left, moving, "in")
  /\ zIndex' = Css(zIndex, prevActiveSlide, 1)
  /\ locked' = FALSE /\ moving' = Nothing
  /\ UNCHANGED <<slider, activeSlide, prevActiveSlide, opacity, forgotten,
                 clockwork, degrees, pressed>>

-----------------------------------------------------------------------------
(* The user.                                                               *)
(* Mutant of ClickTimer: a click starts the clock, running or not.         *)
ClickTimerStarts ==
  /\ called /\ timer /\ ~hiddenTimer
  /\ startClock
  /\ UNCHANGED <<slider, position, degrees, pressed>>

ClickTimer ==
  /\ called /\ timer /\ ~hiddenTimer
  /\ IF timerRunning THEN stopClock ELSE startClock
  /\ UNCHANGED <<slider, position, degrees, pressed>>

ClickArrow(direction) ==
  /\ called /\ directionalNav
  /\ stopClock
  /\ shift(direction)
  /\ UNCHANGED <<slider, degrees, pressed>>

(* Of the slides at a place the one that lies over the others gets the     *)
(* click, the later one of two with the same z-index.  All have the size   *)
(* of the slider and stay where they have moved in, seen or not.           *)
Front(s, here) ==
  \A t \in here : \/ zIndex[t] < zIndex[s]
                  \/ zIndex[t] = zIndex[s] /\ t <= s

(* The slides at a place that the one which moves in has not reached.      *)
InPlace == {s \in Slide : left[s] = "in"}

(* The button of a slide: to stop its media, or to play it.  Nothing keeps *)
(* the user from a click while the slides move.                            *)
Press ==
  /\ called
  /\ \E here \in {InPlace, InPlace \cup ({moving} \cap Slide)} :
       \E s \in here :
         /\ Front(s, here)
         /\ pressed' = s
  /\ UNCHANGED <<slider, position, clockwork, degrees>>

OrbitNext ==
  \/ Load
  \/ \E c \in Clock : Rotate(c) \/ Strike(c) \/ StrikeHidden(c)
  \/ Arrive
  \/ ClickTimer
  \/ \E direction \in {"next", "prev"} : ClickArrow(direction)
  \/ Press

OrbitSpec == OrbitInit /\ [][OrbitNext]_orbitVars

(* The browser runs the intervals and the animations that are due; nobody  *)
(* has to click.                                                           *)
Fairness ==
  /\ WF_orbitVars(Load) /\ WF_orbitVars(Arrive)
  /\ \A c \in Clock : WF_orbitVars(Rotate(c) \/ Strike(c) \/ StrikeHidden(c))

FairOrbitSpec == OrbitSpec /\ Fairness

-----------------------------------------------------------------------------
(* The types: the active slide, the one before it and the one that moves   *)
(* in are slides of the page, whichever way the counter went round.        *)
OrbitTypeOK ==
  /\ slides \in 0 .. MaxSlides /\ numberSlides \in {0, slides}
  /\ {hiddenTimer, called, locked, timer, directionalNav, timerRunning}
       \subseteq BOOLEAN
  /\ activeSlide \in Slide \/ slides = 0
  /\ prevActiveSlide \in Slide \cup {Nothing} \/ slides = 0
  /\ moving \in Slide \cup {Nothing}
  /\ zIndex \in [Slide -> 0 .. 3] /\ opacity \in [Slide -> 0 .. 1]
  /\ left \in [Slide -> {"in", "next", "prev"}]
  /\ degrees \in 0 .. Turn
  /\ clock \in Clock \cup {Nothing} /\ intervals \subseteq Clock
  /\ pressed \in Slide \cup {Nothing}
  /\ forgotten \subseteq Slide \/ slides = 0

(* One media is seen at a time, the one that activeSlide counts, and it is *)
(* in its place unless it is the one that is moving in.                    *)
OneIsSeen ==
  called => \A s \in Slide :
              /\ opacity[s] = 1 <=> s = activeSlide
              /\ left[s] # "in" => s = activeSlide /\ s = moving /\ locked

(* However often the timer and the arrows are clicked there is one clock   *)
(* at most; it is the one that will be stopped, and with it the timer      *)
(* stands still.                                                           *)
OneClock ==
  /\ intervals \subseteq {clock}
  /\ ~hiddenTimer => (timerRunning <=> intervals # {})

(* The media whose button is pressed is the one that is seen; or while the *)
(* next one moves in, the one it replaces, which is not seen any more; or  *)
(* one that was left when a shift was refused, and this only while slides  *)
(* move, or at rest before the next shift (jquery.foundation.orbit.js:     *)
(* 500-579).  So far and no farther clicks go astray.                      *)
PressesSeenOrLeft ==
  [][pressed' # pressed =>
       \/ pressed' = activeSlide
       \/ pressed' = prevActiveSlide /\ moving # Nothing
       \/ pressed' \in forgotten /\ (moving # Nothing \/ prevActiveSlide = activeSlide)
    ]_orbitVars

(* The lock is always released, except on a page without medias, where the *)
(* first shift asks for an animation of nothing.                           *)
LockIsReleased == locked ~> ~locked \/ slides = 0

(* While its clock runs, the slider shows every media again and again,     *)
(* whatever was clicked before.                                            *)
ShowsAllInTurn ==
  \A s \in 0 .. MaxSlides - 1 :
    (<>[](intervals # {} /\ s \in Slide)) => []<>(activeSlide = s)

(* However the timer, the arrows and the animations interleave, one slide  *)
(* is seen and one clock at most is running (jquery.foundation.orbit.js:   *)
(* 275-369, 500-579).                                                      *)
OneSlideOneClock == OrbitTypeOK /\ OneIsSeen /\ OneClock

(* The slider never stands still while its clock runs                      *)
(* (jquery.foundation.orbit.js:508-579).                                   *)
NeverStuck == LockIsReleased /\ ShowsAllInTurn
=============================================================================
