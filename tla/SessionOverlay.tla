--------------------------- MODULE SessionOverlay ---------------------------
(***************************************************************************)
(* The banner that the desktop agents show while the GUI is controlled     *)
(* (internal/overlay): shown by every GUI command, hidden by a timer. The  *)
(* X11 and the Win32 version keep the same state.                          *)
(***************************************************************************)
EXTENDS Naturals, FiniteSets

CONSTANTS Cmd,            \* the commands, each handled by its own goroutine
          MaxCallbacks    \* bound: callbacks of expired timers waiting for the lock

ASSUME CallbackAssumption == MaxCallbacks \in Nat \ {0}

VARIABLES
    initialized,    \* is there a window?
    mapped,         \* is it shown?
    timer,          \* the timer in the field: "none", "armed" or "fired"
    hiding,         \* how many expired timers' callbacks wait for the lock
    past            \* the goroutines past the first check of NotifyActivity

overlayVars == <<initialized, mapped, timer, hiding, past>>

\* NewSessionOverlay: without a display the overlay stays disabled.
OverlayInit ==
    /\ initialized \in BOOLEAN
    /\ mapped = FALSE
    /\ timer = "none"
    /\ hiding = 0
    /\ past = {}

\* NotifyActivity looks whether there is a window without the lock ...
NotifyActivity(c) ==
    /\ c \notin past
    /\ initialized
    /\ past' = past \cup {c}
    /\ UNCHANGED <<initialized, mapped, timer, hiding>>

\* Mutant of ShowBanner: a banner that is shown keeps its timer.
ShowBannerOnce(c) ==
    /\ c \in past
    /\ past' = past \ {c}
    /\ mapped' = TRUE
    /\ timer' = IF timer = "none" THEN "armed" ELSE timer
    /\ UNCHANGED <<initialized, hiding>>

\* ... and then shows the window and arms a new timer in place of the old one.
\* Stop keeps an old timer from firing, but not one that has fired.
ShowBanner(c) ==
    /\ c \in past
    /\ past' = past \ {c}
    /\ mapped' = TRUE
    /\ timer' = "armed"
    /\ UNCHANGED <<initialized, hiding>>

\* Fifteen seconds pass: the callback starts, on a goroutine of its own ...
HideDelayPasses ==
    /\ timer = "armed"
    /\ hiding < MaxCallbacks
    /\ timer' = "fired"
    /\ hiding' = hiding + 1
    /\ UNCHANGED <<initialized, mapped, past>>

\* ... and hides the window once it has the lock, whatever timer is armed by then.
Hide ==
    /\ hiding > 0
    /\ hiding' = hiding - 1
    /\ mapped' = FALSE
    /\ UNCHANGED <<initialized, timer, past>>

Close ==
    IF initialized
    THEN /\ initialized' = FALSE
         /\ mapped' = FALSE
         /\ timer' = IF timer = "armed" THEN "none" ELSE timer
         /\ UNCHANGED <<hiding, past>>
    ELSE UNCHANGED overlayVars

OverlayNext ==
    \/ \E c \in Cmd : NotifyActivity(c) \/ ShowBanner(c)
    \/ HideDelayPasses \/ Hide \/ Close

OverlaySpec == OverlayInit /\ [][OverlayNext]_overlayVars

-----------------------------------------------------------------------------
(* Properties.                                                             *)

OverlayTypeOK ==
    /\ initialized \in BOOLEAN /\ mapped \in BOOLEAN
    /\ timer \in {"none", "armed", "fired"}
    /\ hiding \in 0..MaxCallbacks
    /\ past \subseteq Cmd

\* A banner that is shown has a timer, or a callback that will hide it: it never
\* stays after the control is over, whichever timers were stopped or too late.
BannerWillHide == mapped => timer = "armed" \/ hiding > 0

\* What NotifyActivity is documented to do: after an activity the banner stays
\* until the timer that this activity set expires. (overlay.go:142-143)
ActivityKeepsBanner ==
    [][mapped /\ ~mapped' /\ initialized' => timer # "armed"]_overlayVars
=============================================================================
