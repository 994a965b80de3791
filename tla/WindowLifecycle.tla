-------------------------- MODULE WindowLifecycle --------------------------
(***************************************************************************)
(* One logical BrowserWindow (integration/rt/dnr_windows.js): an object    *)
(* the application keeps while the native window behind it is created,     *)
(* hidden, torn down and created again.                                    *)
(*                                                                         *)
(* JavaScript runs one handler at a time, so what a call does to a window  *)
(* is a function from the state it finds to the state it leaves; the       *)
(* functions below are composed as the code composes its calls.  The       *)
(* record holds the code's state of the window, its entries in the maps    *)
(* shared by all windows (key, bound, inflight, routed), and what the      *)
(* backend holds for it (live, closing, shown, exported, page, installed). *)
(* A native window is known by the epoch in which it was created.          *)
(***************************************************************************)
EXTENDS Integers

CONSTANTS NoKey, NoUrl

Never    == -1   \* of a timer or a hidden time that does not run
NoNative == 0

Unborn ==
  [life |-> "unborn",       \* "alive" once constructed, then "destroyed"
   native |-> NoNative,     \* the native window behind it
   epoch |-> 0,             \* native windows created so far
   releasing |-> FALSE,     \* its teardown is not confirmed yet
   wantVisible |-> FALSE,
   hiddenFor |-> Never,     \* time since it was hidden
   timer |-> Never,         \* time until it is released
   policy |-> [mode |-> "keep", delay |-> 0],
   protected |-> FALSE,     \* has a document policy
   url |-> NoUrl,           \* the entry the application navigated to last
   key |-> NoKey,           \* the state key it occupies
   bound |-> {},            \* names with a callback
   scripts |-> {},          \* native windows with unsettled executeJs
   inflight |-> {},         \* binding calls to be answered
   routed |-> {},           \* native windows whose events reach it
   live |-> {},             \* native windows that exist
   closing |-> {},          \* those of them asked to close
   shown |-> FALSE,         \* of the native window: visible,
   exported |-> FALSE,      \*   its handles given away,
   page |-> NoUrl,          \*   the entry it shows,
   installed |-> {}]        \*   the names its page may call

Usable(s) == s.life = "alive" /\ s.native # NoNative /\ ~s.releasing

-----------------------------------------------------------------------------
(* createNative: bindings are installed before the entry is loaded, nothing
   is loaded before the first navigation, and a new window starts visible. *)
CreateNative(s) ==
  LET e == s.epoch + 1 IN
  [s EXCEPT !.native = e, !.epoch = e, !.routed = @ \cup {e}, !.live = @ \cup {e},
            !.shown = TRUE, !.exported = FALSE, !.page = s.url,
            !.installed = s.bound]

(* The end of a teardown: `complete', once the native window is gone. *)
SlipComplete(s) ==                    \* a queued show is forgotten
  [s EXCEPT !.native = NoNative, !.releasing = FALSE]

Complete(s) ==
  LET r == [s EXCEPT !.native = NoNative, !.releasing = FALSE]
  IN IF s.life = "alive" /\ s.wantVisible THEN CreateNative(r) ELSE r

Destroyed(s) ==
  [s EXCEPT !.life = "destroyed", !.wantVisible = FALSE, !.key = NoKey, !.bound = {}]

(* A native window whose handles were exported only hides; any other is
   asked to close and from then on nothing reaches the window from it.
   `gone' says that the backend is done with it at the first look. *)
SlipDetached(s) ==                    \* calls in progress stay registered
  [s EXCEPT !.releasing = TRUE, !.wantVisible = FALSE, !.routed = @ \ {s.native},
            !.scripts = {}, !.closing = @ \cup {s.native}]

Detached(s) ==
  [s EXCEPT !.releasing = TRUE, !.wantVisible = FALSE, !.routed = @ \ {s.native},
            !.scripts = {}, !.inflight = {}, !.closing = @ \cup {s.native}]

Gone(s) == [s EXCEPT !.live = @ \ {s.native}, !.closing = @ \ {s.native}]

SlipRefuses(s) == FALSE               \* the answer of `isClosed' is not asked for
Refuses(s)     == s.exported

CancelTimer(s) == [s EXCEPT !.timer = Never]

SlipTearDown(s, permanent, gone) ==   \* released before the backend confirms
  LET d == IF permanent THEN Destroyed(Detached(s)) ELSE Detached(s)
  IN Complete(IF gone THEN Gone(d) ELSE d)

TearDown(s, permanent, gone) ==
  LET d == IF permanent THEN Destroyed(Detached(s)) ELSE Detached(s)
  IN IF gone THEN Complete(Gone(d)) ELSE d

Release(s, permanent, gone) ==
  LET c == CancelTimer(s) IN
  CASE s.life = "destroyed" -> c
    [] s.life # "destroyed" /\ (s.releasing \/ s.native = NoNative) ->
         IF permanent THEN Destroyed(c) ELSE c
    [] OTHER ->
         IF Refuses(s) THEN [c EXCEPT !.shown = FALSE]
         ELSE TearDown(c, permanent, gone)

-----------------------------------------------------------------------------
SlipRemainingAnew(s) == s.policy.delay   \* a full delay from now
Remaining(s) ==
  IF s.policy.delay > s.hiddenFor THEN s.policy.delay - s.hiddenFor ELSE 0

ScheduleRelease(s, gone) ==
  LET c == CancelTimer(s) IN
  CASE ~Usable(s) \/ s.hiddenFor = Never \/ s.policy.mode = "keep" -> c
    [] Usable(s) /\ s.hiddenFor # Never /\ s.policy.mode = "immediate" ->
         Release(c, FALSE, gone)
    [] OTHER -> [c EXCEPT !.timer = Remaining(s)]

HideClock(s) == IF s.hiddenFor = Never THEN 0 ELSE s.hiddenFor

Hide(s, gone) ==
  IF s.life = "destroyed" THEN s
  ELSE ScheduleRelease(
         [s EXCEPT !.wantVisible = FALSE, !.hiddenFor = HideClock(s),
                   !.shown = @ /\ ~Usable(s)], gone)

(* `show', and `focus' but for the focus. *)
Show(s) ==
  LET v == [CancelTimer(s) EXCEPT !.hiddenFor = Never, !.wantVisible = TRUE] IN
  CASE s.life = "destroyed" -> s
    [] s.life # "destroyed" /\ s.releasing -> v
    [] s.life # "destroyed" /\ ~s.releasing /\ s.native = NoNative -> CreateNative(v)
    [] OTHER -> [v EXCEPT !.shown = TRUE]

(* `close' after its event was dispatched to a handler that may have hidden
   or destroyed the window, and may have prevented the default. *)
Close(s, handled, prevented, behavior, gone) ==
  CASE s.life = "destroyed" -> s
    [] s.life # "destroyed" /\ (prevented \/ handled.life = "destroyed") -> handled
    [] OTHER -> IF behavior = "hide" THEN Hide(handled, gone)
                ELSE Release(handled, TRUE, gone)

(* `navigate'.  A protected document is never replaced in place: its native
   window is released and created again, with the new entry. *)
Load(s, u) == IF Usable(s) THEN [s EXCEPT !.url = u, !.page = u]
              ELSE [s EXCEPT !.url = u]

Replace(s, u, gone) ==
  LET r == Release([s EXCEPT !.url = u], FALSE, gone)
      v == [r EXCEPT !.wantVisible = s.wantVisible]
  IN CASE Usable(r) -> r              \* an exception: it could not be released
       [] ~Usable(r) /\ r.native = NoNative /\ s.wantVisible -> CreateNative(v)
       [] OTHER -> v

Navigate(s, u, gone) ==
  IF s.protected /\ s.url # NoUrl /\ Usable(s) THEN Replace(s, u, gone)
  ELSE Load(s, u)
=============================================================================
