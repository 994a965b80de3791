------------------------ MODULE BrowserWindowsProofs ------------------------
(* What BrowserWindows keeps for any number of windows, keys, calls and native
   windows.  The invariant is one of each window's record, and every function
   of WindowLifecycle keeps it; the actions then have little left to show. *)
EXTENDS BrowserWindows, TLAPS

-----------------------------------------------------------------------------
(* Where the native part of a window stands: nothing exists or is routed but
   the current native window, which is intact while it is usable. *)
Body(s) ==
  /\ s \in Window
  /\ s.native <= s.epoch
  /\ s.life = "unborn" => s.native = NoNative
  /\ s.releasing => s.native # NoNative
  /\ s.life = "destroyed" /\ s.native # NoNative => s.releasing
  /\ s.live \subseteq {s.native}
  /\ s.closing \subseteq s.live
  /\ s.routed = IF Usable(s) THEN {s.native} ELSE {}
  /\ Usable(s) => s.live = {s.native} /\ s.closing = {}
  /\ s.exported => Usable(s)

(* What the application wants of it, and what waits for its page. *)
Wishes(s) ==
  /\ s.life # "alive" => ~s.wantVisible /\ s.key = NoKey
  /\ s.wantVisible => s.hiddenFor = Never
  /\ s.releasing /\ s.wantVisible => s.epoch < MaxNatives
  /\ Usable(s) /\ ~s.exported => (s.shown <=> s.wantVisible)
  /\ Usable(s) => s.installed = s.bound
  /\ s.scripts \subseteq (IF Usable(s) THEN {s.native} ELSE {})
  /\ ~Usable(s) => s.inflight = {}

TimerOK(s) ==
  /\ s.timer # Never => /\ Usable(s) /\ s.hiddenFor # Never
                        /\ s.policy.mode = "delayed"
                        /\ s.timer + s.hiddenFor >= s.policy.delay
                        /\ s.timer > 0 => s.timer + s.hiddenFor = s.policy.delay
  /\ Usable(s) /\ ~s.exported /\ s.hiddenFor # Never /\ s.timer = Never
       => s.policy.mode = "keep"

PageOK(s) == Usable(s) => s.page = s.url \/ (s.protected /\ s.exported)

Base(s)  == Body(s) /\ Wishes(s)
WinOK(s) == Base(s) /\ TimerOK(s) /\ PageOK(s)
Known(s) == WinOK(s) /\ s.life # "unborn"

USE DEF Never, NoNative, Usable

(* A window without a native part may be given one, if it is wanted. *)
Vacant(s) ==
  /\ s \in Window /\ s.life = "alive"
  /\ s.epoch < MaxNatives
  /\ s.native = NoNative /\ ~s.releasing
  /\ s.live = {} /\ s.closing = {} /\ s.routed = {}
  /\ s.scripts = {} /\ s.inflight = {}
  /\ s.wantVisible /\ s.hiddenFor = Never /\ s.timer = Never

LEMMA Bounds == /\ 0 \in 0..MaxNatives /\ MaxNatives \in Nat /\ MaxDelay \in Nat
               /\ Never \in Never..MaxDelay
  BY WindowsAssumption DEF WindowsAssumption

LEMMA CreateOK == ASSUME NEW s, Vacant(s) PROVE Known(CreateNative(s))
  <1> DEFINE e == s.epoch + 1
             t == CreateNative(s)
  <1>0. s \in Window
    BY DEF Vacant
  <1>1. e \in Natives /\ e \in 0..MaxNatives /\ s.epoch \in Nat
    BY WindowsAssumption DEF WindowsAssumption, Vacant, Window, Natives
  <1>2. t \in Window
    <2> DEFINE u == [s EXCEPT !.native = e, !.epoch = e, !.routed = @ \cup {e},
                              !.live = @ \cup {e}]
    <2>1. u \in Window
      BY <1>0, <1>1 DEF Window
    <2> HIDE DEF u
    <2>2. [u EXCEPT !.shown = TRUE, !.exported = FALSE, !.page = u.url,
                    !.installed = u.bound] \in Window
      BY <2>1 DEF Window
    <2>3. u.url = s.url /\ u.bound = s.bound
      BY <1>0 DEF u, Window
    <2> QED BY <2>2, <2>3 DEF u, CreateNative
  <1>3. Body(t)
    BY <1>1, <1>2 DEF Vacant, Body, CreateNative, Window
  <1>4. Wishes(t)
    BY <1>1, <1>2 DEF Vacant, Wishes, CreateNative, Window
  <1>5. TimerOK(t)
    BY <1>1, <1>2 DEF Vacant, TimerOK, CreateNative, Window
  <1>6. PageOK(t)
    BY <1>1, <1>2 DEF Vacant, PageOK, CreateNative, Window
  <1>7. t.life = "alive"
    BY <1>0 DEF Vacant, CreateNative, Window
  <1> QED BY <1>3, <1>4, <1>5, <1>6, <1>7 DEF Known, WinOK, Base

(* A window whose native part is gone, when `complete' notices. *)
Torn(s) ==
  /\ Body(s) /\ Wishes(s) /\ s.timer = Never
  /\ s.releasing /\ s.live = {}

LEMMA CompleteOK == ASSUME NEW s, Torn(s) PROVE Known(Complete(s))
  <1> DEFINE r == [s EXCEPT !.native = NoNative, !.releasing = FALSE]
  <1>0. s \in Window /\ s.life # "unborn"
    BY DEF Torn, Body, Unborn
  <1>1. r \in Window
    BY <1>0, Bounds DEF Window
  <1>2. CASE s.life = "alive" /\ s.wantVisible
    <2>1. Vacant(r)
      BY <1>0, <1>1, <1>2 DEF Torn, Body, Wishes, Vacant, Window
    <2> QED BY <1>2, <2>1, CreateOK DEF Complete
  <1>3. CASE ~(s.life = "alive" /\ s.wantVisible)
    <2>1. Complete(s) = r
      BY <1>3 DEF Complete
    <2>2. Body(r)
      BY <1>0, <1>1 DEF Torn, Body, Window
    <2>3. Wishes(r)
      BY <1>0, <1>1, <1>3 DEF Torn, Body, Wishes, Window
    <2>4. TimerOK(r) /\ PageOK(r)
      BY <1>0 DEF Torn, TimerOK, PageOK, Window
    <2>5. r.life = s.life
      BY <1>0 DEF Window
    <2> QED BY <1>0, <2>1, <2>2, <2>3, <2>4, <2>5 DEF Known, WinOK, Base
  <1> QED BY <1>2, <1>3

(* A release in progress. *)
LEMMA DetachedOK ==
  ASSUME NEW s, Base(s), Usable(s), ~s.exported, s.timer = Never
  PROVE  LET d == Detached(s) IN
           /\ WinOK(d) /\ d.releasing /\ d.life = "alive"
           /\ d.timer = Never /\ d.live = {d.native} /\ ~d.wantVisible
  <1> DEFINE d == Detached(s)
  <1>0. s \in Window /\ s.native \in Natives
    BY DEF Base, Body, Window, Natives
  <1>1. d \in Window
    BY <1>0 DEF Detached, Window
  <1>2. Body(d)
    BY <1>0, <1>1 DEF Base, Body, Detached, Window
  <1>3. Wishes(d)
    BY <1>0, <1>1 DEF Base, Wishes, Detached, Window
  <1>4. TimerOK(d) /\ PageOK(d)
    BY <1>0 DEF TimerOK, PageOK, Detached, Window
  <1>5. d.releasing /\ d.life = "alive" /\ d.timer = Never /\ ~d.wantVisible
    BY <1>0 DEF Detached, Window
  <1>6. d.live = {d.native}
    BY <1>0 DEF Base, Body, Detached, Window
  <1> HIDE DEF d
  <1> QED BY <1>2, <1>3, <1>4, <1>5, <1>6 DEF WinOK, Base, d

LEMMA DestroyedOK ==
  ASSUME NEW s, Base(s), ~Usable(s), s.life # "unborn", s.timer = Never
  PROVE  LET d == Destroyed(s) IN
           /\ Known(d) /\ d.timer = Never /\ d.native = s.native
           /\ d.releasing <=> s.releasing
           /\ d.live = s.live
  <1> DEFINE d == Destroyed(s)
  <1>0. s \in Window
    BY DEF Base, Body
  <1>1. d \in Window
    BY <1>0 DEF Destroyed, Window
  <1>2. Body(d)
    BY <1>0, <1>1 DEF Base, Body, Destroyed, Window
  <1>3. Wishes(d)
    BY <1>0, <1>1 DEF Base, Wishes, Destroyed, Window
  <1>4. TimerOK(d) /\ PageOK(d)
    BY <1>0 DEF TimerOK, PageOK, Destroyed, Window
  <1>5. d.timer = Never /\ d.native = s.native /\ (d.releasing <=> s.releasing)
        /\ d.live = s.live /\ d.life = "destroyed"
    BY <1>0 DEF Destroyed, Window
  <1> HIDE DEF d
  <1> QED BY <1>2, <1>3, <1>4, <1>5 DEF Known, WinOK, Base, d

LEMMA GoneOK ==
  ASSUME NEW s, Base(s), s.releasing, s.live = {s.native}, s.timer = Never
  PROVE  Torn(Gone(s))
  <1> DEFINE g == Gone(s)
  <1>0. s \in Window /\ s.native \in Natives
    BY DEF Base, Body, Window, Natives
  <1>1. g \in Window
    BY <1>0 DEF Gone, Window
  <1>2. Body(g)
    <2>1. g.live = {} /\ g.closing = {}
      BY <1>0 DEF Base, Body, Gone, Window
    <2>2. /\ g.native = s.native /\ g.epoch = s.epoch /\ g.routed = s.routed
          /\ g.life = s.life /\ g.releasing /\ (g.exported <=> s.exported)
      BY <1>0 DEF Gone, Window
    <2> HIDE DEF g
    <2> QED BY <1>0, <1>1, <2>1, <2>2 DEF Base, Body, Unborn
  <1>3. Wishes(g) /\ g.timer = Never /\ g.releasing /\ g.live = {}
    BY <1>0, <1>1 DEF Base, Wishes, Gone, Window
  <1> QED BY <1>2, <1>3 DEF Torn

LEMMA TearDownOK ==
  ASSUME NEW s, Base(s), Usable(s), ~s.exported, s.timer = Never,
         NEW permanent \in BOOLEAN, NEW gone \in BOOLEAN
  PROVE  Known(TearDown(s, permanent, gone))
  <1> DEFINE d == IF permanent THEN Destroyed(Detached(s)) ELSE Detached(s)
  <1>1. Known(d) /\ d.releasing /\ d.live = {d.native} /\ d.timer = Never
    <2> DEFINE u == Detached(s)
    <2>1. /\ Known(u) /\ u.releasing
          /\ u.timer = Never /\ u.live = {u.native}
      BY DetachedOK DEF Known
    <2> HIDE DEF u
    <2>2. LET v == Destroyed(u) IN
            Known(v) /\ v.releasing /\ v.live = {v.native} /\ v.timer = Never
      BY <2>1, DestroyedOK DEF Known, WinOK
    <2> QED BY <2>1, <2>2 DEF u
  <1> HIDE DEF d
  <1>2. Known(IF gone THEN Complete(Gone(d)) ELSE d)
    BY <1>1, GoneOK, CompleteOK DEF Known, WinOK
  <1> QED BY <1>2 DEF d, TearDown

LEMMA CancelOK ==
  ASSUME NEW s, Base(s), s.life # "unborn"
  PROVE  LET c == CancelTimer(s) IN
           /\ Base(c) /\ c.timer = Never
           /\ c.life = s.life /\ c.native = s.native /\ (c.releasing <=> s.releasing)
           /\ (c.exported <=> s.exported) /\ c.policy = s.policy
           /\ c.hiddenFor = s.hiddenFor /\ c.url = s.url /\ c.page = s.page
           /\ (c.protected <=> s.protected) /\ (c.wantVisible <=> s.wantVisible)
           /\ c.epoch = s.epoch
  <1> DEFINE c == CancelTimer(s)
  <1>0. s \in Window
    BY DEF Base, Body
  <1>1. c \in Window
    BY <1>0, Bounds DEF CancelTimer, Window
  <1>2. Body(c)
    BY <1>0, <1>1 DEF Base, Body, CancelTimer, Window
  <1>3. Wishes(c)
    BY <1>0, <1>1 DEF Base, Wishes, CancelTimer, Window
  <1> QED BY <1>0, <1>2, <1>3 DEF Base, CancelTimer, Window

LEMMA ReleaseOK ==
  ASSUME NEW s, Base(s), s.life # "unborn", PageOK(s) \/ s.protected,
         NEW permanent \in BOOLEAN, NEW gone \in BOOLEAN
  PROVE  Known(Release(s, permanent, gone))
  <1> DEFINE c == CancelTimer(s)
  <1>1. /\ Base(c) /\ c.timer = Never
        /\ c.life = s.life /\ (Usable(c) <=> Usable(s))
        /\ (c.exported <=> s.exported) /\ c.url = s.url /\ c.page = s.page
        /\ (c.protected <=> s.protected)
    BY CancelOK
  <1> HIDE DEF c
  <1>2. ~Usable(c) => Known(c)
    BY <1>1 DEF Known, WinOK, TimerOK, PageOK
  <1>3. CASE s.life = "destroyed"
    BY <1>1, <1>2, <1>3 DEF Release, c
  <1>4. CASE s.life # "destroyed" /\ (s.releasing \/ s.native = NoNative)
    <2>1. Known(Destroyed(c))
      BY <1>1, <1>4, DestroyedOK
    <2> QED BY <1>1, <1>2, <1>4, <2>1 DEF Release, c
  <1>5. CASE Usable(s) /\ ~s.exported
    <2>1. Known(TearDown(c, permanent, gone))
      BY <1>1, <1>5, TearDownOK
    <2> QED BY <1>5, <2>1 DEF Release, Refuses, c
  <1>6. CASE Usable(s) /\ s.exported
    <2> DEFINE h == [c EXCEPT !.shown = FALSE]
    <2>0. c \in Window
      BY <1>1 DEF Base, Body
    <2>1. h \in Window
      BY <2>0 DEF Window
    <2>2. Body(h) /\ Wishes(h)
      <3>1. Body(h)
        BY <1>1, <1>6, <2>0, <2>1 DEF Base, Body, Window
      <3>2. Wishes(h)
        BY <1>1, <1>6, <2>0, <2>1 DEF Base, Wishes, Window
      <3> QED BY <3>1, <3>2
    <2>3. TimerOK(h) /\ PageOK(h) /\ h.life = s.life
      BY <1>1, <1>6, <2>0 DEF TimerOK, PageOK, Window
    <2>4. Known(h)
      BY <2>2, <2>3 DEF Known, WinOK, Base
    <2> QED BY <1>6, <2>4 DEF Release, Refuses, c
  <1>7. s.life = "alive" \/ s.life = "destroyed"
    BY DEF Base, Body, Window
  <1> QED BY <1>3, <1>4, <1>5, <1>6, <1>7

LEMMA ScheduleReleaseOK ==
  ASSUME NEW s, Base(s), s.life # "unborn", PageOK(s), NEW gone \in BOOLEAN
  PROVE  Known(ScheduleRelease(s, gone))
  <1> DEFINE c == CancelTimer(s)
  <1>1. /\ Base(c) /\ c.timer = Never
        /\ c.life = s.life /\ (Usable(c) <=> Usable(s))
        /\ (c.exported <=> s.exported) /\ c.url = s.url /\ c.page = s.page
        /\ (c.protected <=> s.protected) /\ c.hiddenFor = s.hiddenFor
        /\ c.policy = s.policy
    BY CancelOK
  <1> HIDE DEF c
  <1>2. PageOK(c)
    BY <1>1 DEF PageOK
  <1>3. CASE ~Usable(s) \/ s.hiddenFor = Never \/ s.policy.mode = "keep"
    <2>1. Known(c)
      BY <1>1, <1>2, <1>3 DEF Known, WinOK, TimerOK
    <2> QED BY <1>3, <2>1 DEF ScheduleRelease, c
  <1>4. CASE Usable(s) /\ s.hiddenFor # Never /\ s.policy.mode = "immediate"
    <2>1. Known(Release(c, FALSE, gone))
      BY <1>1, <1>2, ReleaseOK
    <2> QED BY <1>4, <2>1 DEF ScheduleRelease, c
  <1>5. CASE /\ Usable(s) /\ s.hiddenFor # Never
             /\ s.policy.mode \notin {"immediate", "keep"}
    <2> DEFINE h == [c EXCEPT !.timer = Remaining(s)]
    <2>0. c \in Window /\ s \in Window
      BY <1>1 DEF Base, Body
    <2>1. /\ s.hiddenFor \in 0..MaxDelay /\ s.policy.delay \in 0..MaxDelay
          /\ s.policy.mode = "delayed"
      BY <1>5, <2>0, WindowsAssumption DEF WindowsAssumption, Window, Unborn
    <2>2. /\ Remaining(s) \in 0..MaxDelay
          /\ Remaining(s) + s.hiddenFor >= s.policy.delay
          /\ Remaining(s) > 0 => Remaining(s) + s.hiddenFor = s.policy.delay
      BY <2>1, Bounds DEF Remaining
    <2>3. h \in Window
      BY <2>0, <2>2 DEF Window
    <2>4. Body(h)
      BY <1>1, <1>5, <2>0, <2>3 DEF Base, Body, Window
    <2>5. Wishes(h)
      BY <1>1, <1>5, <2>0, <2>3 DEF Base, Wishes, Window
    <2>6. TimerOK(h)
      BY <1>1, <1>5, <2>0, <2>1, <2>2 DEF TimerOK, Window
    <2>7. PageOK(h) /\ h.life = s.life
      BY <1>1, <1>2, <2>0 DEF PageOK, Window
    <2>8. Known(h)
      BY <2>4, <2>5, <2>6, <2>7 DEF Known, WinOK, Base
    <2> QED BY <1>5, <2>8 DEF ScheduleRelease, c
  <1> QED BY <1>3, <1>4, <1>5

Hidden(s) == [s EXCEPT !.wantVisible = FALSE, !.hiddenFor = HideClock(s),
                       !.shown = @ /\ ~Usable(s)]

LEMMA HiddenOK ==
  ASSUME NEW s, Known(s), s.life # "destroyed"
  PROVE  Base(Hidden(s)) /\ PageOK(Hidden(s)) /\ Hidden(s).life # "unborn"
  <1> DEFINE h == Hidden(s)
  <1>0. /\ s \in Window /\ HideClock(s) \in Never..MaxDelay
        /\ (s.shown /\ ~Usable(s)) \in BOOLEAN
    BY Bounds DEF Known, WinOK, Base, Body, Window, HideClock
  <1>1. h \in Window
    <2>1. CASE Usable(s)
      <3>1. [s EXCEPT !.wantVisible = FALSE, !.hiddenFor = HideClock(s),
                      !.shown = FALSE] \in Window
        BY <1>0 DEF Window
      <3> QED BY <1>0, <2>1, <3>1 DEF Hidden, Window
    <2>2. CASE ~Usable(s)
      <3>1. [s EXCEPT !.wantVisible = FALSE, !.hiddenFor = HideClock(s)] \in Window
        BY <1>0 DEF Window
      <3>2. h = [s EXCEPT !.wantVisible = FALSE, !.hiddenFor = HideClock(s)]
        BY <1>0, <2>2 DEF Hidden, Window
      <3> QED BY <3>1, <3>2
    <2> QED BY <2>1, <2>2
  <1>2. Body(h)
    BY <1>0, <1>1 DEF Known, WinOK, Base, Body, Hidden, Window
  <1>3. Wishes(h)
    <2>1. Usable(s) => ~h.shown
      BY <1>0 DEF Hidden, Window
    <2>2. /\ h.life = s.life /\ h.native = s.native /\ (h.releasing <=> s.releasing)
          /\ ~h.wantVisible /\ h.key = s.key /\ h.inflight = s.inflight
          /\ h.scripts = s.scripts /\ h.installed = s.installed /\ h.bound = s.bound
      BY <1>0 DEF Hidden, Window
    <2> HIDE DEF h
    <2> QED BY <2>1, <2>2 DEF Known, WinOK, Base, Wishes
  <1>4. PageOK(h) /\ h.life # "unborn"
    BY <1>0 DEF Known, WinOK, PageOK, Hidden, Window
  <1> QED BY <1>2, <1>3, <1>4 DEF Base

LEMMA HideOK ==
  ASSUME NEW s, Known(s), NEW gone \in BOOLEAN
  PROVE  Known(Hide(s, gone))
  <1>1. s.life # "destroyed" => Known(ScheduleRelease(Hidden(s), gone))
    BY HiddenOK, ScheduleReleaseOK
  <1> QED BY <1>1 DEF Hide, Hidden

LEMMA ShowOK ==
  ASSUME NEW s, Known(s),
         s.epoch < MaxNatives \/ Usable(s) \/ s.life = "destroyed"
  PROVE  Known(Show(s))
  <1> DEFINE c == CancelTimer(s)
             v == [c EXCEPT !.hiddenFor = Never, !.wantVisible = TRUE]
  <1>1. /\ Base(c) /\ c.timer = Never /\ c.epoch = s.epoch
        /\ c.life = s.life /\ c.native = s.native /\ (c.releasing <=> s.releasing)
        /\ (c.exported <=> s.exported) /\ c.url = s.url /\ c.page = s.page
        /\ (c.protected <=> s.protected)
    BY CancelOK DEF Known, WinOK
  <1> HIDE DEF c
  <1>0. c \in Window
    BY <1>1 DEF Base, Body
  <1>2. v \in Window
    BY <1>0, Bounds DEF Window
  <1>3. CASE s.life = "destroyed"
    BY <1>3 DEF Show
  <1>4. CASE s.life # "destroyed" /\ s.releasing
    <2>1. Body(v)
      BY <1>0, <1>1, <1>2, <1>4 DEF Known, WinOK, Base, Body, Window
    <2>2. Wishes(v)
      BY <1>0, <1>1, <1>2, <1>4 DEF Known, WinOK, Base, Body, Wishes, Window
    <2>3. TimerOK(v) /\ PageOK(v) /\ v.life # "unborn"
      BY <1>0, <1>1, <1>4 DEF Known, TimerOK, PageOK, Window
    <2>4. Known(v)
      BY <2>1, <2>2, <2>3 DEF Known, WinOK, Base
    <2> QED BY <1>4, <2>4 DEF Show, c
  <1>5. CASE s.life # "destroyed" /\ ~s.releasing /\ s.native = NoNative
    <2>1. s.life = "alive" /\ s.epoch < MaxNatives
      BY <1>5 DEF Known, WinOK, Base, Body, Window
    <2>2. /\ v.life = c.life /\ v.epoch = c.epoch /\ v.native = c.native
          /\ (v.releasing <=> c.releasing) /\ v.live = c.live
          /\ v.closing = c.closing /\ v.routed = c.routed
          /\ v.scripts = c.scripts /\ v.inflight = c.inflight
      BY <1>0 DEF Window
    <2>3. v.wantVisible /\ v.hiddenFor = Never /\ v.timer = Never
      BY <1>0, <1>1 DEF Window
    <2> HIDE DEF v
    <2>4. Vacant(v)
      <3>1. /\ c.scripts = {} /\ c.inflight = {} /\ c.routed = {} /\ c.live = {}
            /\ c.closing = {}
        BY <1>0, <1>1, <1>5, <2>1 DEF Base, Body, Wishes, Window, Natives
      <3> QED BY <1>1, <1>2, <1>5, <2>1, <2>2, <2>3, <3>1 DEF Vacant
    <2> QED BY <1>5, <2>4, CreateOK DEF Show, c, v
  <1>6. CASE s.life # "destroyed" /\ ~s.releasing /\ s.native # NoNative
    <2> DEFINE h == [v EXCEPT !.shown = TRUE]
    <2> HIDE DEF v
    <2>1. /\ v.life = s.life /\ v.native = s.native /\ (v.releasing <=> s.releasing)
          /\ v.wantVisible /\ v.hiddenFor = Never /\ v.timer = Never
      BY <1>0, <1>1 DEF v, Window
    <2>2. h \in Window
      BY <1>2 DEF Window
    <2>3. Body(h)
      BY <1>0, <1>1, <1>2, <1>6, <2>1, <2>2 DEF Known, Base, Body, Window, v
    <2>4. Wishes(h)
      BY <1>0, <1>1, <1>2, <1>6, <2>1, <2>2 DEF Known, WinOK, Base, Body, Wishes, Window, v
    <2>5. TimerOK(h) /\ PageOK(h) /\ h.life # "unborn"
      BY <1>0, <1>1, <1>2, <1>6, <2>1 DEF Known, WinOK, TimerOK, PageOK, Window, v
    <2>6. Known(h)
      BY <2>3, <2>4, <2>5 DEF Known, WinOK, Base
    <2> QED BY <1>6, <2>6 DEF Show, c, v
  <1> QED BY <1>3, <1>4, <1>5, <1>6

LEMMA CloseOK ==
  ASSUME NEW s, NEW handled, Known(s), Known(handled), NEW prevented \in BOOLEAN,
         NEW behavior, NEW gone \in BOOLEAN
  PROVE  Known(Close(s, handled, prevented, behavior, gone))
  <1>1. Known(Hide(handled, gone)) /\ Known(Release(handled, TRUE, gone))
    BY HideOK, ReleaseOK DEF Known, WinOK
  <1> QED BY <1>1 DEF Close

-----------------------------------------------------------------------------
(* What none of these functions does to a window: take another key, add calls
   in progress or keep them for another native window, bring a destroyed one
   back, or take an exported native window away.  Only `show' lets the hidden
   time run backwards, by ending it. *)
Tame(s, t) ==
  /\ t.key \in {s.key, NoKey}
  /\ t.inflight = {} \/ (t.inflight = s.inflight /\ t.native = s.native)
  /\ s.life = "destroyed" => t.life = "destroyed" /\ t.epoch = s.epoch
  /\ s.exported /\ Usable(s) => t.exported /\ Usable(t) /\ t.native = s.native

Calm(s, t) == Tame(s, t) /\ (s.hiddenFor # Never => t.hiddenFor = s.hiddenFor)

LEMMA CalmSame == ASSUME NEW s PROVE Calm(s, s)
  BY DEF Calm, Tame

LEMMA CalmTwice ==
  ASSUME NEW s, NEW t, NEW u, Calm(s, t), Calm(t, u) PROVE Calm(s, u)
  BY DEF Calm, Tame

LEMMA CreateCalm == ASSUME NEW s, Vacant(s) PROVE Calm(s, CreateNative(s))
  BY DEF Vacant, Window, CreateNative, Calm, Tame

LEMMA CompleteCalm == ASSUME NEW s, Torn(s) PROVE Calm(s, Complete(s))
  <1> DEFINE r == [s EXCEPT !.native = NoNative, !.releasing = FALSE]
  <1>0. s \in Window /\ s.inflight = {}
    BY DEF Torn, Body, Wishes
  <1>1. Calm(s, r) /\ r.life = s.life
    BY <1>0 DEF Torn, Window, Calm, Tame
  <1>2. CASE s.life = "alive" /\ s.wantVisible
    <2>1. r \in Window
      BY <1>0, Bounds DEF Window
    <2>2. Vacant(r)
      BY <1>0, <1>2, <2>1 DEF Torn, Body, Wishes, Vacant, Window
    <2>3. Calm(r, CreateNative(r))
      BY <2>2, CreateCalm
    <2> HIDE DEF r
    <2>4. Calm(s, CreateNative(r))
      BY <1>1, <2>3, CalmTwice
    <2> QED BY <1>2, <2>4 DEF Complete, r
  <1>3. CASE ~(s.life = "alive" /\ s.wantVisible)
    BY <1>1, <1>3 DEF Complete
  <1> QED BY <1>2, <1>3

LEMMA DestroyedCalm ==
  ASSUME NEW s \in Window, ~Usable(s) PROVE Calm(s, Destroyed(s))
  BY DEF Window, Destroyed, Calm, Tame

LEMMA DetachedCalm ==
  ASSUME NEW s \in Window, Usable(s), ~s.exported PROVE Calm(s, Detached(s))
  BY DEF Window, Detached, Calm, Tame

LEMMA GoneCalm ==
  ASSUME NEW s \in Window, s.releasing PROVE Calm(s, Gone(s))
  BY DEF Window, Gone, Calm, Tame

LEMMA CancelCalm ==
  ASSUME NEW s \in Window PROVE Calm(s, CancelTimer(s))
  BY DEF Window, CancelTimer, Calm, Tame

LEMMA TearDownCalm ==
  ASSUME NEW s, Base(s), Usable(s), ~s.exported, s.timer = Never,
         NEW permanent \in BOOLEAN, NEW gone \in BOOLEAN
  PROVE  Calm(s, TearDown(s, permanent, gone))
  <1> DEFINE u == Detached(s)
             d == IF permanent THEN Destroyed(u) ELSE u
  <1>1. /\ Known(u) /\ u.releasing /\ Calm(s, u)
        /\ u.timer = Never /\ u.live = {u.native}
    BY DetachedOK, DetachedCalm DEF Known, Base, Body
  <1> HIDE DEF u
  <1>2. /\ Known(Destroyed(u)) /\ Destroyed(u).releasing /\ Calm(u, Destroyed(u))
        /\ Destroyed(u).live = {Destroyed(u).native} /\ Destroyed(u).timer = Never
    BY <1>1, DestroyedOK, DestroyedCalm DEF Known, WinOK, Base, Body
  <1>3. /\ Base(d) /\ d \in Window /\ d.releasing /\ d.live = {d.native}
        /\ d.timer = Never /\ Calm(s, d)
    BY <1>1, <1>2, CalmTwice DEF Known, WinOK, Base, Body
  <1> HIDE DEF d
  <1>4. Torn(Gone(d)) /\ Calm(d, Gone(d))
    BY <1>3, GoneOK, GoneCalm
  <1>5. Calm(d, Complete(Gone(d)))
    BY <1>4, CompleteCalm, CalmTwice
  <1>6. Calm(s, IF gone THEN Complete(Gone(d)) ELSE d)
    BY <1>3, <1>5, CalmTwice
  <1> QED BY <1>6 DEF d, u, TearDown

LEMMA ReleaseCalm ==
  ASSUME NEW s, Base(s), s.life # "unborn",
         NEW permanent \in BOOLEAN, NEW gone \in BOOLEAN
  PROVE  Calm(s, Release(s, permanent, gone))
  <1> DEFINE c == CancelTimer(s)
  <1>1. /\ Base(c) /\ c \in Window /\ c.timer = Never /\ (Usable(c) <=> Usable(s))
        /\ (c.exported <=> s.exported) /\ Calm(s, c)
    BY CancelOK, CancelCalm DEF Base, Body
  <1> HIDE DEF c
  <1>2. ~Usable(s) => Calm(s, Destroyed(c))
    BY <1>1, DestroyedCalm, CalmTwice
  <1>3. Usable(s) /\ ~s.exported => Calm(s, TearDown(c, permanent, gone))
    BY <1>1, TearDownCalm, CalmTwice
  <1>4. Calm(s, [c EXCEPT !.shown = FALSE])
    <2>1. Calm(c, [c EXCEPT !.shown = FALSE])
      BY <1>1 DEF Window, Calm, Tame
    <2> QED BY <1>1, <2>1, CalmTwice
  <1>5. s.life = "alive" \/ s.life = "destroyed"
    BY DEF Base, Body, Window
  <1> QED BY <1>1, <1>2, <1>3, <1>4, <1>5 DEF Release, Refuses, c

LEMMA ScheduleReleaseCalm ==
  ASSUME NEW s, Base(s), s.life # "unborn", NEW gone \in BOOLEAN
  PROVE  Calm(s, ScheduleRelease(s, gone))
  <1> DEFINE c == CancelTimer(s)
  <1>1. Base(c) /\ c \in Window /\ c.life # "unborn" /\ Calm(s, c)
    BY CancelOK, CancelCalm DEF Base, Body
  <1> HIDE DEF c
  <1>2. Calm(s, Release(c, FALSE, gone))
    BY <1>1, ReleaseCalm, CalmTwice
  <1>3. Calm(s, [c EXCEPT !.timer = Remaining(s)])
    <2>1. Calm(c, [c EXCEPT !.timer = Remaining(s)])
      BY <1>1 DEF Window, Calm, Tame
    <2> QED BY <1>1, <2>1, CalmTwice
  <1> QED BY <1>1, <1>2, <1>3 DEF ScheduleRelease, c

LEMMA HideCalm ==
  ASSUME NEW s, Known(s), NEW gone \in BOOLEAN
  PROVE  Calm(s, Hide(s, gone))
  <1>1. CASE s.life # "destroyed"
    <2>1. Calm(s, Hidden(s))
      BY DEF Known, WinOK, Base, Body, Window, Hidden, HideClock, Calm, Tame
    <2>2. Calm(Hidden(s), ScheduleRelease(Hidden(s), gone))
      BY <1>1, HiddenOK, ScheduleReleaseCalm
    <2>3. Calm(s, ScheduleRelease(Hidden(s), gone))
      BY <2>1, <2>2, CalmTwice
    <2> QED BY <1>1, <2>3 DEF Hide, Hidden
  <1>2. CASE s.life = "destroyed"
    BY <1>2, CalmSame DEF Hide
  <1> QED BY <1>1, <1>2

LEMMA CloseCalm ==
  ASSUME NEW s, NEW handled, Known(s), Known(handled), Calm(s, handled),
         NEW prevented \in BOOLEAN, NEW behavior, NEW gone \in BOOLEAN
  PROVE  Calm(s, Close(s, handled, prevented, behavior, gone))
  <1>1. Calm(handled, Hide(handled, gone)) /\ Calm(handled, Release(handled, TRUE, gone))
    BY HideCalm, ReleaseCalm DEF Known, WinOK
  <1>2. Calm(s, Hide(handled, gone)) /\ Calm(s, Release(handled, TRUE, gone))
    BY <1>1, CalmTwice
  <1> QED BY <1>2, CalmSame DEF Close

LEMMA ShowTame ==
  ASSUME NEW s, Known(s),
         s.epoch < MaxNatives \/ Usable(s) \/ s.life = "destroyed"
  PROVE  Tame(s, Show(s))
  <1> DEFINE c == CancelTimer(s)
             v == [c EXCEPT !.hiddenFor = Never, !.wantVisible = TRUE]
  <1>0. s \in Window /\ s.life # "unborn"
    BY DEF Known, WinOK, Base, Body
  <1>1. Tame(s, v) /\ Tame(s, [v EXCEPT !.shown = TRUE])
    BY <1>0 DEF CancelTimer, Window, Tame
  <1>2. s.life = "alive" /\ s.native = NoNative /\ ~s.releasing
          => Tame(s, CreateNative(v))
    <2>1. s.life = "alive" /\ s.native = NoNative => s.inflight = {}
      BY DEF Known, WinOK, Base, Wishes
    <2> QED BY <1>0, <2>1 DEF CancelTimer, CreateNative, Window, Tame
  <1>3. Tame(s, s) /\ (s.life = "alive" \/ s.life = "destroyed")
    BY <1>0, CalmSame DEF Calm, Window
  <1> QED BY <1>1, <1>2, <1>3 DEF Show

(* A release that is not permanent takes the native window away, or begins
   to, and changes nothing else that Replace looks at. *)
LEMMA ReleasedOK ==
  ASSUME NEW s, Base(s), Usable(s), ~s.exported, PageOK(s) \/ s.protected,
         NEW gone \in BOOLEAN
  PROVE  LET r == Release(s, FALSE, gone) IN
           /\ Known(r) /\ ~Usable(r) /\ r.life = "alive"
           /\ r.epoch = s.epoch /\ r.hiddenFor = s.hiddenFor
  <1> DEFINE c == CancelTimer(s)
             d == Detached(c)
             g == Gone(d)
             r == Release(s, FALSE, gone)
  <1>0. s \in Window /\ s.life = "alive" /\ s.native \in Natives
    BY DEF Base, Body, Window, Natives
  <1>1. Known(r)
    BY <1>0, ReleaseOK
  <1>2. r = IF gone THEN Complete(g) ELSE d
    BY <1>0 DEF Release, Refuses, TearDown
  <1>3. /\ d.life = "alive" /\ d.epoch = s.epoch /\ d.hiddenFor = s.hiddenFor
        /\ d.releasing /\ ~d.wantVisible
    BY <1>0 DEF CancelTimer, Detached, Window
  <1>4. /\ Complete(g).life = "alive" /\ Complete(g).epoch = s.epoch
        /\ Complete(g).hiddenFor = s.hiddenFor /\ Complete(g).native = NoNative
    BY <1>0 DEF CancelTimer, Detached, Gone, Complete, Window
  <1> HIDE DEF c, d, g, r
  <1> QED BY <1>1, <1>2, <1>3, <1>4 DEF r

LEMMA NavigateOK ==
  ASSUME NEW s, Known(s), s.life = "alive", s.epoch < MaxNatives \/ ~s.protected,
         NEW u \in Urls, NEW gone \in BOOLEAN
  PROVE  Known(Navigate(s, u, gone))
  <1>0. s \in Window
    BY DEF Known, WinOK, Base, Body
  <1>1. CASE ~(s.protected /\ s.url # NoUrl /\ Usable(s))
    <2>1. CASE Usable(s)
      <3> DEFINE t == [s EXCEPT !.url = u, !.page = u]
      <3>1. t \in Window
        BY <1>0 DEF Window
      <3>2. Body(t)
        BY <1>0, <3>1 DEF Known, WinOK, Base, Body, Window
      <3>3. Wishes(t)
        BY <1>0, <3>1 DEF Known, WinOK, Base, Wishes, Window
      <3>4. TimerOK(t) /\ PageOK(t) /\ t.life = s.life
        BY <1>0 DEF Known, WinOK, TimerOK, PageOK, Window
      <3> QED BY <1>1, <2>1, <3>2, <3>3, <3>4 DEF Known, WinOK, Base, Navigate, Load
    <2>2. CASE ~Usable(s)
      <3> DEFINE t == [s EXCEPT !.url = u]
      <3>1. t \in Window
        BY <1>0 DEF Window
      <3>2. Body(t)
        BY <1>0, <3>1 DEF Known, WinOK, Base, Body, Window
      <3>3. Wishes(t)
        BY <1>0, <3>1 DEF Known, WinOK, Base, Wishes, Window
      <3>4. TimerOK(t) /\ PageOK(t) /\ t.life = s.life
        BY <1>0, <2>2 DEF Known, WinOK, TimerOK, PageOK, Window
      <3> QED BY <1>1, <2>2, <3>2, <3>3, <3>4 DEF Known, WinOK, Base, Navigate, Load
    <2> QED BY <2>1, <2>2
  <1>2. CASE s.protected /\ s.url # NoUrl /\ Usable(s)
    <2> DEFINE a == [s EXCEPT !.url = u]
               r == Release(a, FALSE, gone)
    <2>1. Base(a) /\ a.life = "alive" /\ a.protected
      <3>1. a \in Window
        BY <1>0 DEF Window
      <3>2. Body(a)
        BY <1>0, <3>1 DEF Known, WinOK, Base, Body, Window
      <3>3. Wishes(a)
        BY <1>0, <3>1 DEF Known, WinOK, Base, Wishes, Window
      <3> QED BY <1>0, <1>2, <3>2, <3>3 DEF Base, Window
    <2>2. a.epoch = s.epoch /\ (Usable(a) <=> Usable(s)) /\ a.native = s.native
          /\ (a.exported <=> s.exported)
      BY <1>0 DEF Window
    <2>3. Known(r)
      BY <2>1, ReleaseOK
    <2> HIDE DEF a
    <2>4. CASE s.exported
      <3>1. Calm(a, r)
        BY <2>1, ReleaseCalm
      <3>2. Usable(r)
        BY <1>2, <2>2, <2>4, <3>1 DEF Calm, Tame
      <3> QED BY <1>2, <2>3, <3>2 DEF Navigate, Replace, a
    <2>5. CASE ~s.exported
      <3> DEFINE v == [r EXCEPT !.wantVisible = s.wantVisible]
      <3>1. /\ ~Usable(r) /\ r.life = "alive"
            /\ r.epoch = s.epoch /\ r.hiddenFor = a.hiddenFor
        BY <1>2, <2>1, <2>2, <2>5, ReleasedOK
      <3>2. a.hiddenFor = s.hiddenFor
        BY <1>0 DEF a, Window
      <3> HIDE DEF r
      <3>3. r \in Window /\ s.wantVisible \in BOOLEAN
        BY <1>0, <2>3 DEF Known, WinOK, Base, Body, Window
      <3>4. v \in Window
        BY <3>3 DEF Window
      <3>5. /\ v.life = r.life /\ v.epoch = r.epoch /\ v.hiddenFor = r.hiddenFor
            /\ v.native = r.native /\ (v.releasing <=> r.releasing)
            /\ (v.exported <=> r.exported) /\ (v.wantVisible <=> s.wantVisible)
        BY <3>3 DEF Window
      <3>6. v.live = r.live /\ v.closing = r.closing /\ v.routed = r.routed
            /\ v.scripts = r.scripts /\ v.inflight = r.inflight /\ v.timer = r.timer
        BY <3>3 DEF Window
      <3>7. s.wantVisible => s.hiddenFor = Never /\ s.epoch < MaxNatives
        BY <1>2 DEF Known, WinOK, Base, Wishes
      <3> HIDE DEF v
      <3>8. CASE r.native = NoNative /\ s.wantVisible
        <4>1. r.live = {} /\ r.closing = {} /\ r.routed = {} /\ ~r.releasing
              /\ r.scripts = {} /\ r.inflight = {} /\ r.timer = Never
          <5>1. r.closing = {} /\ r.routed = {} /\ ~r.releasing
                /\ r.scripts = {} /\ r.inflight = {} /\ r.timer = Never
            BY <2>3, <3>1, <3>3, <3>8 DEF Known, WinOK, Base, Body, Wishes, TimerOK,
                                          Window, Natives
          <5>2. r.live = {}
            BY <2>3, <3>3, <3>8 DEF Known, WinOK, Base, Body, Window, Natives
          <5> QED BY <5>1, <5>2
        <4>2. Vacant(v)
          BY <3>1, <3>2, <3>4, <3>5, <3>6, <3>7, <3>8, <4>1 DEF Vacant
        <4> QED BY <1>2, <3>1, <3>8, <4>2, CreateOK DEF Navigate, Replace, a, r, v
      <3>9. CASE ~(r.native = NoNative /\ s.wantVisible)
        <4>1. Body(v)
          BY <2>3, <3>1, <3>4, <3>5, <3>6 DEF Known, WinOK, Base, Body
        <4>2. Wishes(v)
          BY <2>3, <3>1, <3>2, <3>3, <3>5, <3>6, <3>7, <3>9
             DEF Known, WinOK, Base, Body, Wishes
        <4>3. TimerOK(v) /\ PageOK(v)
          BY <2>3, <3>1, <3>5, <3>6 DEF Known, WinOK, TimerOK, PageOK
        <4> QED BY <1>2, <3>1, <3>5, <3>9, <4>1, <4>2, <4>3
                DEF Known, WinOK, Base, Navigate, Replace, a, r, v
      <3> QED BY <3>8, <3>9
    <2> QED BY <2>4, <2>5
  <1> QED BY <1>1, <1>2

LEMMA NavigateCalm ==
  ASSUME NEW s, Known(s), s.life = "alive", s.epoch < MaxNatives \/ ~s.protected,
         NEW u \in Urls, NEW gone \in BOOLEAN
  PROVE  Calm(s, Navigate(s, u, gone))
  <1> DEFINE a == [s EXCEPT !.url = u]
             r == Release(a, FALSE, gone)
             v == [r EXCEPT !.wantVisible = s.wantVisible]
  <1>0. s \in Window
    BY DEF Known, WinOK, Base, Body
  <1>1. CASE ~(s.protected /\ s.url # NoUrl /\ Usable(s))
    BY <1>0, <1>1 DEF Navigate, Load, Window, Calm, Tame
  <1>2. CASE s.protected /\ s.url # NoUrl /\ Usable(s)
    <2>1. Base(a) /\ a.life = "alive" /\ a.protected /\ Calm(s, a)
      <3>1. a \in Window
        BY <1>0 DEF Window
      <3>2. Body(a)
        BY <1>0, <3>1 DEF Known, WinOK, Base, Body, Window
      <3>3. Wishes(a)
        BY <1>0, <3>1 DEF Known, WinOK, Base, Wishes, Window
      <3> QED BY <1>0, <1>2, <3>2, <3>3 DEF Base, Window, Calm, Tame
    <2> HIDE DEF a
    <2>2. Known(r) /\ Calm(a, r) /\ r \in Window
      <3>1. Known(r)
        BY <2>1, ReleaseOK
      <3>2. Calm(a, r)
        BY <2>1, ReleaseCalm
      <3> QED BY <3>1, <3>2 DEF Known, WinOK, Base, Body
    <2> HIDE DEF r
    <2>3. CASE Usable(r)
      <3>1. Calm(s, r)
        BY <2>1, <2>2, CalmTwice
      <3> QED BY <1>2, <2>3, <3>1 DEF Navigate, Replace, a, r
    <2>4. CASE ~Usable(r)
      <3>1. r.inflight = {} /\ ~r.exported
        BY <2>2, <2>4 DEF Known, WinOK, Base, Body, Wishes
      <3>2. Calm(r, v)
        BY <2>2 DEF Window, Calm, Tame
      <3>3. r.life = "alive" \/ r.life = "destroyed"
        BY <2>2 DEF Known, Window
      <3>4. r.life = "destroyed" => FALSE
        <4>1. ~s.exported => r.life = "alive"
          <5>1. a.exported = s.exported /\ Usable(a)
            BY <1>0, <1>2 DEF a, Window
          <5> QED BY <2>1, <5>1, ReleasedOK DEF r
        <4>2. s.exported => FALSE
          BY <1>0, <1>2, <2>1, <2>2, <2>4 DEF Calm, Tame, a, Window
        <4> QED BY <4>1, <4>2
      <3>5. Calm(r, CreateNative(v))
        BY <2>2, <3>1, <3>3, <3>4 DEF CreateNative, Window, Calm, Tame
      <3>6. Calm(s, v) /\ Calm(s, CreateNative(v))
        BY <2>1, <2>2, <3>2, <3>5, CalmTwice
      <3> QED BY <1>2, <2>4, <3>6 DEF Navigate, Replace, a, r, v
    <2> QED BY <2>3, <2>4
  <1> QED BY <1>1, <1>2

-----------------------------------------------------------------------------
(* The steps of one window that are no calls of a function of its own. *)
LEMMA ExecuteJsOK ==
  ASSUME NEW s, Known(s), Usable(s), NEW x \in {{s.native}, {}}
  PROVE  LET t == [s EXCEPT !.scripts = x] IN Known(t) /\ Calm(s, t)
  <1> DEFINE t == [s EXCEPT !.scripts = x]
  <1>0. s \in Window /\ s.native \in Natives
    BY DEF Known, WinOK, Base, Body, Window, Natives
  <1>1. t \in Window
    BY <1>0 DEF Window
  <1>2. Body(t)
    BY <1>0, <1>1 DEF Known, WinOK, Base, Body, Window
  <1>3. Wishes(t)
    BY <1>0 DEF Known, WinOK, Base, Wishes, Window
  <1>4. TimerOK(t) /\ PageOK(t) /\ t.life # "unborn" /\ Calm(s, t)
    BY <1>0 DEF Known, WinOK, TimerOK, PageOK, Window, Calm, Tame
  <1> QED BY <1>2, <1>3, <1>4 DEF Known, WinOK, Base

LEMMA ExportOK ==
  ASSUME NEW s, Known(s), Usable(s)
  PROVE  LET t == [s EXCEPT !.exported = TRUE] IN Known(t) /\ Calm(s, t)
  <1> DEFINE t == [s EXCEPT !.exported = TRUE]
  <1>0. s \in Window
    BY DEF Known, WinOK, Base, Body
  <1>1. t \in Window
    BY <1>0 DEF Window
  <1>2. Body(t)
    BY <1>0, <1>1 DEF Known, WinOK, Base, Body, Window
  <1>3. Wishes(t)
    BY <1>0 DEF Known, WinOK, Base, Wishes, Window
  <1>4. TimerOK(t) /\ PageOK(t) /\ t.life # "unborn" /\ Calm(s, t)
    BY <1>0 DEF Known, WinOK, TimerOK, PageOK, Window, Calm, Tame
  <1> QED BY <1>2, <1>3, <1>4 DEF Known, WinOK, Base

(* `bind' and `unbind' give the window another set of names, and its page the
   same set if there is one. *)
LEMMA NamesOK ==
  ASSUME NEW s, Known(s), NEW b \in SUBSET Names, NEW i \in SUBSET Names,
         Usable(s) => i = b
  PROVE  LET t == [s EXCEPT !.bound = b, !.installed = i] IN Known(t) /\ Calm(s, t)
  <1> DEFINE t == [s EXCEPT !.bound = b, !.installed = i]
  <1>0. s \in Window
    BY DEF Known, WinOK, Base, Body
  <1>1. t \in Window
    BY <1>0 DEF Window
  <1>2. Body(t)
    BY <1>0, <1>1 DEF Known, WinOK, Base, Body, Window
  <1>3. Wishes(t)
    BY <1>0 DEF Known, WinOK, Base, Wishes, Window
  <1>4. TimerOK(t) /\ PageOK(t) /\ t.life # "unborn" /\ Calm(s, t)
    BY <1>0 DEF Known, WinOK, TimerOK, PageOK, Window, Calm, Tame
  <1> QED BY <1>2, <1>3, <1>4 DEF Known, WinOK, Base

(* The calls in progress become others, of a page that is there. *)
LEMMA InflightOK ==
  ASSUME NEW s, WinOK(s), NEW f \in SUBSET Calls, f # {} => Usable(s)
  PROVE  LET t == [s EXCEPT !.inflight = f] IN
           /\ WinOK(t) /\ t.inflight = f /\ t.key = s.key /\ t.native = s.native
           /\ t.life = s.life /\ t.epoch = s.epoch /\ (Usable(t) <=> Usable(s))
           /\ (t.exported <=> s.exported) /\ t.hiddenFor = s.hiddenFor
  <1> DEFINE t == [s EXCEPT !.inflight = f]
  <1>0. s \in Window
    BY DEF WinOK, Base, Body
  <1>1. t \in Window
    BY <1>0 DEF Window
  <1>2. Body(t)
    BY <1>0, <1>1 DEF WinOK, Base, Body, Window
  <1>3. Wishes(t)
    BY <1>0 DEF WinOK, Base, Wishes, Window
  <1>4. TimerOK(t) /\ PageOK(t)
    BY <1>0 DEF WinOK, TimerOK, PageOK, Window
  <1>5. /\ t.inflight = f /\ t.key = s.key /\ t.native = s.native
        /\ t.life = s.life /\ t.epoch = s.epoch /\ (Usable(t) <=> Usable(s))
        /\ (t.exported <=> s.exported) /\ t.hiddenFor = s.hiddenFor
    BY <1>0 DEF Window
  <1> HIDE DEF t
  <1> QED BY <1>2, <1>3, <1>4, <1>5 DEF WinOK, Base, t

LEMMA CloseDoneOK ==
  ASSUME NEW s, WinOK(s), s.closing # {}
  PROVE  LET t == [s EXCEPT !.live = @ \ s.closing, !.closing = {}]
         IN Known(t) /\ Calm(s, t) /\ t.inflight = s.inflight
  <1> DEFINE t == [s EXCEPT !.live = @ \ s.closing, !.closing = {}]
  <1>0. s \in Window /\ ~Usable(s)
    BY DEF WinOK, Base, Body
  <1>1. t \in Window /\ s.life # "unborn"
    <2>1. t \in Window
      BY <1>0 DEF Window
    <2>2. s.native \in Natives
      BY <1>0 DEF WinOK, Base, Body, Window, Natives
    <2> QED BY <2>1, <2>2, WindowsAssumption
            DEF WindowsAssumption, WinOK, Base, Body, Natives
  <1>2. Body(t)
    BY <1>0, <1>1 DEF WinOK, Base, Body, Window
  <1>3. Wishes(t)
    BY <1>0 DEF WinOK, Base, Wishes, Window
  <1>4. TimerOK(t) /\ PageOK(t) /\ t.life # "unborn" /\ Calm(s, t)
    BY <1>0, <1>1 DEF WinOK, TimerOK, PageOK, Window, Calm, Tame
  <1>5. t.inflight = s.inflight
    BY <1>0 DEF Window
  <1> QED BY <1>2, <1>3, <1>4, <1>5 DEF Known, WinOK, Base

LEMMA PollOK ==
  ASSUME NEW s, WinOK(s), s.releasing, s.native \notin s.live
  PROVE  Known(Complete(s)) /\ Calm(s, Complete(s))
  <1>1. Torn(s)
    BY DEF WinOK, Base, Body, TimerOK, Torn
  <1> QED BY <1>1, CompleteOK, CompleteCalm

LEMMA TickOK ==
  ASSUME NEW s, WinOK(s)
  PROVE  LET t == [s EXCEPT !.hiddenFor = Older(@), !.timer = Shorter(@)] IN
           /\ WinOK(t) /\ t.inflight = s.inflight /\ t.key = s.key
           /\ t.native = s.native /\ t.life = s.life /\ t.epoch = s.epoch
           /\ (Usable(t) <=> Usable(s)) /\ (t.exported <=> s.exported)
           /\ s.hiddenFor # Never => t.hiddenFor >= s.hiddenFor
  <1> DEFINE t == [s EXCEPT !.hiddenFor = Older(@), !.timer = Shorter(@)]
  <1>0. s \in Window
    BY DEF WinOK, Base, Body
  <1>1. /\ Older(s.hiddenFor) \in Never..MaxDelay /\ Shorter(s.timer) \in Never..MaxDelay
        /\ s.hiddenFor # Never => Older(s.hiddenFor) >= s.hiddenFor
        /\ s.hiddenFor = Never <=> Older(s.hiddenFor) = Never
        /\ s.timer = Never <=> Shorter(s.timer) = Never
    BY <1>0, Bounds DEF Window, Older, Shorter
  <1>2. t \in Window
    BY <1>0, <1>1 DEF Window
  <1>3. /\ t.inflight = s.inflight /\ t.key = s.key
        /\ t.native = s.native /\ t.life = s.life /\ t.epoch = s.epoch
        /\ (Usable(t) <=> Usable(s)) /\ (t.exported <=> s.exported)
        /\ t.hiddenFor = Older(s.hiddenFor)
    BY <1>0 DEF Window
  <1>4. Body(t)
    BY <1>0, <1>2 DEF WinOK, Base, Body, Window
  <1>5. Wishes(t)
    BY <1>0, <1>1 DEF WinOK, Base, Wishes, Window
  <1>6. TimerOK(t)
    <2>1. s.policy.mode = "delayed" => s.policy.delay \in 0..MaxDelay
      BY <1>0, WindowsAssumption DEF WindowsAssumption, Window, Unborn
    <2>2. t.timer = Shorter(s.timer) /\ t.policy = s.policy
      BY <1>0 DEF Window
    <2>3. s.timer # Never => /\ Shorter(s.timer) + Older(s.hiddenFor) >= s.policy.delay
                             /\ Shorter(s.timer) > 0
                                  => Shorter(s.timer) + Older(s.hiddenFor) = s.policy.delay
      BY <1>0, <2>1, Bounds DEF WinOK, TimerOK, Window, Older, Shorter
    <2> HIDE DEF t
    <2> QED BY <1>1, <1>3, <2>2, <2>3 DEF WinOK, TimerOK
  <1>7. PageOK(t)
    BY <1>0 DEF WinOK, PageOK, Window
  <1> HIDE DEF t
  <1> QED BY <1>1, <1>3, <1>4, <1>5, <1>6, <1>7 DEF WinOK, Base, t

-----------------------------------------------------------------------------
(* The windows together.  A call in progress belongs to one window and to its
   current native one, and the answers are counted by where a call stands. *)
WInv ==
  /\ win \in [Windows -> Window] /\ \A w \in Windows : WinOK(win[w])
  /\ \A w \in Windows : \A v \in Windows \ {w} :
       win[w].key = win[v].key => win[w].key = NoKey
  /\ mainTaken \in BOOLEAN
  /\ call \in [Calls -> Called \cup {NotCalled}]
  /\ \A w \in Windows : \A c \in win[w].inflight :
       /\ call[c].phase = "running" /\ call[c].window = w
       /\ call[c].native = win[w].native
  /\ answers \in [Calls -> Nat] /\ AnsweredOnce

(* Every call in the channel is queued, from where its event says, and no two
   events carry the same call. *)
CInv ==
  /\ channel \in Seq(Event) /\ Len(channel) <= Capacity
  /\ \A i \in 1..Len(channel) : channel[i].kind = "call" =>
       call[channel[i].call] = [phase |-> "queued", window |-> channel[i].window,
                                native |-> channel[i].native]
  /\ \A i, j \in 1..Len(channel) :
       channel[i].kind = "call" /\ channel[j].kind = "call"
         /\ channel[i].call = channel[j].call => i = j

GInv == WInv /\ CInv

(* What no step does to a window. *)
Moves(s, t) ==
  /\ s.life = "destroyed" => t.life = "destroyed" /\ t.epoch = s.epoch
  /\ s.exported /\ Usable(s) => t.native = s.native /\ Usable(t)
  /\ s.hiddenFor # Never /\ t.hiddenFor # Never => t.hiddenFor >= s.hiddenFor

AllMove == \A w \in Windows : Moves(win[w], win'[w])

LEMMA MovesSame == ASSUME NEW s, WinOK(s) PROVE Moves(s, s)
  BY Bounds DEF WinOK, Base, Body, Window, Moves

LEMMA CalmMoves == ASSUME NEW s, NEW t, WinOK(s), Calm(s, t) PROVE Moves(s, t)
  BY Bounds DEF WinOK, Base, Body, Window, Calm, Tame, Moves

LEMMA StillInv == ASSUME GInv, UNCHANGED vars PROVE GInv' /\ AllMove
  <1>1. AllMove
    BY MovesSame DEF GInv, WInv, AllMove, vars
  <1>2. WInv'
    BY DEF GInv, WInv, AnsweredOnce, vars
  <1>3. CInv'
    BY DEF GInv, CInv, vars
  <1> QED BY <1>1, <1>2, <1>3 DEF GInv

(* A step of one window, which may reject the calls of its page. *)
LEMMA WindowStep ==
  ASSUME WInv, NEW w \in Windows, NEW t, WinOK(t), Moves(win[w], t),
         t.inflight = {} \/ (t.inflight = win[w].inflight /\ t.native = win[w].native),
         \A v \in Windows \ {w} : t.key = win[v].key => t.key = NoKey,
         Becomes(w, t), mainTaken' \in BOOLEAN, call' = call
  PROVE  WInv' /\ AllMove
  <1>1. win' = [win EXCEPT ![w] = t] /\ t \in Window
    BY DEF Becomes, WinOK, Base, Body
  <1>2. win'[w] = t /\ \A v \in Windows \ {w} : win'[v] = win[v]
    BY <1>1 DEF WInv
  <1>3. win' \in [Windows -> Window] /\ \A v \in Windows : WinOK(win'[v])
    BY <1>1, <1>2 DEF WInv
  <1>4. \A u \in Windows : \A v \in Windows \ {u} :
          win'[u].key = win'[v].key => win'[u].key = NoKey
    BY <1>2 DEF WInv
  <1>5. \A v \in Windows : \A c \in win'[v].inflight :
          /\ call'[c].phase = "running" /\ call'[c].window = v
          /\ call'[c].native = win'[v].native
    BY <1>2 DEF WInv
  <1>6. win[w].inflight \subseteq Calls
    BY DEF WInv, Window
  <1>7. /\ answers' \in [Calls -> Nat]
        /\ \A c \in Calls : answers'[c] = IF c \in win[w].inflight \ t.inflight
                                         THEN answers[c] + 1 ELSE answers[c]
    BY DEF WInv, Becomes, Rejected
  <1>8. AnsweredOnce'
    <2> SUFFICES ASSUME NEW c \in Calls
                 PROVE  answers'[c] =
                          IF \/ call'[c].phase \in {"none", "queued"}
                             \/ \E v \in Windows : c \in win'[v].inflight
                          THEN 0 ELSE 1
      BY DEF AnsweredOnce
    <2>1. answers[c] = IF \/ call[c].phase \in {"none", "queued"}
                          \/ \E v \in Windows : c \in win[v].inflight
                       THEN 0 ELSE 1
      BY DEF WInv, AnsweredOnce
    <2>2. CASE c \in win[w].inflight \ t.inflight
      <3>1. answers[c] = 0 /\ answers'[c] = 1
        BY <1>7, <2>1, <2>2
      <3>2. call'[c].phase = "running" /\ call[c].window = w
        BY <2>2 DEF WInv
      <3>3. \A v \in Windows : c \notin win'[v].inflight
        BY <1>2, <1>5, <2>2, <3>2
      <3> QED BY <3>1, <3>2, <3>3
    <2>3. CASE c \notin win[w].inflight \ t.inflight
      <3>1. \A v \in Windows : c \in win'[v].inflight <=> c \in win[v].inflight
        BY <1>2, <2>3
      <3> QED BY <1>7, <2>1, <2>3, <3>1
    <2> QED BY <2>2, <2>3
  <1>9. AllMove
    BY <1>2, MovesSame DEF AllMove, WInv
  <1> QED BY <1>3, <1>4, <1>5, <1>7, <1>8, <1>9 DEF WInv

(* The same for a window that keeps its key or gives it up. *)
LEMMA TameStep ==
  ASSUME WInv, NEW w \in Windows, NEW t, WinOK(t), Tame(win[w], t), Moves(win[w], t),
         Becomes(w, t), mainTaken' = mainTaken, call' = call
  PROVE  WInv' /\ AllMove
  <1>1. \A v \in Windows \ {w} : t.key = win[v].key => t.key = NoKey
    BY DEF WInv, Tame
  <1>2. t.inflight = {} \/ (t.inflight = win[w].inflight /\ t.native = win[w].native)
    BY DEF Tame
  <1>3. mainTaken' \in BOOLEAN
    BY DEF WInv
  <1> QED BY <1>1, <1>2, <1>3, WindowStep

LEMMA CalmStep ==
  ASSUME WInv, NEW w \in Windows, NEW t, Known(t), Calm(win[w], t),
         Becomes(w, t), mainTaken' = mainTaken, call' = call
  PROVE  WInv' /\ AllMove
  <1>1. Moves(win[w], t) /\ Tame(win[w], t) /\ WinOK(t)
    BY CalmMoves DEF WInv, Known, Calm
  <1> QED BY <1>1, TameStep

-----------------------------------------------------------------------------
(* One lemma per action. *)
LEMMA InitOK == Init => GInv
  <1> SUFFICES ASSUME Init PROVE GInv
    OBVIOUS
  <1>1. Unborn \in Window
    BY Bounds DEF Unborn, Window
  <1>2. WinOK(Unborn)
    BY <1>1 DEF WinOK, Base, Body, Wishes, TimerOK, PageOK, Unborn
  <1>3. Unborn.inflight = {} /\ Unborn.key = NoKey
    BY DEF Unborn
  <1>4. WInv
    <2>1. AnsweredOnce
      BY <1>3 DEF Init, AnsweredOnce, NotCalled
    <2> QED BY <1>1, <1>2, <1>3, <2>1 DEF Init, WInv
  <1>5. CInv
    BY WindowsAssumption DEF WindowsAssumption, Init, CInv
  <1> QED BY <1>4, <1>5 DEF GInv

LEMMA KnownWindow ==
  ASSUME WInv, NEW w \in Windows
  PROVE  /\ WinOK(win[w]) /\ win[w] \in Window
         /\ win[w].life # "unborn" => Known(win[w])
         /\ Usable(win[w]) => Known(win[w])
  BY DEF WInv, Known

LEMMA ConstructStep ==
  ASSUME WInv, NEW w \in Windows, Construct(w)
  PROVE  WInv' /\ AllMove /\ UNCHANGED <<channel, call>>
  <1>1. PICK asked \in Keys \cup {NoKey}, ordinary \in BOOLEAN, protected \in BOOLEAN,
             p \in Policies :
          LET k == IF ordinary /\ asked = NoKey /\ ~mainTaken THEN MainKey ELSE asked IN
            /\ KeyFree(k)
            /\ mainTaken' = (mainTaken \/ ordinary)
            /\ Becomes(w, CreateNative([Unborn EXCEPT
                 !.life = "alive", !.wantVisible = TRUE, !.policy = p,
                 !.protected = protected, !.key = k]))
    BY DEF Construct
  <1> DEFINE k == IF ordinary /\ asked = NoKey /\ ~mainTaken THEN MainKey ELSE asked
             b == [Unborn EXCEPT !.life = "alive", !.wantVisible = TRUE, !.policy = p,
                     !.protected = protected, !.key = k]
             t == CreateNative(b)
  <1>2. k \in Keys \cup {NoKey} /\ KeyFree(k)
    BY <1>1, WindowsAssumption DEF WindowsAssumption
  <1>3. win[w].life = "unborn" /\ win[w].epoch < MaxNatives /\ win[w].epoch \in Nat
    BY Bounds DEF Construct, Room, WInv, Window
  <1> HIDE DEF k
  <1>4. Vacant(b)
    <2>1. b \in Window
      BY <1>2, Bounds DEF Unborn, Window
    <2>2. 0 < MaxNatives
      BY <1>3, Bounds
    <2> QED BY <2>1, <2>2 DEF Unborn, Vacant
  <1>5. t.key = k /\ t.inflight = {} /\ t.hiddenFor = Never
    BY DEF Unborn, CreateNative
  <1>6. WinOK(t)
    BY <1>4, CreateOK DEF Known
  <1> HIDE DEF t
  <1>7. Moves(win[w], t)
    BY <1>3, <1>5, KnownWindow DEF WinOK, Base, Body, Moves
  <1>8. \A v \in Windows \ {w} : t.key = win[v].key => t.key = NoKey
    BY <1>2, <1>5 DEF KeyFree, StateKeys
  <1>9. mainTaken' \in BOOLEAN /\ Becomes(w, t) /\ UNCHANGED <<channel, call>>
    BY <1>1 DEF WInv, Construct, t, b, k
  <1> QED BY <1>5, <1>6, <1>7, <1>8, <1>9, WindowStep

LEMMA CloseWindowStep ==
  ASSUME WInv, NEW w \in Windows, CloseWindow(w), win[w].life # "unborn",
         mainTaken' = mainTaken, call' = call
  PROVE  WInv' /\ AllMove
  <1> DEFINE s == win[w]
  <1>1. PICK gone \in BOOLEAN, prevented \in BOOLEAN, behavior \in {"hide", "destroy"} :
          \E handled \in {s, Hide(s, gone), Release(s, TRUE, gone)} :
            Becomes(w, Close(s, handled, prevented, behavior, gone))
    BY DEF CloseWindow
  <1>2. PICK handled \in {s, Hide(s, gone), Release(s, TRUE, gone)} :
          Becomes(w, Close(s, handled, prevented, behavior, gone))
    BY <1>1
  <1>3. Known(s) /\ PageOK(s) /\ Base(s)
    BY KnownWindow DEF Known, WinOK
  <1>4. Known(handled) /\ Calm(s, handled)
    <2>1. Known(Hide(s, gone)) /\ Calm(s, Hide(s, gone))
      BY <1>3, HideOK, HideCalm
    <2>2. Known(Release(s, TRUE, gone)) /\ Calm(s, Release(s, TRUE, gone))
      BY <1>3, ReleaseOK, ReleaseCalm
    <2> QED BY <1>2, <1>3, <2>1, <2>2, CalmSame
  <1> DEFINE t == Close(s, handled, prevented, behavior, gone)
  <1>5. Known(t) /\ Calm(s, t)
    BY <1>3, <1>4, CloseOK, CloseCalm
  <1> HIDE DEF t
  <1>6. Becomes(w, t)
    BY <1>2 DEF t
  <1> QED BY <1>5, <1>6, CalmStep

LEMMA AppCallStep ==
  ASSUME WInv, NEW w \in Windows, AppCall(w)
  PROVE  WInv' /\ AllMove /\ UNCHANGED <<channel, call>>
  <1> DEFINE s == win[w]
  <1>0. /\ Known(s) /\ PageOK(s) /\ Base(s) /\ s \in Window
        /\ mainTaken' = mainTaken /\ UNCHANGED <<channel, call>>
    BY KnownWindow DEF AppCall, Known, WinOK
  <1>1. CASE CloseWindow(w)
    BY <1>0, <1>1, CloseWindowStep DEF Known
  <1>2. CASE (Room(w) \/ Usable(s) \/ s.life = "destroyed") /\ Becomes(w, Show(s))
    <2> DEFINE t == Show(s)
    <2>1. Known(t) /\ Tame(s, t)
      BY <1>0, <1>2, ShowOK, ShowTame DEF Room
    <2>2. Moves(s, t)
      <3>1. s.life # "destroyed" => t.hiddenFor = Never
        BY <1>0 DEF Show, CancelTimer, CreateNative, Window
      <3>2. s.life = "destroyed" => t = s
        BY DEF Show
      <3> HIDE DEF t
      <3> QED BY <1>0, <2>1, <3>1, <3>2, MovesSame DEF Known, Tame, Moves
    <2> HIDE DEF t
    <2>3. Becomes(w, t)
      BY <1>2 DEF t
    <2> QED BY <1>0, <2>1, <2>2, <2>3, TameStep DEF Known
  <1>3. ASSUME NEW gone \in BOOLEAN, Becomes(w, Hide(s, gone)) PROVE WInv' /\ AllMove
    BY <1>0, <1>3, HideOK, HideCalm, CalmStep
  <1>4. ASSUME NEW gone \in BOOLEAN, Becomes(w, Release(s, TRUE, gone))
        PROVE  WInv' /\ AllMove
    <2>1. Known(Release(s, TRUE, gone)) /\ Calm(s, Release(s, TRUE, gone))
      BY <1>0, ReleaseOK, ReleaseCalm DEF Known
    <2> QED BY <1>0, <1>4, <2>1, CalmStep
  <1>5. ASSUME NEW gone \in BOOLEAN, NEW p \in Policies,
               Becomes(w, ScheduleRelease([s EXCEPT !.policy = p], gone))
        PROVE  WInv' /\ AllMove
    <2> DEFINE a == [s EXCEPT !.policy = p]
    <2>1. Base(a) /\ PageOK(a) /\ a.life # "unborn" /\ Calm(s, a)
      <3>1. a \in Window
        BY <1>0 DEF Window
      <3>2. Body(a)
        BY <1>0, <3>1 DEF Base, Body, Window
      <3>3. Wishes(a)
        BY <1>0 DEF Base, Wishes, Window
      <3>4. PageOK(a) /\ a.life # "unborn" /\ Calm(s, a)
        BY <1>0 DEF Known, PageOK, Window, Calm, Tame
      <3> QED BY <3>2, <3>3, <3>4 DEF Base
    <2> HIDE DEF a
    <2> DEFINE t == ScheduleRelease(a, gone)
    <2>2. Known(t)
      BY <2>1, ScheduleReleaseOK
    <2>3. Calm(s, t)
      BY <2>1, ScheduleReleaseCalm, CalmTwice
    <2> HIDE DEF t
    <2>4. Becomes(w, t)
      BY <1>5 DEF t, a
    <2> QED BY <1>0, <2>2, <2>3, <2>4, CalmStep
  <1>6. ASSUME NEW gone \in BOOLEAN, NEW u \in Urls, Alive(w), Room(w) \/ ~s.protected,
               Becomes(w, Navigate(s, u, gone))
        PROVE  WInv' /\ AllMove
    <2>1. Known(Navigate(s, u, gone)) /\ Calm(s, Navigate(s, u, gone))
      BY <1>0, <1>6, NavigateOK, NavigateCalm DEF Alive, Room
    <2> QED BY <1>0, <1>6, <2>1, CalmStep
  <1> QED BY <1>0, <1>1, <1>2, <1>3, <1>4, <1>5, <1>6 DEF AppCall

LEMMA NamesStep ==
  ASSUME WInv, NEW w \in Windows, NEW n \in Names, Bind(w, n) \/ Unbind(w, n)
  PROVE  WInv' /\ AllMove /\ UNCHANGED <<channel, call>>
  <1> DEFINE s == win[w]
  <1>0. /\ Known(s) /\ s \in Window
        /\ mainTaken' = mainTaken /\ UNCHANGED <<channel, call>>
    BY KnownWindow DEF Bind, Unbind
  <1>1. PICK b \in SUBSET Names, i \in SUBSET Names :
          /\ Usable(s) => i = b
          /\ Becomes(w, [s EXCEPT !.bound = b, !.installed = i])
    <2>0. s.bound \in SUBSET Names /\ s.installed \in SUBSET Names
          /\ (Usable(s) => s.installed = s.bound)
      BY <1>0 DEF Known, WinOK, Base, Wishes, Window
    <2>1. CASE Bind(w, n)
      <3> DEFINE b == s.bound \cup {n}
                 i == IF Usable(s) THEN s.installed \cup {n} ELSE s.installed
      <3>1. b \in SUBSET Names /\ i \in SUBSET Names /\ (Usable(s) => i = b)
        BY <2>0
      <3>2. Becomes(w, [s EXCEPT !.bound = b, !.installed = i])
        BY <2>1 DEF Bind
      <3> QED BY <3>1, <3>2
    <2>2. CASE Unbind(w, n)
      <3> DEFINE b == s.bound \ {n}
                 i == IF Usable(s) THEN s.installed \ {n} ELSE s.installed
      <3>1. b \in SUBSET Names /\ i \in SUBSET Names /\ (Usable(s) => i = b)
        BY <2>0
      <3>2. Becomes(w, [s EXCEPT !.bound = b, !.installed = i])
        BY <2>2 DEF Unbind
      <3> QED BY <3>1, <3>2
    <2> QED BY <2>1, <2>2
  <1> DEFINE t == [s EXCEPT !.bound = b, !.installed = i]
  <1>2. Known(t) /\ Calm(s, t)
    BY <1>0, <1>1, NamesOK
  <1>3. Becomes(w, t)
    BY <1>1
  <1> HIDE DEF t
  <1> QED BY <1>0, <1>2, <1>3, CalmStep

LEMMA PageStep ==
  ASSUME WInv, NEW w \in Windows, ExecuteJs(w) \/ Export(w)
  PROVE  WInv' /\ AllMove /\ UNCHANGED <<channel, call>>
  <1> DEFINE s == win[w]
  <1>0. /\ Known(s) /\ Usable(s)
        /\ mainTaken' = mainTaken /\ UNCHANGED <<channel, call>>
    BY KnownWindow DEF ExecuteJs, Export
  <1>1. PICK t : Known(t) /\ Calm(s, t) /\ Becomes(w, t)
    <2>1. CASE ExecuteJs(w)
      <3>1. PICK x \in {{s.native}, {}} : Becomes(w, [s EXCEPT !.scripts = x])
        BY <2>1 DEF ExecuteJs
      <3> DEFINE u == [s EXCEPT !.scripts = x]
      <3>2. Known(u) /\ Calm(s, u)
        BY <1>0, ExecuteJsOK
      <3> HIDE DEF u
      <3> QED BY <3>1, <3>2 DEF u
    <2>2. CASE Export(w)
      <3> DEFINE u == [s EXCEPT !.exported = TRUE]
      <3>1. Known(u) /\ Calm(s, u)
        BY <1>0, ExportOK
      <3>2. Becomes(w, u)
        BY <2>2 DEF Export
      <3> HIDE DEF u
      <3> QED BY <3>1, <3>2
    <2> QED BY <2>1, <2>2
  <1> QED BY <1>0, <1>1, CalmStep

LEMMA InvalidateStep ==
  ASSUME WInv, NEW w \in Windows, InvalidateDocument(w)
  PROVE  WInv' /\ AllMove /\ UNCHANGED <<channel, call>>
  <1> DEFINE s == win[w]
             t == [s EXCEPT !.inflight = {}]
  <1>0. /\ WinOK(s) /\ s \in Window
        /\ mainTaken' = mainTaken /\ UNCHANGED <<channel, call>> /\ Becomes(w, t)
    BY KnownWindow DEF InvalidateDocument
  <1>1. WinOK(t) /\ Calm(s, t)
    BY <1>0, InflightOK DEF Window, Calm, Tame
  <1>2. Tame(s, t) /\ Moves(s, t)
    BY <1>0, <1>1, CalmMoves DEF Calm
  <1> HIDE DEF t
  <1> QED BY <1>0, <1>1, <1>2, TameStep

LEMMA CloseDoneStep ==
  ASSUME WInv, NEW w \in Windows, CloseDone(w)
  PROVE  WInv' /\ AllMove /\ UNCHANGED <<channel, call>>
  <1> DEFINE s == win[w]
             t == [s EXCEPT !.live = @ \ s.closing, !.closing = {}]
  <1>1. WinOK(s) /\ s.closing # {}
    BY KnownWindow DEF CloseDone
  <1>2. Known(t) /\ Calm(s, t) /\ t.inflight = s.inflight
    BY <1>1, CloseDoneOK
  <1>3. mainTaken' = mainTaken /\ UNCHANGED <<channel, call>> /\ answers' = answers
    BY DEF CloseDone
  <1>4. win' = [win EXCEPT ![w] = t]
    BY DEF CloseDone, WInv
  <1> HIDE DEF t
  <1>5. Becomes(w, t)
    <2>1. answers = [c \in Calls |-> IF c \in Rejected(w, t) THEN answers[c] + 1
                                                           ELSE answers[c]]
      BY <1>2 DEF WInv, Rejected
    <2> QED BY <1>3, <1>4, <2>1 DEF Becomes
  <1> QED BY <1>2, <1>3, <1>5, CalmStep

LEMMA PollStep ==
  ASSUME WInv, NEW w \in Windows, Poll(w)
  PROVE  WInv' /\ AllMove /\ UNCHANGED <<channel, call>>
  <1>1. /\ WinOK(win[w]) /\ win[w].releasing /\ win[w].native \notin win[w].live
        /\ Becomes(w, Complete(win[w])) /\ UNCHANGED <<mainTaken, channel, call>>
    BY KnownWindow DEF Poll
  <1>2. Known(Complete(win[w])) /\ Calm(win[w], Complete(win[w]))
    BY <1>1, PollOK
  <1> QED BY <1>1, <1>2, CalmStep

LEMMA FireStep ==
  ASSUME WInv, NEW w \in Windows, Fire(w)
  PROVE  WInv' /\ AllMove /\ UNCHANGED <<channel, call>>
  <1> DEFINE s == win[w]
  <1>1. Known(s)
    BY KnownWindow DEF Fire, WinOK, TimerOK
  <1>2. PICK gone \in BOOLEAN : Becomes(w, Release(s, FALSE, gone))
    BY DEF Fire
  <1> DEFINE t == Release(s, FALSE, gone)
  <1>3. Known(t)
    BY <1>1, ReleaseOK DEF Known, WinOK
  <1>4. Calm(s, t)
    BY <1>1, ReleaseCalm DEF Known, WinOK
  <1> HIDE DEF t
  <1>5. Becomes(w, t)
    BY <1>2 DEF t
  <1> QED BY <1>3, <1>4, <1>5, CalmStep DEF Fire

LEMMA TickStep ==
  ASSUME WInv, Tick
  PROVE  WInv' /\ AllMove /\ UNCHANGED <<channel, call>>
  <1> DEFINE T(s) == [s EXCEPT !.hiddenFor = Older(@), !.timer = Shorter(@)]
  <1>1. ASSUME NEW w \in Windows
        PROVE  /\ WinOK(T(win[w])) /\ T(win[w]).inflight = win[w].inflight
               /\ T(win[w]).key = win[w].key /\ T(win[w]).native = win[w].native
               /\ Moves(win[w], T(win[w]))
    <2> DEFINE s == win[w]
               t == T(s)
    <2>1. /\ WinOK(t) /\ t.inflight = s.inflight /\ t.key = s.key
          /\ t.native = s.native /\ t.life = s.life /\ t.epoch = s.epoch
          /\ (Usable(t) <=> Usable(s)) /\ (t.exported <=> s.exported)
          /\ s.hiddenFor # Never => t.hiddenFor >= s.hiddenFor
      BY KnownWindow, TickOK
    <2> HIDE DEF t
    <2> QED BY <2>1 DEF Moves, t
  <1>2. win' = [w \in Windows |-> T(win[w])]
    BY DEF Tick
  <1> HIDE DEF T
  <1>3. /\ win' \in [Windows -> Window] /\ \A w \in Windows : WinOK(win'[w])
        /\ AllMove
    BY <1>1, <1>2 DEF WinOK, Base, Body, AllMove
  <1>4. UNCHANGED <<mainTaken, channel, call, answers>>
    BY DEF Tick
  <1>5. \A w \in Windows : /\ win'[w].inflight = win[w].inflight
                          /\ win'[w].key = win[w].key /\ win'[w].native = win[w].native
    BY <1>1, <1>2
  <1>6. AnsweredOnce'
    BY <1>4, <1>5 DEF WInv, AnsweredOnce
  <1> QED BY <1>3, <1>4, <1>5, <1>6 DEF WInv

LEMMA CInvSame == ASSUME CInv, UNCHANGED <<channel, call>> PROVE CInv'
  BY DEF CInv

(* A call takes its next step.  It was in progress for at most one window, and
   is now in progress for `v', if at all. *)
LEMMA CallStep ==
  ASSUME WInv, NEW c \in Calls, NEW v \in Windows, NEW r \in Called, NEW f, NEW n \in Nat,
         \A w \in Windows \ {v} : c \notin win[w].inflight,
         f \in {win[v].inflight \cup {c}, win[v].inflight \ {c}},
         c \in f => /\ Usable(win[v]) /\ r.native = win[v].native
                    /\ r.phase = "running" /\ r.window = v,
         n = IF r.phase = "queued" \/ c \in f THEN 0 ELSE 1,
         win' = [win EXCEPT ![v].inflight = f], call' = [call EXCEPT ![c] = r],
         answers' = [answers EXCEPT ![c] = n], mainTaken' = mainTaken
  PROVE  WInv' /\ AllMove
  <1> DEFINE s == win[v]
             t == [s EXCEPT !.inflight = f]
  <1>0. WinOK(s) /\ s \in Window /\ r.phase # "none"
    BY KnownWindow DEF Called
  <1>1. f \in SUBSET Calls /\ (f # {} => Usable(s))
    BY <1>0 DEF WinOK, Base, Wishes, Window
  <1>2. /\ WinOK(t) /\ t.inflight = f /\ t.key = s.key /\ t.native = s.native
        /\ t.life = s.life /\ t.epoch = s.epoch /\ (Usable(t) <=> Usable(s))
        /\ (t.exported <=> s.exported) /\ t.hiddenFor = s.hiddenFor
    BY <1>0, <1>1, InflightOK
  <1>3. win' = [win EXCEPT ![v] = t]
    BY DEF WInv
  <1>4. Moves(s, t)
    <2>1. s.hiddenFor # Never => s.hiddenFor >= s.hiddenFor
      BY <1>0, Bounds DEF Window
    <2> HIDE DEF t
    <2> QED BY <1>2, <2>1 DEF Moves
  <1> HIDE DEF t
  <1>5. win'[v] = t /\ \A w \in Windows \ {v} : win'[w] = win[w]
    BY <1>3 DEF WInv
  <1>6. t \in Window
    BY <1>2 DEF WinOK, Base, Body
  <1>7. /\ win' \in [Windows -> Window] /\ \A w \in Windows : WinOK(win'[w])
        /\ AllMove
    BY <1>2, <1>3, <1>4, <1>5, <1>6, MovesSame DEF WInv, AllMove
  <1>8. \A w \in Windows : \A u \in Windows \ {w} :
          win'[w].key = win'[u].key => win'[w].key = NoKey
    BY <1>2, <1>5 DEF WInv
  <1>9. /\ call' \in [Calls -> Called \cup {NotCalled}]
        /\ call'[c] = r /\ \A d \in Calls \ {c} : call'[d] = call[d]
        /\ answers' \in [Calls -> Nat]
        /\ answers'[c] = n /\ \A d \in Calls \ {c} : answers'[d] = answers[d]
    BY DEF WInv
  <1>10. \A w \in Windows : \A d \in win'[w].inflight :
           /\ call'[d].phase = "running" /\ call'[d].window = w
           /\ call'[d].native = win'[w].native
    <2> SUFFICES ASSUME NEW w \in Windows, NEW d \in win'[w].inflight
                 PROVE  /\ call'[d].phase = "running" /\ call'[d].window = w
                        /\ call'[d].native = win'[w].native
      OBVIOUS
    <2>1. d \in Calls
      BY <1>7 DEF Window
    <2>2. CASE d = c
      BY <1>2, <1>5, <1>9, <2>2
    <2>3. CASE d # c
      <3>1. d \in win[w].inflight /\ win'[w].native = win[w].native
        BY <1>2, <1>5, <2>3
      <3> QED BY <1>9, <2>1, <2>3, <3>1 DEF WInv
    <2> QED BY <2>2, <2>3
  <1>11. AnsweredOnce'
    <2> SUFFICES ASSUME NEW d \in Calls
                 PROVE  answers'[d] =
                          IF \/ call'[d].phase \in {"none", "queued"}
                             \/ \E w \in Windows : d \in win'[w].inflight
                          THEN 0 ELSE 1
      BY DEF AnsweredOnce
    <2>1. CASE d = c
      <3>1. (\E w \in Windows : c \in win'[w].inflight) <=> c \in f
        BY <1>2, <1>5
      <3> QED BY <1>0, <1>9, <2>1, <3>1
    <2>2. CASE d # c
      <3>1. \A w \in Windows : d \in win'[w].inflight <=> d \in win[w].inflight
        BY <1>2, <1>5, <2>2
      <3>2. answers[d] = IF \/ call[d].phase \in {"none", "queued"}
                            \/ \E w \in Windows : d \in win[w].inflight
                         THEN 0 ELSE 1
        BY DEF WInv, AnsweredOnce
      <3> QED BY <1>9, <2>2, <3>1, <3>2
    <2> QED BY <2>1, <2>2
  <1> QED BY <1>7, <1>8, <1>9, <1>10, <1>11 DEF WInv

LEMMA SettleStep ==
  ASSUME GInv, NEW c \in Calls, Settle(c)
  PROVE  GInv' /\ AllMove
  <1> DEFINE v == call[c].window
             r == [phase |-> "returned", window |-> v, native |-> call[c].native]
             f == win[v].inflight \ {c}
             n == IF c \in win[v].inflight THEN answers[c] + 1 ELSE answers[c]
  <1>0. WInv /\ CInv
    BY DEF GInv
  <1>1. call[c] \in Called /\ call[c].phase = "running"
    BY <1>0 DEF WInv, Settle, NotCalled
  <1>2. v \in Windows /\ r \in Called /\ r.phase = "returned"
    BY <1>1 DEF Called
  <1>3. \A w \in Windows \ {v} : c \notin win[w].inflight
    BY <1>0 DEF WInv
  <1>4. n = 1 /\ n \in Nat
    <2>1. answers[c] = IF c \in win[v].inflight THEN 0 ELSE 1
      BY <1>0, <1>1, <1>2, <1>3 DEF WInv, AnsweredOnce
    <2> QED BY <2>1
  <1>5. /\ win' = [win EXCEPT ![v].inflight = f] /\ mainTaken' = mainTaken
        /\ answers' = [answers EXCEPT ![c] = n]
    BY <1>0 DEF WInv, Settle, Answer
  <1>6. call' = [call EXCEPT ![c] = r]
    <2>1. [call[c] EXCEPT !.phase = "returned"] = r
      BY <1>1 DEF Called
    <2>2. call' = [call EXCEPT ![c] = [call[c] EXCEPT !.phase = "returned"]]
      BY <1>0 DEF WInv, Settle
    <2> QED BY <2>1, <2>2
  <1>7. c \notin f
    OBVIOUS
  <1>8. WInv' /\ AllMove
    <2> HIDE DEF v, r, n
    <2> QED BY <1>0, <1>2, <1>3, <1>4, <1>5, <1>6, <1>7, CallStep
  <1>9. CInv'
    <2>1. channel' = channel /\ \A d \in Calls \ {c} : call'[d] = call[d]
      BY <1>0, <1>6 DEF Settle, WInv
    <2>2. \A i \in 1..Len(channel) : channel[i].kind = "call" =>
            channel[i].call \in Calls \ {c}
      <3> SUFFICES ASSUME NEW i \in 1..Len(channel), channel[i].kind = "call"
                   PROVE  channel[i].call \in Calls \ {c}
        OBVIOUS
      <3>1. channel[i] \in Event
        BY <1>0 DEF CInv
      <3>2. channel[i].call \in Calls
        BY <3>1 DEF Event
      <3>3. call[channel[i].call] = [phase |-> "queued", window |-> channel[i].window,
                                     native |-> channel[i].native]
        BY <1>0 DEF CInv
      <3>4. call[channel[i].call].phase = "queued"
        BY <3>3
      <3> QED BY <1>1, <3>2, <3>4
    <2> QED BY <1>0, <2>1, <2>2 DEF CInv
  <1> QED BY <1>8, <1>9 DEF GInv

(* What the channel says of its event i, when it is a call. *)
LEMMA QueuedCall ==
  ASSUME GInv, NEW i \in 1..Len(channel), channel[i].kind = "call"
  PROVE  LET c == channel[i].call IN
           /\ c \in Calls /\ channel[i].window \in Windows /\ channel[i].native \in Natives
           /\ call[c] \in Called /\ call[c].phase = "queued"
           /\ call[c].window = channel[i].window /\ call[c].native = channel[i].native
           /\ answers[c] = 0 /\ \A w \in Windows : c \notin win[w].inflight
  <1> DEFINE c == channel[i].call
  <1>1. channel[i] \in Event
    BY DEF GInv, CInv
  <1>2. c \in Calls /\ channel[i].window \in Windows /\ channel[i].native \in Natives
    BY <1>1 DEF Event
  <1>3. call[c] = [phase |-> "queued", window |-> channel[i].window,
                   native |-> channel[i].native]
    BY DEF GInv, CInv
  <1>4. /\ call[c] \in Called /\ call[c].phase = "queued"
        /\ call[c].window = channel[i].window /\ call[c].native = channel[i].native
    BY <1>2, <1>3 DEF Called
  <1>5. answers[c] = 0
    BY <1>2, <1>4 DEF GInv, WInv, AnsweredOnce
  <1>6. \A w \in Windows : c \notin win[w].inflight
    BY <1>4 DEF GInv, WInv
  <1> QED BY <1>2, <1>4, <1>5, <1>6

(* The channel without its first event, whose call may have moved on. *)
LEMMA TailInv ==
  ASSUME GInv, channel # <<>>, channel' = Tail(channel),
         \A d \in Calls : \/ call'[d] = call[d]
                          \/ Head(channel).kind = "call" /\ d = Head(channel).call
  PROVE  CInv'
  <1>1. /\ channel \in Seq(Event) /\ Len(channel) \in Nat \ {0}
        /\ Len(channel) <= Capacity /\ Capacity \in Nat
    BY WindowsAssumption DEF WindowsAssumption, GInv, CInv
  <1>2. /\ channel' \in Seq(Event) /\ Len(channel') = Len(channel) - 1
        /\ Head(channel) = channel[1]
        /\ \A i \in 1..Len(channel') : channel'[i] = channel[i + 1]
    BY <1>1
  <1>3. ASSUME NEW i \in 1..Len(channel'), channel'[i].kind = "call"
        PROVE  call'[channel'[i].call] =
                 [phase |-> "queued", window |-> channel'[i].window,
                  native |-> channel'[i].native]
    <2>1. i + 1 \in 1..Len(channel) /\ channel'[i] = channel[i + 1] /\ i + 1 # 1
          /\ 1 \in 1..Len(channel)
      BY <1>1, <1>2
    <2>2. channel[i + 1].call \in Calls
      BY <1>3, <2>1, QueuedCall
    <2>3. ~(channel[1].kind = "call" /\ channel[1].call = channel[i + 1].call)
      BY <1>3, <2>1 DEF GInv, CInv
    <2>4. call'[channel[i + 1].call] = call[channel[i + 1].call]
      BY <1>2, <2>2, <2>3
    <2> QED BY <1>3, <2>1, <2>4 DEF GInv, CInv
  <1>4. ASSUME NEW i \in 1..Len(channel'), NEW j \in 1..Len(channel'),
               channel'[i].kind = "call", channel'[j].kind = "call",
               channel'[i].call = channel'[j].call
        PROVE  i = j
    <2>1. i + 1 \in 1..Len(channel) /\ channel'[i] = channel[i + 1]
          /\ j + 1 \in 1..Len(channel) /\ channel'[j] = channel[j + 1]
      BY <1>1, <1>2
    <2>2. i + 1 = j + 1
      BY <1>4, <2>1 DEF GInv, CInv
    <2> QED BY <2>2
  <1> QED BY <1>1, <1>2, <1>3, <1>4 DEF CInv

LEMMA DispatchStep ==
  ASSUME GInv, Dispatch
  PROVE  GInv' /\ AllMove
  <1> DEFINE ev == Head(channel)
  <1>0. WInv /\ CInv
    BY DEF GInv
  <1>1. /\ channel # <<>> /\ channel' = Tail(channel) /\ mainTaken' = mainTaken
        /\ ev = channel[1] /\ 1 \in 1..Len(channel) /\ ev \in Event
    BY <1>0 DEF Dispatch, CInv
  <1>2. CASE DispatchClose(ev)
    <2>1. ev.window \in Windows /\ ev.native \in Natives /\ call' = call
      BY <1>1, <1>2 DEF DispatchClose, Event
    <2>2. CInv'
      BY <1>1, <2>1, TailInv
    <2>3. WInv' /\ AllMove
      <3>1. CASE Routed(ev)
        <4>1. win[ev.window].life # "unborn"
          <5>1. Usable(win[ev.window])
            BY <2>1, <3>1, KnownWindow, <1>0 DEF Routed, WinOK, Base, Body
          <5> QED BY <5>1
        <4>2. CloseWindow(ev.window)
          BY <1>2, <3>1 DEF DispatchClose
        <4> QED BY <1>0, <1>1, <2>1, <4>1, <4>2, CloseWindowStep
      <3>2. CASE ~Routed(ev)
        <4>1. UNCHANGED <<win, answers>>
          BY <1>2, <3>2 DEF DispatchClose
        <4>2. AllMove
          BY <1>0, <4>1, MovesSame DEF WInv, AllMove
        <4>3. AnsweredOnce'
          BY <1>0, <2>1, <4>1 DEF WInv, AnsweredOnce
        <4> QED BY <1>0, <1>1, <2>1, <4>1, <4>2, <4>3 DEF WInv
      <3> QED BY <3>1, <3>2
    <2> QED BY <2>2, <2>3 DEF GInv
  <1>3. CASE DispatchCall(ev)
    <2> DEFINE c == ev.call
               v == ev.window
               accepted == Routed(ev) /\ ev.name \in win[v].bound
               r(phase) == [phase |-> phase, window |-> v, native |-> ev.native]
    <2>1. /\ ev.kind = "call" /\ c \in Calls /\ v \in Windows /\ ev.native \in Natives
          /\ call[c] \in Called /\ call[c].phase = "queued"
          /\ call[c].window = v /\ call[c].native = ev.native
          /\ answers[c] = 0 /\ \A w \in Windows : c \notin win[w].inflight
      BY <1>1, <1>3, QueuedCall DEF DispatchCall
    <2>2. /\ [call[c] EXCEPT !.phase = "running"] = r("running")
          /\ [call[c] EXCEPT !.phase = "returned"] = r("returned")
      BY <2>1 DEF Called
    <2>3. r("running") \in Called /\ r("returned") \in Called
      BY <2>1 DEF Called
    <2>4. CASE /\ accepted
               /\ win' = [win EXCEPT ![v].inflight = @ \cup {c}]
               /\ call' = [call EXCEPT ![c].phase = "running"]
               /\ UNCHANGED answers
      <3> DEFINE f == win[v].inflight \cup {c}
                 q == r("running")
      <3>1. win' = [win EXCEPT ![v].inflight = f] /\ call' = [call EXCEPT ![c] = q]
            /\ answers' = [answers EXCEPT ![c] = 0]
        <4>1. call' = [call EXCEPT ![c] = [call[c] EXCEPT !.phase = "running"]]
          BY <1>0, <2>4 DEF WInv
        <4>2. call' = [call EXCEPT ![c] = q]
          BY <2>2, <4>1
        <4> QED BY <1>0, <2>1, <2>4, <4>2 DEF WInv
      <3>2. Usable(win[v]) /\ ev.native = win[v].native
        BY <1>0, <2>1, <2>4, KnownWindow DEF Routed, WinOK, Base, Body
      <3>3. q.phase = "running" /\ q.window = v /\ q.native = ev.native
        OBVIOUS
      <3>4. q \in Called /\ c \in f /\ 0 \in Nat
        BY <2>3
      <3> HIDE DEF q
      <3>5. WInv' /\ AllMove
        <4> HIDE DEF c, v
        <4> QED BY <1>0, <1>1, <2>1, <3>1, <3>2, <3>3, <3>4, CallStep
      <3>6. CInv'
        BY <1>0, <1>1, <2>1, <3>1, TailInv DEF WInv
      <3> QED BY <3>5, <3>6 DEF GInv
    <2>5. CASE /\ answers' = [answers EXCEPT ![c] = @ + 1]
               /\ call' = [call EXCEPT ![c].phase = "returned"]
               /\ UNCHANGED win
      <3> DEFINE f == win[v].inflight \ {c}
                 q == r("returned")
      <3>1. call' = [call EXCEPT ![c] = q] /\ answers' = [answers EXCEPT ![c] = 1]
        <4>1. call' = [call EXCEPT ![c] = [call[c] EXCEPT !.phase = "returned"]]
          BY <1>0, <2>5 DEF WInv
        <4>2. call' = [call EXCEPT ![c] = q]
          BY <2>2, <4>1
        <4>3. answers' = [answers EXCEPT ![c] = 1]
          BY <1>0, <2>1, <2>5 DEF WInv
        <4> QED BY <4>2, <4>3
      <3>2. win' = [win EXCEPT ![v].inflight = f]
        <4>1. f = win[v].inflight
          BY <2>1
        <4>2. win[v] \in Window /\ win \in [Windows -> Window]
          BY <1>0, <2>1 DEF WInv
        <4>3. [win[v] EXCEPT !.inflight = win[v].inflight] = win[v]
          BY <4>2 DEF Window
        <4> QED BY <2>1, <2>5, <4>1, <4>2, <4>3
      <3>3. q.phase = "returned" /\ q \in Called /\ c \notin f /\ 1 \in Nat
        BY <2>3
      <3> HIDE DEF q
      <3>4. WInv' /\ AllMove
        <4> HIDE DEF c, v
        <4> QED BY <1>0, <1>1, <2>1, <3>1, <3>2, <3>3, CallStep
      <3>5. CInv'
        BY <1>0, <1>1, <2>1, <3>1, TailInv DEF WInv
      <3> QED BY <3>4, <3>5 DEF GInv
    <2> QED BY <1>3, <2>4, <2>5 DEF DispatchCall
  <1> QED BY <1>2, <1>3 DEF Dispatch

(* One more event: what is in the channel keeps its place. *)
LEMMA Appended ==
  ASSUME CInv, NEW ev \in Event, Len(channel) < Capacity, channel' = Append(channel, ev)
  PROVE  /\ channel' \in Seq(Event) /\ Len(channel') <= Capacity
         /\ \A i \in 1..Len(channel') :
              \/ i \in 1..Len(channel) /\ channel'[i] = channel[i]
              \/ i = Len(channel) + 1 /\ channel'[i] = ev
  BY WindowsAssumption DEF WindowsAssumption, CInv

LEMMA RequestCloseStep ==
  ASSUME GInv, NEW w \in Windows, NEW e \in win[w].live, RequestClose(w, e)
  PROVE  GInv' /\ AllMove
  <1> DEFINE ev == [kind |-> "close", window |-> w, native |-> e]
  <1>0. WInv /\ CInv /\ UNCHANGED <<win, mainTaken, call, answers>>
    BY DEF GInv, RequestClose
  <1>1. ev \in Event /\ ev.kind = "close"
    <2>1. e \in Natives
      BY <1>0 DEF WInv, Window
    <2> QED BY <2>1 DEF Event
  <1>2. Len(channel) < Capacity /\ channel' = Append(channel, ev)
    BY DEF RequestClose
  <1> HIDE DEF ev
  <1>3. /\ channel' \in Seq(Event) /\ Len(channel') <= Capacity
        /\ \A i \in 1..Len(channel') :
             \/ i \in 1..Len(channel) /\ channel'[i] = channel[i]
             \/ i = Len(channel) + 1 /\ channel'[i] = ev
    BY <1>0, <1>1, <1>2, Appended
  <1>4. \A i \in 1..Len(channel') : channel'[i].kind = "call" =>
          i \in 1..Len(channel) /\ channel'[i] = channel[i]
    BY <1>1, <1>3
  <1>5. CInv'
    BY <1>0, <1>3, <1>4 DEF CInv
  <1>6. AllMove
    BY <1>0, MovesSame DEF WInv, AllMove
  <1>7. AnsweredOnce'
    BY <1>0 DEF WInv, AnsweredOnce
  <1> QED BY <1>0, <1>5, <1>6, <1>7 DEF GInv, WInv

LEMMA PageCallsStep ==
  ASSUME GInv, NEW w \in Windows, NEW e \in win[w].live, NEW n \in Names, NEW c \in Calls,
         PageCalls(w, e, n, c)
  PROVE  GInv' /\ AllMove
  <1> DEFINE ev == [kind |-> "call", window |-> w, native |-> e, call |-> c, name |-> n]
             r(phase) == [phase |-> phase, window |-> w, native |-> e]
             f == win[w].inflight \ {c}
  <1>0. /\ WInv /\ CInv /\ UNCHANGED <<win, mainTaken>> /\ call[c] = NotCalled
    BY DEF GInv, PageCalls
  <1>1. e \in Natives /\ ev \in Event /\ ev.kind = "call"
    <2>1. e \in Natives
      BY <1>0 DEF WInv, Window
    <2> QED BY <2>1 DEF Event
  <1>2. /\ call[c].phase = "none" /\ answers[c] = 0
        /\ \A v \in Windows : c \notin win[v].inflight
    <2>1. call[c].phase = "none"
      BY <1>0 DEF NotCalled
    <2> QED BY <1>0, <2>1 DEF WInv, AnsweredOnce
  <1>3. \A i \in 1..Len(channel) : channel[i].kind = "call" => channel[i].call # c
    BY <1>2, QueuedCall
  <1>4. win' = [win EXCEPT ![w].inflight = f]
    <2>1. f = win[w].inflight
      BY <1>2
    <2>2. win[w] \in Window /\ win \in [Windows -> Window]
      BY <1>0 DEF WInv
    <2>3. [win[w] EXCEPT !.inflight = win[w].inflight] = win[w]
      BY <2>2 DEF Window
    <2> QED BY <1>0, <2>1, <2>2, <2>3
  <1>5. CASE /\ Len(channel) < Capacity /\ channel' = Append(channel, ev)
             /\ call' = [call EXCEPT ![c] = r("queued")] /\ UNCHANGED answers
    <2> DEFINE q == r("queued")
    <2>1. /\ q \in Called /\ q.phase = "queued" /\ call' = [call EXCEPT ![c] = q]
          /\ q = [phase |-> "queued", window |-> ev.window, native |-> ev.native]
          /\ ev.call = c
      BY <1>1, <1>5 DEF Called
    <2> HIDE DEF q, ev
    <2>2. answers' = [answers EXCEPT ![c] = 0]
      BY <1>0, <1>2, <1>5 DEF WInv
    <2>3. WInv' /\ AllMove
      <3>1. /\ q \in Called /\ q.phase = "queued" /\ call' = [call EXCEPT ![c] = q]
            /\ mainTaken' = mainTaken /\ c \notin f /\ 0 \in Nat
        BY <1>0, <2>1
      <3> QED BY <1>0, <1>2, <1>4, <2>2, <3>1, CallStep
    <2>4. /\ channel' \in Seq(Event) /\ Len(channel') <= Capacity
          /\ \A i \in 1..Len(channel') :
               \/ i \in 1..Len(channel) /\ channel'[i] = channel[i]
               \/ i = Len(channel) + 1 /\ channel'[i] = ev
      BY <1>0, <1>1, <1>5, Appended
    <2>5. call'[c] = q /\ \A d \in Calls \ {c} : call'[d] = call[d]
      BY <1>0, <2>1 DEF WInv
    <2>6. \A i \in 1..Len(channel') : channel'[i].kind = "call" =>
            call'[channel'[i].call] = [phase |-> "queued", window |-> channel'[i].window,
                                       native |-> channel'[i].native]
      <3> SUFFICES ASSUME NEW i \in 1..Len(channel'), channel'[i].kind = "call"
                   PROVE  call'[channel'[i].call] =
                            [phase |-> "queued", window |-> channel'[i].window,
                             native |-> channel'[i].native]
        OBVIOUS
      <3>1. CASE i \in 1..Len(channel) /\ channel'[i] = channel[i]
        <4>1. channel[i].call \in Calls \ {c}
          BY <1>3, <3>1, QueuedCall
        <4> QED BY <1>0, <2>5, <3>1, <4>1 DEF CInv
      <3>2. CASE channel'[i] = ev
        BY <2>1, <2>5, <3>2
      <3> QED BY <2>4, <3>1, <3>2
    <2>7. \A i, j \in 1..Len(channel') :
            channel'[i].kind = "call" /\ channel'[j].kind = "call"
              /\ channel'[i].call = channel'[j].call => i = j
      BY <1>0, <1>3, <2>1, <2>4 DEF CInv
    <2>8. CInv'
      BY <2>4, <2>6, <2>7 DEF CInv
    <2> QED BY <2>3, <2>8 DEF GInv
  <1>6. CASE /\ call' = [call EXCEPT ![c] = r("returned")]
             /\ answers' = Overflow(c) /\ UNCHANGED channel
    <2> DEFINE q == r("returned")
    <2>1. /\ q \in Called /\ q.phase = "returned" /\ call' = [call EXCEPT ![c] = q]
      BY <1>1, <1>6 DEF Called
    <2> HIDE DEF q
    <2>2. answers' = [answers EXCEPT ![c] = 1]
      BY <1>0, <1>2, <1>6 DEF WInv, Overflow
    <2>3. WInv' /\ AllMove
      BY <1>0, <1>2, <1>4, <2>1, <2>2, CallStep
    <2>4. \A d \in Calls \ {c} : call'[d] = call[d]
      BY <1>0, <2>1 DEF WInv
    <2>5. \A i \in 1..Len(channel) : channel[i].kind = "call" =>
            channel[i].call \in Calls \ {c}
      BY <1>3, QueuedCall
    <2>6. CInv'
      BY <1>0, <1>6, <2>4, <2>5 DEF CInv
    <2> QED BY <2>3, <2>6 DEF GInv
  <1> QED BY <1>5, <1>6 DEF PageCalls

-----------------------------------------------------------------------------
LEMMA NextOK == ASSUME GInv, [Next]_vars PROVE GInv' /\ AllMove
  <1>0. WInv /\ CInv
    BY DEF GInv
  <1>1. ASSUME WInv' /\ AllMove /\ UNCHANGED <<channel, call>> PROVE GInv' /\ AllMove
    BY <1>0, <1>1, CInvSame DEF GInv
  <1>2. CASE Tick
    BY <1>0, <1>1, <1>2, TickStep
  <1>3. CASE Dispatch
    BY <1>3, DispatchStep
  <1>4. CASE \E c \in Calls : Settle(c)
    BY <1>4, SettleStep
  <1>5. ASSUME NEW w \in Windows,
               Construct(w) \/ AppCall(w) \/ ExecuteJs(w) \/ Export(w)
                 \/ InvalidateDocument(w) \/ Progress(w)
        PROVE  GInv' /\ AllMove
    <2>1. WInv' /\ AllMove /\ UNCHANGED <<channel, call>>
      BY <1>0, <1>5, ConstructStep, AppCallStep, PageStep, InvalidateStep,
         CloseDoneStep, PollStep, FireStep DEF Progress
    <2> QED BY <1>1, <2>1
  <1>6. ASSUME NEW w \in Windows, NEW n \in Names, Bind(w, n) \/ Unbind(w, n)
        PROVE  GInv' /\ AllMove
    BY <1>0, <1>1, <1>6, NamesStep
  <1>7. ASSUME NEW w \in Windows, NEW e \in win[w].live,
               \/ RequestClose(w, e)
               \/ \E n \in Names, c \in Calls : PageCalls(w, e, n, c)
        PROVE  GInv' /\ AllMove
    BY <1>7, RequestCloseStep, PageCallsStep
  <1>8. CASE UNCHANGED vars
    BY <1>8, StillInv
  <1> QED BY <1>2, <1>3, <1>4, <1>5, <1>6, <1>7, <1>8 DEF Next

(* The invariant that the theorems below draw on: every window is in a state
   that its functions keep, keys and calls in progress belong to one window,
   and the channel carries queued calls only. *)
THEOREM InvariantHolds == Spec => []GInv
  <1>1. GInv /\ [Next]_vars => GInv'
    BY NextOK
  <1> QED BY InitOK, <1>1, PTL DEF Spec

(* TypeOK holds for any constants. *)
THEOREM TypeCorrect == Spec => []TypeOK
  <1>1. GInv => TypeOK
    BY DEF GInv, WInv, CInv, TypeOK
  <1> QED BY InvariantHolds, <1>1, PTL

(* However show, hide, navigation, timers and teardown (dnr_windows.js release)
   interleave, a window never has two native ones. *)
THEOREM OneNative == Spec => []OneLiveNative
  <1>1. GInv => OneLiveNative
    <2> SUFFICES ASSUME GInv, NEW w \in Windows
                 PROVE  LET s == win[w] IN
                          /\ s.live \subseteq {s.native}
                          /\ s.routed = IF Usable(s) THEN {s.native} ELSE {}
                          /\ Usable(s) => s.native \in s.live \ s.closing
      BY DEF OneLiveNative
    <2>1. Body(win[w])
      BY DEF GInv, WInv, WinOK, Base
    <2> QED BY <2>1 DEF Body
  <1> QED BY InvariantHolds, <1>1, PTL

(* What the application last asked for, show or hide, is what the native
   window does once it can do anything. *)
THEOREM VisibleAsWanted == Spec => []ShownWhenWanted
  <1>1. GInv => ShownWhenWanted
    BY DEF GInv, WInv, WinOK, Base, Wishes, ShownWhenWanted
  <1> QED BY InvariantHolds, <1>1, PTL

(* scheduleRelease leaves a timer that is due when the policy says, and none
   for a window that is shown or being released. *)
THEOREM TimersAreRight == Spec => []TimerIsDue
  <1>1. GInv => TimerIsDue
    BY DEF GInv, WInv, WinOK, TimerOK, TimerIsDue
  <1> QED BY InvariantHolds, <1>1, PTL

(* No two windows hold one state key, and a destroyed one holds none. *)
THEOREM KeysAreExclusive == Spec => []KeysExclusive
  <1>1. GInv => KeysExclusive
    BY DEF GInv, WInv, WinOK, Base, Wishes, Alive, KeysExclusive
  <1> QED BY InvariantHolds, <1>1, PTL

(* A release settles every script and call of the page it takes away. *)
THEOREM NothingLeftBehind == Spec => []NoneLeftBehind
  <1>1. GInv => NoneLeftBehind
    BY DEF GInv, WInv, WinOK, Base, Wishes, NoneLeftBehind
  <1> QED BY InvariantHolds, <1>1, PTL

(* A binding call is never answered twice, by its callback and by the release
   or the replacement of its page, nor forgotten by both. *)
THEOREM CallsAnsweredOnce == Spec => []AnsweredOnce
  <1>1. GInv => AnsweredOnce
    BY DEF GInv, WInv
  <1> QED BY InvariantHolds, <1>1, PTL

(* A usable window shows the entry navigated to last, with its bindings. *)
THEOREM PageIsRight == Spec => []PageIsEntry
  <1>1. GInv => PageIsEntry
    BY DEF GInv, WInv, WinOK, Base, Wishes, PageOK, PageIsEntry
  <1> QED BY InvariantHolds, <1>1, PTL

(* No path to `release' takes an exported native window away. *)
THEOREM ExportedRemain == Spec => ExportedStays
  <1>1. GInv /\ [Next]_vars =>
          [\A w \in Windows : win[w].exported /\ Usable(win[w]) =>
             win'[w].native = win[w].native /\ Usable(win'[w])]_vars
    BY NextOK DEF AllMove, Moves
  <1> QED BY InvariantHolds, <1>1, PTL DEF Spec, ExportedStays

(* Only showing a window ends its hidden time; nothing turns it back. *)
THEOREM DeadlineKept == Spec => HideKeepsDeadline
  <1>1. GInv /\ [Next]_vars =>
          [\A w \in Windows : win[w].hiddenFor # Never /\ win'[w].hiddenFor # Never =>
             win'[w].hiddenFor >= win[w].hiddenFor]_vars
    BY NextOK DEF AllMove, Moves
  <1> QED BY InvariantHolds, <1>1, PTL DEF Spec, HideKeepsDeadline

(* `destroyed' is final, also when a teardown ends later. *)
THEOREM DestroyedRemain == Spec => DestroyedStays
  <1>1. GInv /\ [Next]_vars =>
          [\A w \in Windows : win[w].life = "destroyed" =>
             win'[w].life = "destroyed" /\ win'[w].epoch = win[w].epoch]_vars
    BY NextOK DEF AllMove, Moves
  <1> QED BY InvariantHolds, <1>1, PTL DEF Spec, DestroyedStays
=============================================================================
