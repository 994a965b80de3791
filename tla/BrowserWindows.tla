--------------------------- MODULE BrowserWindows ---------------------------
(***************************************************************************)
(* The windows of an application (integration/rt/dnr_windows.js and the    *)
(* event loop of integration/deno.patch): what the application calls, the  *)
(* events that the native windows put into a bounded channel and the       *)
(* JavaScript loop takes out one at a time, teardown in the backend, the   *)
(* release timers, and the binding calls of pages, which callbacks answer  *)
(* long after they were delivered.                                         *)
(*                                                                         *)
(* A step is one synchronous piece of JavaScript, or one step of the       *)
(* backend.  What a call does to its window is in WindowLifecycle.         *)
(***************************************************************************)
EXTENDS WindowLifecycle, Sequences, FiniteSets

CONSTANTS
  Windows,     \* the logical windows of the application
  Keys,        \* state keys
  MainKey,     \* the key of the first ordinary window without one
  Urls,        \* entries of the application
  Names,       \* names of bindings
  Calls,       \* binding calls of pages
  Policies,    \* hidden-window policies in use
  Capacity,    \* events the channel holds
  MaxDelay,    \* bound: the time that is told apart
  MaxNatives   \* bound: native windows created for a window

ASSUME WindowsAssumption ==
  /\ MainKey \in Keys /\ NoKey \notin Keys /\ NoUrl \notin Urls
  /\ MaxDelay \in Nat /\ MaxNatives \in Nat /\ Capacity \in Nat
  /\ Policies \subseteq [mode : {"immediate", "keep", "delayed"}, delay : 0..MaxDelay]

VARIABLES
  win,         \* win[w]: the state of window w
  mainTaken,   \* an ordinary window was constructed
  channel,     \* events on their way to the JavaScript loop
  call,        \* call[c]: the page that made call c, and how far it has come
  answers      \* answers[c]: the answers sent to call c

vars == <<win, mainTaken, channel, call, answers>>

Natives   == 1..MaxNatives
Event     == [kind : {"close"}, window : Windows, native : Natives]
         \cup [kind : {"call"}, window : Windows, native : Natives,
               call : Calls, name : Names]
NotCalled == [phase |-> "none"]
Called    == [phase : {"queued", "running", "returned"}, window : Windows,
              native : Natives]

StateKeys == {win[w].key : w \in Windows} \ {NoKey}

(* Everything a step does to window w.  A call that drops out of the calls in
   progress was rejected by the release of its document. *)
Rejected(w, s) == win[w].inflight \ s.inflight

Becomes(w, s) ==
  /\ win' = [win EXCEPT ![w] = s]
  /\ answers' = [c \in Calls |->
                   IF c \in Rejected(w, s) THEN answers[c] + 1 ELSE answers[c]]

(* Bound on the native windows: a call that leads to the creation of one. *)
Room(w) == win[w].epoch < MaxNatives
Alive(w) == win[w].life = "alive"

-----------------------------------------------------------------------------
Init ==
  /\ win = [w \in Windows |-> Unborn]
  /\ mainTaken = FALSE
  /\ channel = <<>>
  /\ call = [c \in Calls |-> NotCalled]
  /\ answers = [c \in Calls |-> 0]

(* `new BrowserWindow': an occupied key is an error and changes nothing. *)
KeyFree(k)     == k = NoKey \/ k \notin StateKeys

Construct(w) ==
  /\ win[w].life = "unborn" /\ Room(w)
  /\ \E asked \in Keys \cup {NoKey}, ordinary, protected \in BOOLEAN, p \in Policies :
       LET k == IF ordinary /\ asked = NoKey /\ ~mainTaken THEN MainKey ELSE asked IN
         /\ KeyFree(k)
         /\ mainTaken' = (mainTaken \/ ordinary)
         /\ Becomes(w, CreateNative([Unborn EXCEPT
              !.life = "alive", !.wantVisible = TRUE, !.policy = p,
              !.protected = protected, !.key = k]))
  /\ UNCHANGED <<channel, call>>

(* `close', called or requested by the user.  Its handler may have hidden or
   destroyed the window and prevented the default; `closing' keeps it from
   dispatching again. *)
CloseWindow(w) ==
  \E gone, prevented \in BOOLEAN, behavior \in {"hide", "destroy"} :
    LET s == win[w] IN
    \E handled \in {s, Hide(s, gone), Release(s, TRUE, gone)} :
      Becomes(w, Close(s, handled, prevented, behavior, gone))

(* The calls of the application that change a window. *)
AppCall(w) ==
  /\ win[w].life # "unborn"
  /\ LET s == win[w] IN
     \/ CloseWindow(w)
     \/ /\ Room(w) \/ Usable(s) \/ s.life = "destroyed"
        /\ Becomes(w, Show(s))
     \/ \E gone \in BOOLEAN :
          \/ Becomes(w, Hide(s, gone))
          \/ Becomes(w, Release(s, TRUE, gone))
          \/ \E p \in Policies :
               Becomes(w, ScheduleRelease([s EXCEPT !.policy = p], gone))
          \/ \E u \in Urls :
               /\ Alive(w) /\ (Room(w) \/ ~s.protected)
               /\ Becomes(w, Navigate(s, u, gone))
  /\ UNCHANGED <<mainTaken, channel, call>>

(* `bind' registers the callback first, even of a destroyed window. *)
Bind(w, n) ==
  /\ win[w].life # "unborn"
  /\ Becomes(w, [win[w] EXCEPT !.bound = @ \cup {n},
       !.installed = IF Usable(win[w]) THEN @ \cup {n} ELSE @])
  /\ UNCHANGED <<mainTaken, channel, call>>

Unbind(w, n) ==
  /\ win[w].life # "unborn"
  /\ Becomes(w, [win[w] EXCEPT !.bound = @ \ {n},
       !.installed = IF Usable(win[w]) THEN @ \ {n} ELSE @])
  /\ UNCHANGED <<mainTaken, channel, call>>

(* `executeJs' and its result, which may never come. *)
ExecuteJs(w) ==
  /\ Usable(win[w])
  /\ \E scripts \in {{win[w].native}, {}} : Becomes(w, [win[w] EXCEPT !.scripts = scripts])
  /\ UNCHANGED <<mainTaken, channel, call>>

(* `getNativeWindow' for a WebGPU surface. *)
Export(w) ==
  /\ Usable(win[w])
  /\ Becomes(w, [win[w] EXCEPT !.exported = TRUE])
  /\ UNCHANGED <<mainTaken, channel, call>>

-----------------------------------------------------------------------------
(* Native events.  try_send drops a close request that finds the channel full
   and answers a binding call with an error. *)
RequestClose(w, e) ==
  /\ e \in win[w].live \ win[w].closing
  /\ Len(channel) < Capacity
  /\ channel' = Append(channel, [kind |-> "close", window |-> w, native |-> e])
  /\ UNCHANGED <<win, mainTaken, call, answers>>

SlipOverflow(c) == answers            \* the call is dropped with its event
Overflow(c) == [answers EXCEPT ![c] = @ + 1]

PageCalls(w, e, n, c) ==
  /\ e \in win[w].live /\ n \in win[w].installed
  /\ call[c] = NotCalled
  /\ \/ /\ Len(channel) < Capacity
        /\ channel' = Append(channel, [kind |-> "call", window |-> w, native |-> e,
                                       call |-> c, name |-> n])
        /\ call' = [call EXCEPT ![c] = [phase |-> "queued", window |-> w, native |-> e]]
        /\ UNCHANGED answers
     \/ /\ Len(channel) >= Capacity
        /\ call' = [call EXCEPT ![c] = [phase |-> "returned", window |-> w, native |-> e]]
        /\ answers' = Overflow(c)
        /\ UNCHANGED channel
  /\ UNCHANGED <<win, mainTaken>>

(* The loop takes an event: one of a native window that is no longer routed
   is dropped, or refused if somebody waits for an answer. *)
Routed(ev) == ev.native \in win[ev.window].routed

DispatchClose(ev) ==
  /\ ev.kind = "close"
  /\ IF Routed(ev) THEN CloseWindow(ev.window) ELSE UNCHANGED <<win, answers>>
  /\ UNCHANGED call

(* The document of a protected window is checked before its callback runs; it
   may have been replaced by then. *)
DispatchCall(ev) ==
  /\ ev.kind = "call"
  /\ LET accepted == Routed(ev) /\ ev.name \in win[ev.window].bound IN
     \/ /\ accepted
        /\ win' = [win EXCEPT ![ev.window].inflight = @ \cup {ev.call}]
        /\ call' = [call EXCEPT ![ev.call].phase = "running"]
        /\ UNCHANGED answers
     \/ /\ ~accepted \/ win[ev.window].protected
        /\ answers' = [answers EXCEPT ![ev.call] = @ + 1]
        /\ call' = [call EXCEPT ![ev.call].phase = "returned"]
        /\ UNCHANGED win

Dispatch ==
  /\ channel # <<>>
  /\ channel' = Tail(channel)
  /\ DispatchClose(Head(channel)) \/ DispatchCall(Head(channel))
  /\ UNCHANGED mainTaken

(* A callback settles; its call may have been rejected by a release. *)
SlipAnswer(w, c) == [answers EXCEPT ![c] = @ + 1]   \* answered without asking
Answer(w, c) ==
  IF c \in win[w].inflight THEN [answers EXCEPT ![c] = @ + 1] ELSE answers

Settle(c) ==
  /\ call[c].phase = "running"
  /\ call' = [call EXCEPT ![c].phase = "returned"]
  /\ LET w == call[c].window IN
       /\ answers' = Answer(w, c)
       /\ win' = [win EXCEPT ![w].inflight = @ \ {c}]
  /\ UNCHANGED <<mainTaken, channel>>

(* The watch on documents finds that of a protected window replaced. *)
InvalidateDocument(w) ==
  /\ win[w].protected /\ win[w].inflight # {}
  /\ Becomes(w, [win[w] EXCEPT !.inflight = {}])
  /\ UNCHANGED <<mainTaken, channel, call>>

-----------------------------------------------------------------------------
(* The backend finishes a teardown, and the polling timer of `release'
   notices. *)
CloseDone(w) ==
  /\ win[w].closing # {}
  /\ win' = [win EXCEPT ![w].live = @ \ win[w].closing, ![w].closing = {}]
  /\ UNCHANGED <<mainTaken, channel, call, answers>>

Poll(w) ==
  /\ win[w].releasing /\ win[w].native \notin win[w].live
  /\ Becomes(w, Complete(win[w]))
  /\ UNCHANGED <<mainTaken, channel, call>>

(* A release timer that has run out fires now or later. *)
Fire(w) ==
  /\ win[w].timer = 0
  /\ \E gone \in BOOLEAN : Becomes(w, Release(win[w], FALSE, gone))
  /\ UNCHANGED <<mainTaken, channel, call>>

Older(n)   == IF n \in 0..MaxDelay - 1 THEN n + 1 ELSE n
Shorter(n) == IF n > 0 THEN n - 1 ELSE n

Tick ==
  /\ win' = [w \in Windows |-> [win[w] EXCEPT !.hiddenFor = Older(@), !.timer = Shorter(@)]]
  /\ UNCHANGED <<mainTaken, channel, call, answers>>

-----------------------------------------------------------------------------
Progress(w) == CloseDone(w) \/ Poll(w) \/ Fire(w)

Next ==
  \/ Tick
  \/ Dispatch
  \/ \E c \in Calls : Settle(c)
  \/ \E w \in Windows :
       \/ Construct(w) \/ AppCall(w) \/ ExecuteJs(w) \/ Export(w)
       \/ InvalidateDocument(w) \/ Progress(w)
       \/ \E n \in Names : Bind(w, n) \/ Unbind(w, n)
       \/ \E e \in win[w].live :
            \/ RequestClose(w, e)
            \/ \E n \in Names, c \in Calls : PageCalls(w, e, n, c)

Spec == Init /\ [][Next]_vars

(* Time passes, the loop takes its events and timers, the backend confirms
   every close it was asked for, and callbacks return. *)
FairSpec ==
  /\ Spec
  /\ WF_vars(Tick) /\ WF_vars(Dispatch)
  /\ \A c \in Calls : WF_vars(Settle(c))
  /\ \A w \in Windows : WF_vars(CloseDone(w)) /\ WF_vars(Poll(w)) /\ WF_vars(Fire(w))
-----------------------------------------------------------------------------
Window ==
  [life : {"unborn", "alive", "destroyed"}, native : 0..MaxNatives,
   epoch : 0..MaxNatives, releasing : BOOLEAN, wantVisible : BOOLEAN,
   hiddenFor : Never..MaxDelay, timer : Never..MaxDelay, policy : Policies \cup {Unborn.policy},
   protected : BOOLEAN, url : Urls \cup {NoUrl}, key : Keys \cup {NoKey},
   bound : SUBSET Names, scripts : SUBSET Natives, inflight : SUBSET Calls,
   routed : SUBSET Natives, live : SUBSET Natives, closing : SUBSET Natives,
   shown : BOOLEAN, exported : BOOLEAN, page : Urls \cup {NoUrl},
   installed : SUBSET Names]

(* Every variable stays in its domain; in particular nothing creates native
   windows behind the calls that are counted against the bound. *)
TypeOK ==
  /\ win \in [Windows -> Window]
  /\ mainTaken \in BOOLEAN
  /\ channel \in Seq(Event) /\ Len(channel) <= Capacity
  /\ call \in [Calls -> Called \cup {NotCalled}]
  /\ answers \in [Calls -> Nat]

(* However show, hide, navigation, timers and teardown interleave, a logical
   window never has two native ones, no native window survives unknown to its
   owner, and events are routed from the usable one alone. *)
OneLiveNative ==
  \A w \in Windows :
    LET s == win[w] IN
      /\ s.live \subseteq {s.native}
      /\ s.routed = IF Usable(s) THEN {s.native} ELSE {}
      /\ Usable(s) => s.native \in s.live \ s.closing

(* The native window is visible exactly when the application last asked for
   it, also after a show that had to wait for a teardown; one with exported
   handles may have been hidden in place of a release. *)
ShownWhenWanted ==
  \A w \in Windows :
    Usable(win[w]) /\ ~win[w].exported => (win[w].shown <=> win[w].wantVisible)

(* A release timer runs only for a hidden window and is due when the policy
   now in force says; without exported handles no hidden window is left
   without one, unless it is to be kept. *)
TimerIsDue ==
  \A w \in Windows :
    LET s == win[w] IN
      /\ s.timer # Never => /\ Usable(s) /\ s.hiddenFor # Never
                            /\ s.policy.mode = "delayed"
                            /\ s.timer + s.hiddenFor >= s.policy.delay
                            /\ s.timer > 0 => s.timer + s.hiddenFor = s.policy.delay
      /\ Usable(s) /\ ~s.exported /\ s.hiddenFor # Never /\ s.timer = Never
           => s.policy.mode = "keep"

(* Two windows never occupy one state key, which names their saved size, and
   a destroyed window gives its key back even if its native part was being
   torn down, or gone, when it was destroyed. *)
KeysExclusive ==
  \A w \in Windows :
    /\ win[w].key # NoKey => Alive(w)
    /\ \A v \in Windows \ {w} : win[w].key = win[v].key => win[w].key = NoKey

(* What waits for a page waits for the page that is there: a release settles
   every script and every binding call of the page it takes away. *)
NoneLeftBehind ==
  \A w \in Windows :
    LET current == IF Usable(win[w]) THEN {win[w].native} ELSE {} IN
      /\ win[w].scripts \subseteq current
      /\ \A c \in win[w].inflight : call[c].window = w /\ call[c].native \in current

(* A binding call is answered at most once, whoever comes first, its callback
   or the release of its page; and once it is neither queued nor in progress
   it has been answered. *)
AnsweredOnce ==
  \A c \in Calls :
    LET open == \/ call[c].phase \in {"none", "queued"}
                \/ \E w \in Windows : c \in win[w].inflight
    IN answers[c] = IF open THEN 0 ELSE 1

(* The page of a usable window is the entry the application navigated to last,
   with the bindings it has now, however often the native window was replaced;
   only a replacement that exported handles forbid leaves the old entry. *)
PageIsEntry ==
  \A w \in Windows :
    Usable(win[w]) => /\ win[w].installed = win[w].bound
                      /\ win[w].page = win[w].url \/ (win[w].protected /\ win[w].exported)

(* A native window whose handles were exported is never torn down, by
   whatever path a release is reached. *)
ExportedStays ==
  [][\A w \in Windows : win[w].exported /\ Usable(win[w]) =>
        win'[w].native = win[w].native /\ Usable(win'[w])]_vars

(* Hiding a hidden window again does not restart its time. *)
HideKeepsDeadline ==
  [][\A w \in Windows : win[w].hiddenFor # Never /\ win'[w].hiddenFor # Never =>
        win'[w].hiddenFor >= win[w].hiddenFor]_vars

(* A destroyed window stays destroyed and is given no further native window,
   whatever is called on it and whatever teardown ends after it. *)
DestroyedStays ==
  [][\A w \in Windows : win[w].life = "destroyed" =>
        win'[w].life = "destroyed" /\ win'[w].epoch = win[w].epoch]_vars

(* A show is honoured, at once or after the teardown in progress, unless the
   application changes its mind. *)
ShowIsHonoured ==
  \A w \in Windows :
    Alive(w) /\ win[w].wantVisible ~>
      ~Alive(w) \/ ~win[w].wantVisible \/ Usable(win[w])

(* A hidden window gives up its native part, however often it is hidden again
   or its policy changed in between, unless the policy is to keep it, it is
   shown again, or its handles were exported. *)
HiddenIsReleased ==
  \A w \in Windows :
    Alive(w) /\ win[w].hiddenFor # Never ~>
      \/ win[w].native = NoNative \/ win[w].hiddenFor = Never
      \/ win[w].policy.mode = "keep" \/ win[w].exported \/ ~Alive(w)

(* Every binding call is answered, also when the channel is full or the page
   goes away, as long as callbacks return. *)
CallsAreAnswered == \A c \in Calls : call[c].phase # "none" ~> answers[c] > 0
=============================================================================
