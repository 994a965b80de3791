---------------------------- MODULE SharedReads -----------------------------
(* What a reader of the entry cache is promised, without flights, queues,
   locks or condition variables: an entry is decoded by one thread at a time
   and never while it is kept; whoever asks meanwhile is given the result of
   that very decode, all sharers in the same instant; only a success is kept,
   and a kept entry is given up only on behalf of a decode under way. *)
CONSTANTS Threads, Slots, Results, NoSlot

VARIABLES
  decoding,  \* the pairs <<t, i>>: thread t decodes entry i
  asked,     \* asked[t]: the entry whose decode t shares, or NoSlot
  answer,    \* answer[t]: what that decode returned, or "none" so far
  kept       \* the entries whose bytes are kept

vars == <<decoding, asked, answer, kept>>

Init ==
  /\ decoding = {}
  /\ asked = [t \in Threads |-> NoSlot]
  /\ answer = [t \in Threads |-> "none"]
  /\ kept = {}

Free(t)    == asked[t] = NoSlot /\ \A i \in Slots : <<t, i>> \notin decoding
Decoded(i) == \E u \in Threads : <<u, i>> \in decoding

Decode(t, i) ==
  /\ Free(t)
  /\ ~Decoded(i)
  /\ i \notin kept
  /\ decoding' = decoding \cup {<<t, i>>}
  /\ UNCHANGED <<asked, answer, kept>>

Join(t, i) ==
  /\ Free(t)
  /\ Decoded(i)
  /\ asked' = [asked EXCEPT ![t] = i]
  /\ UNCHANGED <<decoding, answer, kept>>

GiveUp(i) ==
  /\ decoding # {}
  /\ i \in kept
  /\ kept' = kept \ {i}
  /\ UNCHANGED <<decoding, asked, answer>>

Finish(t, i, r) ==
  /\ <<t, i>> \in decoding
  /\ decoding' = decoding \ {<<t, i>>}
  /\ answer' = [u \in Threads |->
                  IF asked[u] = i /\ answer[u] = "none" THEN r ELSE answer[u]]
  /\ kept' \in {kept} \cup (IF r = "ok" THEN {kept \cup {i}} ELSE {})
  /\ UNCHANGED asked

Return(t) ==
  /\ answer[t] # "none"
  /\ asked' = [asked EXCEPT ![t] = NoSlot]
  /\ answer' = [answer EXCEPT ![t] = "none"]
  /\ UNCHANGED <<decoding, kept>>

Next ==
  \E t \in Threads :
    \/ Return(t)
    \/ \E i \in Slots :
         \/ Decode(t, i) \/ Join(t, i) \/ GiveUp(i)
         \/ \E r \in Results : Finish(t, i, r)

Spec == Init /\ [][Next]_vars
=============================================================================
