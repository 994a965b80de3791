---------------------------- MODULE MCPackaging -----------------------------
(* Finite instances of Packaging for TLC: an application with an entrypoint
   m and items a and b, and a group g whose files come from the application,
   from two platform trees that are laid at b, or from both. *)
EXTENDS Packaging, TLC

Directory0 == [kind |-> "directory", size |-> 0, link |-> <<>>, data |-> None, code |-> "no", exec |-> TRUE]
Link(text) == [Directory0 EXCEPT !.kind = "symlink", !.link = text]
File(size, data, code) ==
  [Directory0 EXCEPT !.kind = "file", !.size = size, !.data = data, !.code = code,
                     !.exec = (code = "script")]

Plain  == File(1, "d1", "no")
Script == File(1, "d1", "script")
Native(code) == File(2, "d2", code)

(* A tree from its root node, or from the nodes in a directory. *)
Alone(name, node) == (<<name>> :> node)
Dir(name, inside) ==
  (<<name>> :> Directory0) @@ [p \in {<<name>> \o q : q \in DOMAIN inside} |-> inside[Tail(p)]]
Nothing == <<>>

ItemsA ==
  {Nothing, Alone("a", Script), Alone("a", Native("any")),
   Alone("a", Link(<<"b">>)), Alone("a", Link(<<"b", "x">>)), Alone("a", Link(<<"a">>)),
   Alone("a", Link(<<Up, "b">>)),
   Dir("a", Alone("x", Plain)), Dir("a", Alone("x", Native("any"))), Dir("a", Alone("x", Link(<<Up, "b", "x">>)))}
ItemsB ==
  {Nothing, Alone("b", Plain), Alone("b", Link(<<"a">>)), Dir("b", Alone("y", Plain))}

VariantsOf(t) ==
  {Nothing,
   Alone("b", Native(t)),
   Alone("b", Link(<<"a">>)),
   <<"b", "x">> :> Native(t),
   Dir("b", Alone("x", Native(t))),
   Dir("b", Alone("x", Native(t)) @@ Alone("l", Link(<<"x">>))),
   Dir("b", Alone("x", Native(t)) @@ Alone("l", Link(<<Up, "a">>))),
   Dir("b", Alone("x", Native(t)) @@ Alone("l", Link(<<"k">>)) @@ Alone("k", Link(<<"x">>)))}

Places(tree, nodes) == [pl \in {<<tree, p>> : p \in DOMAIN nodes} |-> nodes[pl[2]]]
(* A variant is laid at its topmost path; its tree is the part below. *)
Top(nodes) == CHOOSE p \in DOMAIN nodes : \A q \in DOMAIN nodes : IsPrefix(p, q)
Laid(t, nodes) ==
  [pl \in {<<t, SubSeq(p, Len(Top(nodes)) + 1, Len(p))>> : p \in DOMAIN nodes}
     |-> nodes[Top(nodes) \o pl[2]]]

Job(a, b, v1, v2, files, native, excludes, force, busy) ==
  [disk |-> Places("app", (<<>> :> Directory0) @@ Alone("m", Script) @@ a @@ b)
              @@ Laid("t1", v1) @@ Laid("t2", v2),
   entry |-> <<"m">>, excludes |-> excludes, includes |-> {}, output |-> <<"app", <<"o">>>>,
   force |-> force, exists |-> force, busy |-> busy, targets |-> {"t1", "t2"}, groups |-> {"g"},
   files |-> [g \in {"g"} |-> files], native |-> [g \in {"g"} |-> native],
   variants |-> [g \in {"g"} |-> (IF v1 = Nothing THEN Nothing ELSE "t1" :> {<<"t1", Top(v1)>>})
                              @@ (IF v2 = Nothing THEN Nothing ELSE "t2" :> {<<"t2", Top(v2)>>})]]

Declarations == {{<<"library", <<"b", "x">>>>}, {<<"executable", <<"b">>>>},
                 {<<"library", <<"a", "x">>>>, <<"library", <<"b", "x">>>>}}

(* Patterns and exclusions name something where it exists. *)
Patterned == {q \in ItemsA \X {{}, {<<"a", "x">>}} : q[2] \subseteq DOMAIN q[1]}
Excluding ==
  {q \in VariantsOf("t1") \X VariantsOf("t2") \X {{}, {<<"b", "l">>}} :
     /\ q[3] \subseteq DOMAIN q[1] \cup DOMAIN q[2]
     /\ <<"b", "k">> \notin DOMAIN q[2]}   \* the longer chain on one platform only

(* Every combination, undisturbed; the smaller ones that can succeed also on
   a disk that changes. *)
QuietJobs ==
  {Job(a, b, v1, v2, files, native, excludes, FALSE, FALSE) :
     <<a, files>> \in Patterned, b \in ItemsB, <<v1, v2, excludes>> \in Excluding,
     native \in Declarations}
BusyJobs ==
  {Job(a, Nothing, v1, v2, {}, {<<"library", <<"b", "x">>>>}, {}, force, TRUE) :
     a \in {Alone("a", Script), Alone("a", Link(<<"b", "x">>))},
     v1 \in VariantsOf("t1"), v2 \in {Nothing, Dir("b", Alone("x", Native("t2")))},
     force \in BOOLEAN}

(* An item of another tree is added under a name that may be taken. *)
Included(j, name) ==
  [j EXCEPT !.disk = @ @@ (<<"more", <<>>>> :> Plain), !.includes = {<<"more", <<name>>>>},
              !.exists = TRUE, !.force = TRUE]
IncludeJobs == {Included(j, name) : j \in BusyJobs, name \in {"a", "c", ".dnr"}}

AllJobs == QuietJobs \cup BusyJobs \cup IncludeJobs

(* A link of the group leads through a link of the application. *)
LinkJobs ==
  {Job(a, b, v1, Dir("b", Alone("x", Native("t2"))), {}, {<<"library", <<"b", "x">>>>}, {}, FALSE, FALSE) :
     a \in ItemsA, b \in ItemsB, v1 \in VariantsOf("t1")}

Edited == {File(1, "d3", "script"), File(3, "d3", "any"), Link(<<"x">>), Directory0}
=============================================================================
