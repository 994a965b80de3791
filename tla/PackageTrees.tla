---------------------------- MODULE PackageTrees ----------------------------
(***************************************************************************)
(* The logical trees of a package: paths, symbolic links, the view of one  *)
(* platform, its validation when the package is opened and the lookup of a *)
(* path in it (crates/package/src/index.rs and lib.rs).                    *)
(*                                                                         *)
(* A path is the sequence of its components, a link text likewise, with Up *)
(* for `..'.  The archive and the records of the index are sets: the order *)
(* in which they are written decides nothing here.                         *)
(***************************************************************************)
EXTENDS Naturals, Sequences, FiniteSets, FiniteSetsExt, SequencesExt

CONSTANT MaxHops    \* bound of the code: links followed for one path (40)

ASSUME MaxHopsAssumption == MaxHops \in Nat \ {0}

None   == "none"
Up     == ".."
NoPath == <<Up>>    \* a path that could not be computed
Root   == <<"">>    \* the empty path, which names no entry

Failed == "error"   \* a read that failed

Reserved(p) == Head(p) = ".dnr"

(* resolve_link: where the link at `name' points. *)
Enter(at, part) ==
  IF at = NoPath \/ (part = Up /\ at = <<>>) THEN NoPath
  ELSE IF part = Up THEN Front(at) ELSE Append(at, part)
ResolveLink(name, link) ==
  LET at[n \in 0..Len(link)] ==
        IF n = 0 THEN Front(name) ELSE Enter(at[n-1], link[n])
      end == at[Len(link)]
  IN IF end = <<>> THEN Root ELSE end

Parents(names) == UNION {{SubSeq(p, 1, n) : n \in 1..Len(p)-1} : p \in names}

Below(view, p) == {q \in DOMAIN view : IsStrictPrefix(p, q)}

Links(view)    == {p \in DOMAIN view : view[p].kind = "symlink"}
Exists(view, p) == p \in DOMAIN view \/ Below(view, p) # {}

(* The first link on the way to p replaced by what it points to. *)
LinksOn(view, p) == {n \in 1..Len(p) : SubSeq(p, 1, n) \in Links(view)}
Replaced(p, n, dest) == IF dest = NoPath THEN NoPath ELSE dest \o SubSeq(p, n + 1, Len(p))
Past(view, p, n) ==
  LET link == SubSeq(p, 1, n) IN Replaced(p, n, ResolveLink(link, view[link].link))
Hop(view, p) == IF LinksOn(view, p) = {} THEN p ELSE Past(view, p, Min(LinksOn(view, p)))

(* The path without links that p leads to, NoPath when a link escapes or
   the walk has not come to rest in MaxHops rounds, the last of which only
   finds that nothing is left to replace. *)
Walk(view, p, hops) ==
  LET at[n \in 0..hops] == IF n = 0 THEN p ELSE Hop(view, at[n-1]) IN at[hops]
AtRest(view, end) == IF LinksOn(view, end) = {} THEN end ELSE NoPath
Follow(view, p) == AtRest(view, Walk(view, p, MaxHops - 1))

-----------------------------------------------------------------------------
(* The records that a platform sees, and the tree they make (make_view). *)
Selected(records, t) == {r \in records : r.target \in {None, t}}

Consistent(selected) ==
  \A r, s \in selected : r # s /\ r.path = s.path => {r.kind, s.kind} = {"directory"}

View(selected) ==
  [p \in {r.path : r \in selected} |-> CHOOSE r \in selected : r.path = p]

NoFileInside(view) ==
  \A p \in Parents(DOMAIN view) \cap DOMAIN view : view[p].kind = "directory"

(* A link of a group ends at a member of the group, or at a directory all of
   whose files are members. *)
StaysInGroup(view, name, end) ==
  LET group  == view[name].group
      Own(p) == view[p].kind # "directory" /\ view[p].group = group
      inside == {p \in Below(view, end) : view[p].kind # "directory"}
  IN \/ group = None
     \/ end \in DOMAIN view /\ Own(end)
     \/ inside # {} /\ \A p \in inside : Own(p)

EndIsSound(view, name, end) ==
  end # NoPath /\ Exists(view, end) /\ StaysInGroup(view, name, end)
LinkIsSound(view, name) == EndIsSound(view, name, Follow(view, name))

HasNative(selected, g) == \E r \in selected : r.group = g /\ r.native # None

(* validate_view *)
Valid(records, t) ==
  LET selected == Selected(records, t)
      view     == View(selected)
  IN /\ Consistent(selected)
     /\ NoFileInside(view)
     /\ \A name \in Links(view) : LinkIsSound(view, name)
     /\ \A r \in selected : r.group # None => HasNative(selected, r.group)

-----------------------------------------------------------------------------
(* Opening: State::from_records, then Package::open_for_target.  A package
   holds the manifest (targets, groups, entry), the records and the archive,
   which maps a source to what the ZIP holds under that name. *)
SourceOf(records, s) == CHOOSE r \in records : r.source = s

Agrees(r, raw) ==
  /\ r.kind = raw.kind /\ r.size = raw.size
  /\ r.kind = "symlink" => r.link = raw.link

Indexed(pkg) ==
  /\ \A r, s \in pkg.records : r.source = s.source => r = s
  /\ DOMAIN pkg.archive = {r.source : r \in pkg.records}
  /\ \A r \in pkg.records :
       /\ ~Reserved(r.path)
       /\ r.group \in pkg.groups \cup {None}
       /\ r.target \in pkg.targets \cup {None}
       /\ r.target # None => r.group # None
       /\ r.native # None => r.kind = "file" /\ r.group # None
       /\ r.native = "executable" => r.exec
       /\ Agrees(r, pkg.archive[r.source])

Contained(archive) ==
  \A s \in DOMAIN archive :
    /\ Reserved(s) /\ Len(s) > 1 => Len(s) > 2 /\ s[2] = "p"
    /\ archive[s].kind = "symlink" => ResolveLink(s, archive[s].link) # NoPath

(* The platforms that are validated, whichever one opens. *)
SlipValidated(pkg, t) == {t}              \* only the one that opens
Validated(pkg, t) == IF pkg.targets = {} THEN {t} ELSE pkg.targets

Synthesized(view) == Parents(DOMAIN view) \ DOMAIN view
Directory == [kind |-> "directory", link |-> <<>>, group |-> None]
Entries(pkg, t) ==
  LET view == View(Selected(pkg.records, t))
  IN [p \in DOMAIN view \cup Synthesized(view) |->
        IF p \in DOMAIN view THEN view[p] ELSE Directory]

Opens(pkg, t) ==
  /\ ~Reserved(pkg.entry)
  /\ pkg.groups # {} => pkg.targets # {}
  /\ Contained(pkg.archive)
  /\ Indexed(pkg)
  /\ \A u \in Validated(pkg, t) : Valid(pkg.records, u)
  /\ Consistent(Selected(pkg.records, t))
  /\ NoFileInside(View(Selected(pkg.records, t)))
  /\ pkg.entry \in DOMAIN Entries(pkg, t)

(* Paths that only other platforms have.  A directory that the view lacks a
   record of but has files below is not one of them. *)
SlipUnavailable(pkg, t) ==                \* every path without a record
  {r.path : r \in pkg.records} \ {r.path : r \in Selected(pkg.records, t)}
Unavailable(pkg, t) ==
  LET view == View(Selected(pkg.records, t))
  IN {p \in {r.path : r \in pkg.records \ Selected(pkg.records, t)} : ~Exists(view, p)}

(* is_unavailable *)
IsUnavailable(pkg, t, p) == \E q \in Unavailable(pkg, t) : IsPrefix(q, p)

(* Package::resolve *)
NotADirectory(entries, p) ==
  \E n \in 1..Len(p)-1 :
    /\ SubSeq(p, 1, n) \in DOMAIN entries
    /\ entries[SubSeq(p, 1, n)].kind = "file"
Placed(entries, end) == IF end # NoPath /\ NotADirectory(entries, end) THEN NoPath ELSE end
ResolveIn(entries, p) == Placed(entries, Follow(entries, p))
Resolve(pkg, t, p)    == ResolveIn(Entries(pkg, t), p)

(* Package::read: the bytes at p, or None when the package has nothing there
   and the host may look on its disk. *)
Verified(pkg, r) ==
  IF r.kind = "file" /\ pkg.archive[r.source].data = r.sum THEN r.sum ELSE Failed
ReadAt(pkg, t, entries, end) ==
  IF end = NoPath \/ IsUnavailable(pkg, t, end) THEN Failed
  ELSE IF end \notin DOMAIN entries THEN None ELSE Verified(pkg, entries[end])
Read(pkg, t, p) == ReadAt(pkg, t, Entries(pkg, t), Resolve(pkg, t, p))

-----------------------------------------------------------------------------
(* What the host finds at a path.  An answer is a failure, nothing that the
   package knows of, a file of a native group or a file of the disk. *)
Error      == [is |-> "error"]
Absent     == [is |-> "absent"]
OnDisk     == [is |-> "disk"]
InGroup(r) == [is |-> "group", group |-> r.group, path |-> r.path]

(* dnr::directory: the tree the host mounts over the disk.  An entry is put
   into the directory that it is in. *)
Inside(entries, p) == \A n \in 1..Len(p)-1 :
  SubSeq(p, 1, n) \in DOMAIN entries /\ entries[SubSeq(p, 1, n)].kind = "directory"
MountedFrom(entries) == [p \in {p \in DOMAIN entries : Inside(entries, p)} |-> entries[p]]
Mounted(pkg, t) == MountedFrom(Entries(pkg, t))

(* find_entry_no_follow: the links on the way are followed, the last is not. *)
Entered(way, name) == IF way = NoPath THEN NoPath ELSE Append(way, name)
FollowWay(tree, p) ==
  IF Len(p) = 1 THEN p ELSE Entered(Follow(tree, Front(p)), Last(p))

(* dnr_contains: whether the package answers for a path, or else the disk.
   It does not for what is merely below a directory of it. *)
Answers(tree, at, whole) ==
  at = NoPath \/ (at \in DOMAIN tree /\ (tree[at].kind = "directory" => whole))
DnrContains(pkg, t, tree, p) ==
  \/ IsUnavailable(pkg, t, p)
  \/ \E n \in 1..Len(p) : Answers(tree, FollowWay(tree, SubSeq(p, 1, n)), n = Len(p))

(* read_text: the package first, then the disk. *)
OrElse(found, onDisk)      == IF found = None THEN onDisk ELSE found
ReadText(pkg, t, p, onDisk) == OrElse(Read(pkg, t, p), onDisk)

(* indexed_record: links count only if there is no other record of the path. *)
Seen(pkg, t) == View(Selected(pkg.records, t))
IndexedPath(pkg, t, p) ==
  LET view == Seen(pkg, t)
  IN IF p \in DOMAIN view \ Links(view) THEN p ELSE Resolve(pkg, t, p)

NativeUse(usage) == IF usage = "executable" THEN {"executable"} ELSE {"library", "addon"}

NativeAt(pkg, t, view, at, usage) ==
  IF at \in DOMAIN view
  THEN IF view[at].kind = "file" /\ view[at].native \in NativeUse(usage)
       THEN InGroup(view[at]) ELSE Error
  ELSE IF at = NoPath \/ IsUnavailable(pkg, t, at) \/ at \in DOMAIN Entries(pkg, t)
  THEN Error ELSE Absent
NativePath(pkg, t, p, usage) == NativeAt(pkg, t, Seen(pkg, t), IndexedPath(pkg, t, p), usage)

(* module_path: a module of a group runs from the group's directory. *)
ModuleAt(view, at) ==
  IF at = NoPath THEN Error
  ELSE IF at \in DOMAIN view /\ view[at].group # None /\ view[at].kind # "directory"
  THEN InGroup(view[at]) ELSE Absent
ModulePath(pkg, t, p) ==
  IF {r \in Selected(pkg.records, t) : r.group # None} = {} THEN Absent
  ELSE ModuleAt(Seen(pkg, t), IndexedPath(pkg, t, p))

(* group_layout: the members of a group and the directories they are in. *)
WithParents(view) ==
  [p \in DOMAIN view \cup Parents(DOMAIN view) |-> IF p \in DOMAIN view THEN view[p] ELSE Directory]
Layout(pkg, t, g) == WithParents(View({r \in Selected(pkg.records, t) : r.group = g}))

(* PackageCommands::resolve: what runs under a name.  A name without a slash
   is looked for in directories, where what cannot be executed is passed over,
   also a file of the disk behind it. *)
Fits(r, last) == IF last THEN r.kind = "file" /\ r.exec ELSE r.kind = "directory"
JudgeAt(pkg, t, entries, end, last) ==
  IF end = NoPath \/ IsUnavailable(pkg, t, end) THEN "fails"
  ELSE IF end \in DOMAIN entries /\ ~Fits(entries[end], last) THEN "skipped" ELSE "fits"
Judge(pkg, t, p, n) ==
  JudgeAt(pkg, t, Entries(pkg, t), Resolve(pkg, t, SubSeq(p, 1, n)), n = Len(p))

(* The first part of a path that does not fit decides. *)
Judged(pkg, t, p) == [n \in 1..Len(p) |-> Judge(pkg, t, p, n)]
Unfit(parts) == {n \in DOMAIN parts : parts[n] # "fits"}
Passed(parts) ==
  IF Unfit(parts) = {} THEN "fits" ELSE parts[Min(Unfit(parts))]

Chosen(passed, native, onDisk) ==
  CASE passed = "fails"   -> Error
    [] passed = "skipped" -> Absent
    [] passed = "fits"    -> IF native = Absent /\ onDisk THEN OnDisk ELSE native
Candidate(pkg, t, p, search, onDisk) ==
  Chosen(IF search THEN Passed(Judged(pkg, t, p)) ELSE "fits",
         NativePath(pkg, t, p, "executable"), search /\ onDisk)

(* The first of the candidates that is something.  On the disk there is an
   executable file at the paths in `disk'. *)
Command(pkg, t, candidates, search, disk) ==
  LET found == [n \in 1..Len(candidates) |->
                  Candidate(pkg, t, candidates[n], search, candidates[n] \in disk)]
      some  == {n \in DOMAIN found : found[n] # Absent}
  IN IF some = {} THEN Absent ELSE found[Min(some)]
=============================================================================
