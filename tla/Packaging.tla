----------------------------- MODULE Packaging ------------------------------
(***************************************************************************)
(* `dnc': a directory is packed into one file (pack_with_desktop in        *)
(* crates/package/src/lib.rs and index::prepare), the file is opened once  *)
(* as a check, then renamed into place.                                    *)
(*                                                                         *)
(* The packer reads the disk several times: it lists the entries, reads    *)
(* their types and sizes, hashes them, and copies them into the archive.   *)
(* Somebody may change the disk, or publish at the same path, between any  *)
(* two of these.  Entries are read one after the other; as no read of one  *)
(* entry affects another, one step per pass over the entries has the same  *)
(* outcomes.                                                               *)
(***************************************************************************)
EXTENDS PackageTrees

CONSTANTS
  Jobs,       \* what may be asked for, see the fields below
  Host,       \* the platform the packer runs on
  Nodes,      \* what an edit may put at a place of the disk
  MaxEdits    \* bound: edits while the packer runs

(* A place is a tree of the disk and a path in it, <<>> for its root.  A job
   has the fields
     disk                what is at which place
     entry, excludes     the entrypoint, paths to leave out
     includes            the <<tree, path>> to add to the directory "app"
     output, force       the place of the output if it lies in a tree; --force
     exists              there is an older file at the output
     targets, groups     the platforms and groups of the configuration
     files[g]            the paths that the patterns of g match
     native[g]           the <<role, path>> that g declares
     variants[g][t]      the <<tree, path>> that g maps for platform t
     busy                bound: whether others touch the disk meanwhile *)

(* What the file system and the parser of the configuration can yield: no
   listed path and no root to add a tree at has `..', and a declaration has a
   known role.  None is no platform.  The bytes of a file are no other outcome of a read. *)
Usages    == {"library", "addon", "executable"}
IsPath(p) == p \in Seq(STRING) /\ \A n \in 1..Len(p) : p[n] # Up
IsNode(node) ==
  /\ node.kind \in {"file", "directory", "symlink"}
  /\ node.link \in Seq(STRING)
  /\ node.kind = "file" => node.data \notin {None, "disk"}

ASSUME JobsAssumption ==
  /\ \A node \in Nodes : IsNode(node)
  /\ MaxEdits \in Nat
  /\ \A j \in Jobs :
       /\ None \notin j.targets
       /\ \A x \in j.excludes : x \in Seq(STRING)
       /\ \A pl \in DOMAIN j.disk : IsPath(pl[2]) /\ IsNode(j.disk[pl])
       /\ \A r \in j.includes : IsPath(r[2])
       /\ \A g \in j.groups :
            /\ \A d \in j.native[g] : d[1] \in Usages
            /\ \A t \in DOMAIN j.variants[g] : \A r \in j.variants[g][t] : IsPath(r[2])

VARIABLES
  job,
  disk,       \* disk[place]: a node
  edits,      \* edits so far
  pc,         \* the next pass, or how the packer ended
  entries,    \* entries[source]: the place it is read from
  records,    \* the records of the index
  zip,        \* the temporary file, once written
  output      \* the file at the output path

vars == <<job, disk, edits, pc, entries, records, zip, output>>

NoPackage == [targets |-> {}, groups |-> {}, entry |-> <<>>, records |-> {}, archive |-> <<>>]

Working == {"collect", "stat", "digest", "write", "check", "publish"}

Init ==
  /\ job \in Jobs
  /\ disk = job.disk
  /\ edits = 0
  /\ pc = "collect"
  /\ entries = <<>>
  /\ records = {}
  /\ zip = NoPackage
  /\ output = IF job.exists THEN "older" ELSE "none"

Stop == pc' = "failed" /\ UNCHANGED <<job, disk, edits, entries, records, zip, output>>
Pass(next) == pc' = next /\ UNCHANGED <<job, disk, edits, output>>

-----------------------------------------------------------------------------
(* collect *)
Excluded(name) ==
  \/ \E n \in 1..Len(name) : name[n] = ".git"
  \/ \E x \in job.excludes : IsPrefix(x, name)

Listed(tree, to) ==
  {pl \in DOMAIN disk :
     /\ pl[1] = tree
     /\ ~Excluded(to \o pl[2])
     /\ pl = job.output => disk[pl].kind = "symlink"}
Named(tree, to) ==
  [name \in {to \o pl[2] : pl \in Listed(tree, to)} \ {<<>>} |->
     <<tree, SubSeq(name, Len(to) + 1, Len(name))>>]
Collectable(tree, to) ==
  \/ Excluded(to) /\ to # <<>>
  \/ <<tree, <<>>>> \in DOMAIN disk /\ \A name \in DOMAIN Named(tree, to) : ~Reserved(name)

Roots == {<<"app", <<>>>>} \cup job.includes
Disjoint(roots) ==
  \A a, b \in roots : a # b => DOMAIN Named(a[1], a[2]) \cap DOMAIN Named(b[1], b[2]) = {}
Union(roots) ==
  [name \in UNION {DOMAIN Named(r[1], r[2]) : r \in roots} |->
     LET r == CHOOSE r \in roots : name \in DOMAIN Named(r[1], r[2]) IN Named(r[1], r[2])[name]]
AllCollectable(roots) == Disjoint(roots) /\ \A r \in roots : Collectable(r[1], r[2])

-----------------------------------------------------------------------------
(* PackageConfig::validate *)
ValidConfig ==
  /\ job.groups # {} => job.targets # {}
  /\ \A g \in job.groups :
       /\ DOMAIN job.variants[g] \subseteq job.targets
       /\ \A t \in DOMAIN job.variants[g] :
            \A r \in job.variants[g][t] : r[2] # <<>> /\ (Len(r[2]) > 1 => ~Reserved(r[2]))

GroupsOf(name) == {g \in job.groups : name \in job.files[g]}

Payloads == UNION {{<<g, t>> : t \in DOMAIN job.variants[g]} : g \in job.groups}
Payload(g, t) == <<".dnr", "payloads", g \o "_" \o t>>
Variant(g, t) == Union(job.variants[g][t])

(* prepare, first part: every entry with its logical path, group and
   platform. *)
Origins ==
  LET common == {[source |-> name, path |-> name, target |-> None, place |-> Union(Roots)[name],
                  group |-> IF GroupsOf(name) = {} THEN None ELSE CHOOSE g \in GroupsOf(name) : TRUE]
                   : name \in DOMAIN Union(Roots)}
      own(g, t) == {[source |-> Payload(g, t) \o name, path |-> name, target |-> t, group |-> g,
                     place |-> Variant(g, t)[name]] : name \in DOMAIN Variant(g, t)}
  IN common \cup UNION {own(v[1], v[2]) : v \in Payloads}

Collectible ==
  /\ AllCollectable(Roots)
  /\ ValidConfig
  /\ \A name \in DOMAIN Union(Roots) : Cardinality(GroupsOf(name)) <= 1
  /\ \A v \in Payloads : AllCollectable(job.variants[v[1]][v[2]])
  /\ \A a, b \in Origins : a.source = b.source => a = b

Collect ==
  /\ pc = "collect"
  /\ IF ~(Collectible /\ (job.force \/ output = "none")) THEN Stop
     ELSE /\ records' = Origins
          /\ entries' = [s \in {r.source : r \in Origins} |-> SourceOf(Origins, s).place]
          /\ Pass("stat") /\ UNCHANGED zip

-----------------------------------------------------------------------------
(* prepare, second part: what the entries are.  A link text is all there is
   to a link, and its length its size. *)
Size(node) == CASE node.kind = "file"      -> node.size
                [] node.kind = "symlink"   -> Len(node.link)
                [] node.kind = "directory" -> 0
Described(o) ==
  LET node == disk[o.place]
  IN [path |-> o.path, source |-> o.source, group |-> o.group, target |-> o.target,
      kind |-> node.kind, size |-> Size(node), link |-> node.link, exec |-> node.exec,
      sum |-> None, native |-> None]

Stat ==
  /\ pc = "stat"
  /\ IF \E o \in records :
          \/ o.place \notin DOMAIN disk
          \/ disk[o.place].kind = "symlink" /\ ResolveLink(o.path, disk[o.place].link) = NoPath
     THEN Stop
     ELSE records' = {Described(o) : o \in records} /\ Pass("digest") /\ UNCHANGED <<entries, zip>>

(* prepare, third part: the files are hashed, the declarations compared with
   what the files look like, and the groups with their declarations. *)
Roles(r) == IF r.group = None THEN {} ELSE {d[1] : d \in {d \in job.native[r.group] : d[2] = r.path}}

Platforms(r) == IF r.target = None THEN job.targets ELSE {r.target}
Declared(r, code) ==
  /\ Cardinality(Roles(r)) <= 1
  /\ code \notin {"no", "script"} => Roles(r) # {}
  /\ code \notin {"no", "script", "any"} /\ Roles(r) # {} => Platforms(r) \subseteq {code}

(* Opening a place reads through a link. *)
Readable(place) == place \in DOMAIN disk /\ disk[place].kind # "directory"
Bytes(place)    == IF disk[place].kind = "file" THEN disk[place].data ELSE "elsewhere"
Code(place)     == IF disk[place].kind = "file" THEN disk[place].code ELSE "no"

Digestible(r) ==
  r.kind = "file" => Readable(entries[r.source]) /\ Declared(r, Code(entries[r.source]))
Digested(r) ==
  IF r.kind # "file" THEN r
  ELSE [r EXCEPT !.sum = Bytes(entries[r.source]),
                 !.native = IF Roles(r) = {} THEN None ELSE CHOOSE role \in Roles(r) : TRUE,
                 !.exec = @ \/ "executable" \in Roles(r)]

GroupIsDeclared(recs, g) ==
  /\ HasNative(recs, g)
  /\ \A d \in job.native[g] : \E r \in recs : r.group = g /\ r.path = d[2] /\ r.native # None

(* pack_with_desktop: short names for the payloads.  The number in the code's
   names only makes them unique; here what is numbered stands for it, as one
   part of the name.  A group that has links keeps its layout, without the
   prefix shared by its paths and the paths its links name. *)
Linked(recs)   == {r.group : r \in {r \in recs : r.kind = "symlink"}}
Parts(p)       == IF p = Root THEN <<>> ELSE p
GroupRoot(recs, g) ==
  LongestCommonPrefix(UNION {{r.path} \cup
      (IF r.kind = "symlink" THEN {Parts(ResolveLink(r.path, r.link))} ELSE {})
    : r \in {r \in recs : r.group = g}})
SlipShort(recs, r) ==                     \* one container for all platforms
  IF r.target = None THEN r.source
  ELSE <<".dnr", "p", <<r.group>>>> \o SubSeq(r.path, Len(GroupRoot(recs, r.group)) + 1, Len(r.path))
Short(recs, r) ==
  IF r.target = None THEN r.source
  ELSE IF r.group \notin Linked(recs) THEN <<".dnr", "p", <<r.source>>>>
  ELSE <<".dnr", "p", <<r.group, r.target>>>>
         \o SubSeq(r.path, Len(GroupRoot(recs, r.group)) + 1, Len(r.path))

(* The entrypoint must be a file on the disk, possibly through links. *)
IsFile(place) ==
  LET tree == [p \in {pl[2] : pl \in {pl \in DOMAIN disk : pl[1] = place[1]}} |-> disk[<<place[1], p>>]]
      end  == Follow(tree, place[2])
  IN end \in DOMAIN tree /\ tree[end].kind = "file"

Digest ==
  /\ pc = "digest"
  /\ LET recs  == {Digested(r) : r \in records}
         short == {[r EXCEPT !.source = Short(recs, r)] : r \in recs}
         from  == [r \in short |-> (CHOOSE q \in recs : [q EXCEPT !.source = Short(recs, q)] = r).source]
     IN IF \/ \E r \in records : ~Digestible(r)
           \/ \E g \in job.groups : ~GroupIsDeclared(recs, g)
           \/ job.entry \notin DOMAIN entries
           \/ ~IsFile(entries[job.entry])
        THEN Stop
        ELSE /\ records' = short
             /\ entries' = [s \in {r.source : r \in short} |-> entries[from[SourceOf(short, s)]]]
             /\ Pass("write") /\ UNCHANGED zip

-----------------------------------------------------------------------------
(* The entries are read again and copied; copy_checked compares the bytes of
   a file with the sum the index has for its source, if it has one. *)
SlipUnchanged(r, node) == TRUE            \* what was hashed is what is copied
Unchanged(r, node) == node.kind = "file" /\ r.kind # "directory" => node.data = r.sum
Writable(s) ==
  LET node == disk[entries[s]]
  IN /\ entries[s] \in DOMAIN disk
     /\ node.kind = "symlink" => ResolveLink(s, node.link) # NoPath
     /\ Unchanged(SourceOf(records, s), node)
Raw(node) == [kind |-> node.kind, size |-> Size(node), link |-> node.link, data |-> node.data]

Write ==
  /\ pc = "write"
  /\ IF \E s \in DOMAIN entries : ~Writable(s) THEN Stop
     ELSE /\ zip' = [targets |-> job.targets, groups |-> job.groups, entry |-> job.entry,
                     records |-> records,
                     archive |-> [s \in DOMAIN entries |-> Raw(disk[entries[s]])]]
          /\ Pass("check") /\ UNCHANGED <<entries, records>>

(* The file that was written is opened as the host would. *)
HostTarget == IF Host \in job.targets THEN Host ELSE "elsewhere"
Sound ==
  LET all == Entries(zip, HostTarget)
      end == Resolve(zip, HostTarget, job.entry)
  IN /\ Opens(zip, HostTarget)
     /\ end \in DOMAIN all /\ all[end].kind = "file"
     /\ \A p \in Links(all) : Resolve(zip, HostTarget, p) # NoPath
Check ==
  /\ pc = "check"
  /\ IF Sound THEN Pass("publish") /\ UNCHANGED <<entries, records, zip>> ELSE Stop

SlipMayReplace == TRUE                    \* it was checked at the start
MayReplace == job.force \/ output = "none"
Publish ==
  /\ pc = "publish"
  /\ IF MayReplace THEN /\ output' = "packed" /\ pc' = "done"
                        /\ UNCHANGED <<job, disk, edits, entries, records, zip>>
     ELSE Stop

-----------------------------------------------------------------------------
(* The world meanwhile: somebody changes, adds or removes a leaf of the disk,
   or publishes another package at the output path. *)
Leaf(place) == ~\E pl \in DOMAIN disk : pl[1] = place[1] /\ IsStrictPrefix(place[2], pl[2])
Edit(place) ==
  /\ job.busy /\ pc \in Working \ {"collect"} /\ edits < MaxEdits
  /\ Leaf(place)
  /\ \/ \E node \in Nodes : disk' = [disk EXCEPT ![place] = node]
     \/ disk' = [pl \in DOMAIN disk \ {place} |-> disk[pl]]
  /\ edits' = edits + 1
  /\ UNCHANGED <<job, pc, entries, records, zip, output>>

Rival ==
  /\ job.busy /\ pc \in Working /\ output = "none"
  /\ output' = "other"
  /\ UNCHANGED <<job, disk, edits, pc, entries, records, zip>>

Next ==
  \/ Collect \/ Stat \/ Digest \/ Write \/ Check \/ Publish
  \/ \E place \in DOMAIN disk : Edit(place)
  \/ Rival

Spec == Init /\ [][Next]_vars

-----------------------------------------------------------------------------
TypeOK ==
  /\ pc \in Working \cup {"done", "failed"}
  /\ edits \in 0..MaxEdits
  /\ output \in {"none", "older", "other", "packed"}
  /\ DOMAIN entries = {r.source : r \in records}
  /\ \A r, s \in records : r.source = s.source => r = s

Published == pc = "done"

(* What cannot be executed. *)
Inert(tree) ==
  {p \in DOMAIN tree : tree[p].kind = "directory" \/ (tree[p].kind = "file" /\ ~tree[p].exec)}

(* What r, reached as p, is as a native file, a module and a command. *)
FoundInGroup(t, tree, p, r) ==
  r.kind = "file" =>
    /\ ModulePath(zip, t, p) = IF r.group = None THEN Absent ELSE InGroup(r)
    /\ r.native # None =>
         /\ NativePath(zip, t, p, r.native) = InGroup(r)
         /\ Layout(zip, t, r.group)[r.path] = r
    /\ r.native = "executable" =>
         \A q \in Inert(tree) : Command(zip, t, <<q, p>>, TRUE, {p, q}) = InGroup(r)

(* Paths that may be asked for. *)
Asked ==
  LET paths == {r.path : r \in zip.records}
  IN paths \cup {Append(p, Last(q)) : p, q \in paths}

(* Whatever changed while it was packed, a published package can be used on
   every platform it is for, not only on the one that packed it.  Every file
   in the platform's tree reads as the bytes that were hashed, every link
   leads to something in the tree, and what is declared native is found, under
   its name and under every link to it, in the tree of its group.  Something
   that cannot be executed does not hide it from a search for a command. *)
LeadsTo(t, tree, p, end) ==
  /\ tree[p].kind = "symlink" => end \in DOMAIN tree
  /\ FoundInGroup(t, tree, p, tree[end])
Usable(t, tree) ==
  \A p \in DOMAIN tree :
    /\ tree[p].kind = "file" => Read(zip, t, p) = tree[p].sum
    /\ LeadsTo(t, tree, p, Resolve(zip, t, p))
EveryPlatformReads ==
  Published => \A t \in IF zip.targets = {} THEN {HostTarget} ELSE zip.targets :
                 Usable(t, Entries(zip, t))

(* A path that some platform has is, on every platform, either in the tree
   or known to be unavailable, so that no read of it falls through to a file
   of the same name on the disk.  The three lookups of the host agree on it:
   the file system, the reader of configuration files and the search for a
   command take a file of the disk only where the package has nothing.  They
   differ in one thing: behind a link that leads to nothing more, the file
   system does not look on the disk and the other two do. *)
Agreed(t, tree, p, has) ==
  /\ DnrContains(zip, t, tree, p) = (has \/ LinksOn(tree, p) # {})
  /\ ReadText(zip, t, p, "disk") = "disk" <=> ~has
  /\ Command(zip, t, <<p>>, TRUE, {p}) = OnDisk <=> ~has
Served(t, tree, mounted) ==
  /\ \A r \in zip.records : (r.path \in DOMAIN tree) # IsUnavailable(zip, t, r.path)
  /\ mounted = tree
  /\ \A p \in Asked : Agreed(t, mounted, p, Read(zip, t, p) # None)
ServedOrUnavailable ==
  Published => \A t \in zip.targets : Served(t, Entries(zip, t), Mounted(zip, t))

(* A package that appeared at the output while the packer ran stays, unless
   the packer was told to replace what is there. *)
NotClobbered == [][~job.force /\ output # "none" => output' = output]_output

(* What a native loader sees of a group: its members and no other file.  The
   documentation wants the links of a group to keep working there. *)
GroupLinksWork ==
  Published => \A t \in zip.targets, g \in zip.groups :
    LET tree == Layout(zip, t, g)
    IN  \A p \in Links(tree) : Exists(tree, Follow(tree, p))
=============================================================================
