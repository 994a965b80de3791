-------------------------- MODULE PackagingProofs ---------------------------
(* What Packaging keeps for every set of jobs, every edit of the disk and every
   limit on links.  The recursions over the hops of a walk and the parts of a
   link are unfolded by induction on sets of numbers. *)
EXTENDS Packaging, WellFoundedInduction, TLAPS

(* The alphabet of paths and links. *)
Text  == STRING \cup {Up, ""}
Paths == Seq(Text) \ {<<>>}

LEMMA SeqOfMore ==
  ASSUME NEW S, NEW T, S \subseteq T PROVE Seq(S) \subseteq Seq(T)
  OBVIOUS

LEMMA Texts == Seq(STRING) \subseteq Seq(Text) /\ Up \in Text /\ "" \in Text
  <1>1. STRING \subseteq Text /\ Up \in Text /\ "" \in Text
    BY Zenon DEF Text
  <1> QED BY <1>1, SeqOfMore, Zenon

LEMMA NatSetInduction ==
  ASSUME NEW T \in SUBSET Nat, 0 \in T, \A n \in T : n + 1 \in T
  PROVE  T = Nat
  <1> DEFINE R == OpToRel(<, Nat)
             U == Nat \ T
  <1> SUFFICES ASSUME U # {} PROVE FALSE
    OBVIOUS
  <1>1. PICK x \in U : \A y \in U : <<y, x>> \notin R
    <2>1. IsWellFoundedOn(R, Nat) /\ U \subseteq Nat
      BY NatLessThanWellFounded
    <2> HIDE DEF R, U
    <2> QED BY <2>1, WFMin
  <1>2. x - 1 \in U
    OBVIOUS
  <1>3. <<x - 1, x>> \in R
    BY <1>2 DEF OpToRel
  <1> QED BY <1>1, <1>2, <1>3

LEMMA MinIn ==
  ASSUME NEW S \in SUBSET Nat, S # {}
  PROVE  Min(S) \in S /\ \A n \in S : Min(S) <= n
  <1> DEFINE R == OpToRel(<, Nat)
  <1>1. PICK x \in S : \A y \in S : <<y, x>> \notin R
    <2>1. IsWellFoundedOn(R, Nat)
      BY NatLessThanWellFounded
    <2> HIDE DEF R
    <2> QED BY <2>1, WFMin
  <1>2. \A y \in S : x <= y
    <2> SUFFICES ASSUME NEW y \in S, ~(x <= y) PROVE FALSE
      OBVIOUS
    <2>1. <<y, x>> \in R
      BY DEF OpToRel
    <2> QED BY <1>1, <2>1
  <1> QED BY <1>1, <1>2 DEF Min

-----------------------------------------------------------------------------
(* A link of a path names a path. *)
LEMMA OnePart == ASSUME NEW part \in Text PROVE <<part>> \in Paths
  <1>1. <<part>> \in Seq(Text) /\ Len(<<part>>) = 1
    OBVIOUS
  <1> QED BY <1>1 DEF Paths

LEMMA SpecialPaths == NoPath \in Paths /\ Root \in Paths
  BY Texts, OnePart DEF NoPath, Root

LEMMA FrontType == ASSUME NEW p \in Paths PROVE Front(p) \in Seq(Text)
  BY DEF Paths, Front

LEMMA EnterType ==
  ASSUME NEW at \in Seq(Text), NEW part \in Text
  PROVE  Enter(at, part) \in Seq(Text)
  <1>1. NoPath \in Seq(Text) /\ Append(at, part) \in Seq(Text)
    BY SpecialPaths DEF Paths
  <1>2. at # <<>> => Front(at) \in Seq(Text)
    BY FrontType DEF Paths
  <1> QED BY <1>1, <1>2, Zenon DEF Enter

(* What the recursion of ResolveLink is a solution of, and that it has one. *)
Way(f, name, link, h) ==
  f = [n \in 0..h |-> IF n = 0 THEN Front(name) ELSE Enter(f[n-1], link[n])]

LEMMA WayType ==
  ASSUME NEW name \in Paths, NEW link \in Seq(Text), NEW h \in Nat, h <= Len(link),
         NEW f, Way(f, name, link, h)
  PROVE  \A n \in 0..h : f[n] \in Seq(Text)
  <1> DEFINE T == {n \in Nat : n <= h => f[n] \in Seq(Text)}
  <1>1. f[0] = Front(name) /\ \A n \in 1..h : f[n] = Enter(f[n-1], link[n])
    BY DEF Way
  <1>2. 0 \in T
    BY <1>1, FrontType
  <1>3. ASSUME NEW n \in T PROVE n + 1 \in T
    <2> SUFFICES ASSUME n + 1 <= h PROVE f[n + 1] \in Seq(Text)
      OBVIOUS
    <2>1. f[n + 1] = Enter(f[n], link[n + 1]) /\ f[n] \in Seq(Text) /\ link[n + 1] \in Text
      BY <1>1
    <2> QED BY <2>1, EnterType
  <1>4. T = Nat
    <2>1. T \in SUBSET Nat
      OBVIOUS
    <2> HIDE DEF T
    <2> QED BY <1>2, <1>3, <2>1, NatSetInduction
  <1> QED BY <1>4

LEMMA WayExists ==
  ASSUME NEW name, NEW link, NEW h \in Nat
  PROVE  \E f : Way(f, name, link, h)
  <1> DEFINE T == {m \in Nat : \E f : Way(f, name, link, m)}
  <1>1. 0 \in T
    <2> DEFINE f == [n \in 0..0 |-> Front(name)]
    <2>1. Way(f, name, link, 0)
      BY DEF Way
    <2> HIDE DEF f
    <2> QED BY <2>1
  <1>2. ASSUME NEW m \in T PROVE m + 1 \in T
    <2>1. PICK f : Way(f, name, link, m)
      OBVIOUS
    <2> DEFINE g == [n \in 0..(m + 1) |-> IF n = 0 THEN Front(name) ELSE Enter(f[n-1], link[n])]
    <2>2. ASSUME NEW n \in 0..m PROVE g[n] = f[n]
      <3>1. f[n] = IF n = 0 THEN Front(name) ELSE Enter(f[n-1], link[n])
        BY <2>1 DEF Way
      <3> QED BY <3>1
    <2>3. ASSUME NEW n \in 0..(m + 1)
          PROVE  g[n] = IF n = 0 THEN Front(name) ELSE Enter(g[n-1], link[n])
      <3>1. n # 0 => g[n] = Enter(f[n-1], link[n]) /\ g[n-1] = f[n-1]
        BY <2>2
      <3>2. n # 0 => g[n] = Enter(g[n-1], link[n])
        BY <3>1
      <3> QED BY <3>2
    <2>4. Way(g, name, link, m + 1)
      BY <2>3 DEF Way
    <2> HIDE DEF g
    <2> QED BY <2>4
  <1>3. T = Nat
    <2>1. T \in SUBSET Nat
      OBVIOUS
    <2> HIDE DEF T
    <2> QED BY <1>1, <1>2, <2>1, NatSetInduction
  <1> QED BY <1>3

LEMMA ResolveLinkType ==
  ASSUME NEW name \in Paths, NEW link \in Seq(Text)
  PROVE  ResolveLink(name, link) \in Paths
  <1> DEFINE at == CHOOSE f : Way(f, name, link, Len(link))
  <1>1. Len(link) \in Nat /\ Len(link) <= Len(link)
    OBVIOUS
  <1>2. Way(at, name, link, Len(link))
    BY <1>1, WayExists
  <1>3. ResolveLink(name, link) = IF at[Len(link)] = <<>> THEN Root ELSE at[Len(link)]
    BY DEF ResolveLink, Way
  <1> HIDE DEF at
  <1>4. at[Len(link)] \in Seq(Text)
    BY <1>1, <1>2, WayType
  <1> QED BY <1>3, <1>4, SpecialPaths DEF Paths
-----------------------------------------------------------------------------
(* Walks.  `Hops' is what the recursion of Walk is a solution of. *)
Hops(f, view, p, h) ==
  f = [n \in 0..h |-> IF n = 0 THEN p ELSE Hop(view, f[n-1])]

LEMMA HopsExist ==
  ASSUME NEW view, NEW p, NEW h \in Nat
  PROVE  \E f : Hops(f, view, p, h)
  <1> DEFINE T == {m \in Nat : \E f : Hops(f, view, p, m)}
  <1>1. 0 \in T
    <2> DEFINE f == [n \in 0..0 |-> p]
    <2>1. Hops(f, view, p, 0)
      BY DEF Hops
    <2> HIDE DEF f
    <2> QED BY <2>1
  <1>2. ASSUME NEW m \in T PROVE m + 1 \in T
    <2>1. PICK f : Hops(f, view, p, m)
      OBVIOUS
    <2> DEFINE g == [n \in 0..(m + 1) |-> IF n = 0 THEN p ELSE Hop(view, f[n-1])]
    <2>2. ASSUME NEW n \in 0..m PROVE g[n] = f[n]
      <3>1. f[n] = IF n = 0 THEN p ELSE Hop(view, f[n-1])
        BY <2>1 DEF Hops
      <3> QED BY <3>1
    <2>3. ASSUME NEW n \in 0..(m + 1)
          PROVE  g[n] = IF n = 0 THEN p ELSE Hop(view, g[n-1])
      <3>1. n # 0 => g[n] = Hop(view, f[n-1])
        OBVIOUS
      <3>2. g[0] = p
        OBVIOUS
      <3> HIDE DEF g
      <3>3. n # 0 => g[n-1] = f[n-1]
        BY <2>2
      <3> QED BY <3>1, <3>2, <3>3
    <2>4. Hops(g, view, p, m + 1)
      BY <2>3 DEF Hops
    <2> HIDE DEF g
    <2> QED BY <2>4
  <1>3. T = Nat
    <2>1. T \in SUBSET Nat
      OBVIOUS
    <2> HIDE DEF T
    <2> QED BY <1>1, <1>2, <2>1, NatSetInduction
  <1> QED BY <1>3

LEMMA HopsAgree ==
  ASSUME NEW view, NEW p, NEW h \in Nat, NEW k \in Nat, h <= k,
         NEW f, Hops(f, view, p, h), NEW g, Hops(g, view, p, k)
  PROVE  f[h] = g[h]
  <1> DEFINE T == {n \in Nat : n <= h => f[n] = g[n]}
  <1>1. /\ f[0] = p /\ \A n \in 1..h : f[n] = Hop(view, f[n-1])
        /\ g[0] = p /\ \A n \in 1..k : g[n] = Hop(view, g[n-1])
    BY DEF Hops
  <1>2. 0 \in T
    BY <1>1
  <1>3. ASSUME NEW n \in T PROVE n + 1 \in T
    <2> SUFFICES ASSUME n + 1 <= h PROVE f[n + 1] = g[n + 1]
      OBVIOUS
    <2>1. f[n] = g[n] /\ f[n + 1] = Hop(view, f[n]) /\ g[n + 1] = Hop(view, g[n])
      BY <1>1
    <2> QED BY <2>1
  <1>4. T = Nat
    <2>1. T \in SUBSET Nat
      OBVIOUS
    <2> HIDE DEF T
    <2> QED BY <1>2, <1>3, <2>1, NatSetInduction
  <1> QED BY <1>4

LEMMA WalkHops ==
  ASSUME NEW view, NEW p, NEW h \in Nat
  PROVE  \E f : Hops(f, view, p, h) /\ Walk(view, p, h) = f[h]
  <1> DEFINE at == CHOOSE f : Hops(f, view, p, h)
  <1>1. Hops(at, view, p, h)
    BY HopsExist
  <1>2. Walk(view, p, h) = at[h]
    BY DEF Walk, Hops
  <1> QED BY <1>1, <1>2

LEMMA WalkStep ==
  ASSUME NEW view, NEW p
  PROVE  /\ Walk(view, p, 0) = p
         /\ \A h \in Nat : Walk(view, p, h + 1) = Hop(view, Walk(view, p, h))
  <1>1. Walk(view, p, 0) = p
    BY WalkHops DEF Hops
  <1>2. ASSUME NEW h \in Nat
        PROVE  Walk(view, p, h + 1) = Hop(view, Walk(view, p, h))
    <2>1. PICK f : Hops(f, view, p, h) /\ Walk(view, p, h) = f[h]
      BY WalkHops
    <2>2. PICK g : Hops(g, view, p, h + 1) /\ Walk(view, p, h + 1) = g[h + 1]
      BY WalkHops
    <2>3. f[h] = g[h]
      BY <2>1, <2>2, HopsAgree
    <2>4. g[h + 1] = Hop(view, g[h])
      BY <2>2 DEF Hops
    <2> QED BY <2>1, <2>2, <2>3, <2>4
  <1> QED BY <1>1, <1>2

(* What is in X and stays there under one hop stays there for the walk. *)
LEMMA WalkStays ==
  ASSUME NEW view, NEW X, NEW p \in X, \A q \in X : Hop(view, q) \in X
  PROVE  \A h \in Nat : Walk(view, p, h) \in X
  <1> DEFINE T == {h \in Nat : Walk(view, p, h) \in X}
  <1>1. 0 \in T
    BY WalkStep
  <1>2. ASSUME NEW h \in T PROVE h + 1 \in T
    <2>1. Walk(view, p, h + 1) = Hop(view, Walk(view, p, h))
      BY WalkStep
    <2> QED BY <2>1
  <1>3. T \in SUBSET Nat
    OBVIOUS
  <1> HIDE DEF T
  <1>4. T = Nat
    BY <1>1, <1>2, <1>3, NatSetInduction
  <1> QED BY <1>4 DEF T

(* Paths in a tree whose links name paths. *)
Linkable(view) ==
  \A p \in DOMAIN view : p \in Paths /\ (p \in Links(view) => view[p].link \in Seq(Text))

LEMMA FirstLink ==
  ASSUME NEW view, NEW p \in Paths, LinksOn(view, p) # {}
  PROVE  /\ Min(LinksOn(view, p)) \in LinksOn(view, p)
         /\ Min(LinksOn(view, p)) \in 1..Len(p)
         /\ \A n \in LinksOn(view, p) : Min(LinksOn(view, p)) <= n
  <1>1. LinksOn(view, p) \in SUBSET Nat /\ LinksOn(view, p) \subseteq 1..Len(p)
    BY DEF LinksOn, Paths
  <1> QED BY <1>1, MinIn

LEMMA HopType ==
  ASSUME NEW view, Linkable(view), NEW p \in Paths
  PROVE  Hop(view, p) \in Paths
  <1>1. CASE LinksOn(view, p) = {}
    BY <1>1 DEF Hop
  <1>2. ASSUME NEW n \in LinksOn(view, p) PROVE Past(view, p, n) \in Paths
    <2> DEFINE link == SubSeq(p, 1, n)
               dest == ResolveLink(link, view[link].link)
    <2>1. n \in 1..Len(p) /\ link \in Links(view) /\ link \in DOMAIN view
      BY <1>2 DEF LinksOn, Links
    <2>2. dest \in Paths
      BY <2>1, ResolveLinkType DEF Linkable
    <2>3. Past(view, p, n) = IF dest = NoPath THEN NoPath ELSE dest \o SubSeq(p, n + 1, Len(p))
      BY DEF Past, Replaced
    <2> HIDE DEF dest
    <2>4. dest \o SubSeq(p, n + 1, Len(p)) \in Paths
      BY <2>1, <2>2 DEF Paths
    <2> QED BY <2>3, <2>4, SpecialPaths
  <1> QED BY <1>1, <1>2, FirstLink DEF Hop

LEMMA HopsLeft == MaxHops - 1 \in Nat
  BY MaxHopsAssumption DEF MaxHopsAssumption

LEMMA FollowType ==
  ASSUME NEW view, Linkable(view), NEW p \in Paths
  PROVE  /\ Follow(view, p) \in Paths
         /\ Follow(view, p) # NoPath => LinksOn(view, Follow(view, p)) = {}
  <1>1. Walk(view, p, MaxHops - 1) \in Paths
    BY HopType, WalkStays, HopsLeft
  <1> QED BY <1>1, SpecialPaths DEF Follow, AtRest

(* Without links a path leads to itself. *)
LEMMA FollowAtRest ==
  ASSUME NEW view, NEW p, LinksOn(view, p) = {}
  PROVE  Follow(view, p) = p
  <1>1. \A q \in {p} : Hop(view, q) \in {p}
    BY DEF Hop
  <1>2. Walk(view, p, MaxHops - 1) \in {p}
    BY <1>1, WalkStays, HopsLeft
  <1> QED BY <1>2 DEF Follow, AtRest

(* Trees with the same links lead a path to the same end. *)
SameLinks(v, e) == Links(v) = Links(e) /\ \A p \in Links(v) : v[p] = e[p]

LEMMA HopSame ==
  ASSUME NEW v, NEW e, SameLinks(v, e), NEW p \in Paths
  PROVE  Hop(v, p) = Hop(e, p) /\ LinksOn(v, p) = LinksOn(e, p)
  <1>1. LinksOn(v, p) = LinksOn(e, p)
    BY DEF LinksOn, SameLinks
  <1>2. ASSUME NEW n \in LinksOn(v, p) PROVE Past(v, p, n) = Past(e, p, n)
    <2>1. v[SubSeq(p, 1, n)] = e[SubSeq(p, 1, n)]
      BY <1>2 DEF LinksOn, SameLinks
    <2> QED BY <2>1 DEF Past
  <1>3. CASE LinksOn(v, p) = {}
    BY <1>1, <1>3 DEF Hop
  <1>4. CASE LinksOn(v, p) # {}
    <2> DEFINE n == Min(LinksOn(v, p))
    <2>1. n \in LinksOn(v, p) /\ n = Min(LinksOn(e, p))
      BY <1>1, <1>4, FirstLink, Zenon
    <2>2. Past(v, p, n) = Past(e, p, n)
      BY <1>2, <2>1
    <2> QED BY <1>1, <1>4, <2>1, <2>2, Zenon DEF Hop
  <1> QED BY <1>1, <1>3, <1>4

LEMMA FollowSame ==
  ASSUME NEW v, NEW e, SameLinks(v, e), Linkable(v), NEW p \in Paths
  PROVE  Follow(v, p) = Follow(e, p)
  <1> DEFINE T == {h \in Nat : Walk(v, p, h) = Walk(e, p, h)}
  <1>0. \A h \in Nat : Walk(v, p, h) \in Paths
    BY HopType, WalkStays
  <1>1. 0 \in T
    BY WalkStep
  <1>2. ASSUME NEW h \in T PROVE h + 1 \in T
    <2>1. Hop(v, Walk(v, p, h)) = Hop(e, Walk(v, p, h))
      BY <1>0, HopSame
    <2>2. Walk(v, p, h + 1) = Hop(v, Walk(v, p, h))
      BY WalkStep
    <2>3. Walk(e, p, h + 1) = Hop(e, Walk(e, p, h))
      BY WalkStep
    <2> QED BY <2>1, <2>2, <2>3
  <1>3. T \in SUBSET Nat
    OBVIOUS
  <1>4. T = Nat
    <2> HIDE DEF T
    <2> QED BY <1>1, <1>2, <1>3, NatSetInduction
  <1>5. Walk(v, p, MaxHops - 1) = Walk(e, p, MaxHops - 1)
    BY <1>4, HopsLeft
  <1>6. LinksOn(v, Walk(v, p, MaxHops - 1)) = LinksOn(e, Walk(v, p, MaxHops - 1))
    BY <1>0, HopsLeft, HopSame
  <1> QED BY <1>5, <1>6 DEF Follow, AtRest
-----------------------------------------------------------------------------
(* The tree of a platform t of a package that is fit for it: its records are
   what the packer makes them, its index and its view were found valid, and
   the archive holds the bytes that were hashed. *)
NoUp(p) == p \in Paths /\ \A n \in 1..Len(p) : p[n] # Up

Recorded(r) ==
  /\ NoUp(r.path)
  /\ r.kind \in {"file", "directory", "symlink"}
  /\ r.link \in Seq(Text)
  /\ r.native # None => r.native \in Usages

Stored(pkg) ==
  \A r \in pkg.records :
    r.kind = "file" /\ pkg.archive[r.source].kind = "file" =>
      pkg.archive[r.source].data = r.sum /\ r.sum \notin {None, "disk"}

Fit(pkg, t) ==
  /\ \A r \in pkg.records : Recorded(r)
  /\ Stored(pkg)
  /\ Indexed(pkg)
  /\ Valid(pkg.records, t)

LEMMA UpIsNoPath == ASSUME NEW p, NoUp(p) PROVE p # NoPath
  <1>1. Len(NoPath) = 1 /\ NoPath[1] = Up
    BY DEF NoPath
  <1> QED BY <1>1 DEF NoUp

LEMMA SubPath ==
  ASSUME NEW p \in Paths, NEW n \in 1..Len(p)
  PROVE  /\ SubSeq(p, 1, n) \in Paths
         /\ Len(SubSeq(p, 1, n)) = n
         /\ \A k \in 1..n : SubSeq(p, 1, n)[k] = p[k]
         /\ \A k \in 1..n : SubSeq(SubSeq(p, 1, n), 1, k) = SubSeq(p, 1, k)
         /\ SubSeq(p, 1, Len(p)) = p
  BY DEF Paths

LEMMA SeenShape ==
  ASSUME NEW pkg, NEW t, Fit(pkg, t)
  PROVE  /\ DOMAIN Seen(pkg, t) = {r.path : r \in Selected(pkg.records, t)}
         /\ \A p \in DOMAIN Seen(pkg, t) :
              /\ Seen(pkg, t)[p] \in Selected(pkg.records, t)
              /\ Seen(pkg, t)[p] \in pkg.records
              /\ Seen(pkg, t)[p].path = p
              /\ Recorded(Seen(pkg, t)[p])
              /\ NoUp(p)
  <1> DEFINE S == Selected(pkg.records, t)
  <1>1. Seen(pkg, t) = [p \in {r.path : r \in S} |-> CHOOSE r \in S : r.path = p]
    BY DEF Seen, View
  <1>2. ASSUME NEW p \in {r.path : r \in S}
        PROVE  Seen(pkg, t)[p] \in S /\ Seen(pkg, t)[p].path = p
    BY <1>1
  <1>3. \A r \in S : r \in pkg.records /\ Recorded(r)
    BY DEF Selected, Fit
  <1> HIDE DEF S
  <1>4. DOMAIN Seen(pkg, t) = {r.path : r \in S}
    BY <1>1
  <1> QED BY <1>2, <1>3, <1>4 DEF S, Recorded

(* Only directories may be recorded twice. *)
LEMMA SeenUnique ==
  ASSUME NEW pkg, NEW t, Fit(pkg, t), NEW r \in Selected(pkg.records, t),
         NEW s \in Selected(pkg.records, t), r.path = s.path, r.kind # "directory"
  PROVE  r = s
  <1>1. Consistent(Selected(pkg.records, t))
    BY DEF Fit, Valid
  <1> QED BY <1>1 DEF Consistent

LEMMA EntriesShape ==
  ASSUME NEW pkg, NEW t, Fit(pkg, t)
  PROVE  /\ DOMAIN Entries(pkg, t) = DOMAIN Seen(pkg, t) \cup Parents(DOMAIN Seen(pkg, t))
         /\ \A p \in DOMAIN Seen(pkg, t) : Entries(pkg, t)[p] = Seen(pkg, t)[p]
         /\ \A p \in DOMAIN Entries(pkg, t) :
              p \in DOMAIN Seen(pkg, t) \/ Entries(pkg, t)[p].kind = "directory"
  <1> DEFINE v == Seen(pkg, t)
             D == DOMAIN v \cup Synthesized(v)
  <1>1. Entries(pkg, t) = [p \in D |-> IF p \in DOMAIN v THEN v[p] ELSE Directory]
    BY DEF Entries, Seen
  <1>2. D = DOMAIN v \cup Parents(DOMAIN v)
    BY DEF Synthesized
  <1>3. Directory.kind = "directory"
    BY DEF Directory
  <1> HIDE DEF v, D
  <1>4. DOMAIN Entries(pkg, t) = D
    BY <1>1
  <1>5. \A p \in DOMAIN v : Entries(pkg, t)[p] = v[p]
    BY <1>1, <1>2
  <1>6. \A p \in D : p \in DOMAIN v \/ Entries(pkg, t)[p].kind = "directory"
    BY <1>1, <1>3
  <1> QED BY <1>2, <1>4, <1>5, <1>6 DEF v

LEMMA ParentsAre ==
  ASSUME NEW D, NEW p
  PROVE  p \in Parents(D) <=> \E q \in D : \E n \in 1..Len(q)-1 : p = SubSeq(q, 1, n)
  BY DEF Parents

(* Everything that an entry is in is an entry and a directory. *)
LEMMA EntriesAreNested ==
  ASSUME NEW pkg, NEW t, Fit(pkg, t), NEW p \in DOMAIN Entries(pkg, t)
  PROVE  /\ NoUp(p)
         /\ \A n \in 1..Len(p)-1 :
              /\ SubSeq(p, 1, n) \in DOMAIN Entries(pkg, t)
              /\ Entries(pkg, t)[SubSeq(p, 1, n)].kind = "directory"
  <1> DEFINE v == Seen(pkg, t)
             e == Entries(pkg, t)
  <1>1. \E q \in DOMAIN v : \E k \in 1..Len(q) : p = SubSeq(q, 1, k)
    <2>1. CASE p \in DOMAIN v
      <3>1. p \in Paths
        BY <2>1, SeenShape DEF NoUp
      <3>2. p = SubSeq(p, 1, Len(p)) /\ Len(p) \in 1..Len(p)
        BY <3>1 DEF Paths
      <3> QED BY <2>1, <3>2
    <2>2. CASE p \in Parents(DOMAIN v)
      <3>1. PICK q \in DOMAIN v : \E n \in 1..Len(q)-1 : p = SubSeq(q, 1, n)
        BY <2>2, ParentsAre
      <3>2. q \in Paths
        BY <3>1, SeenShape DEF NoUp
      <3>3. 1..Len(q)-1 \subseteq 1..Len(q)
        BY <3>2 DEF Paths
      <3> QED BY <3>1, <3>3
    <2> QED BY <2>1, <2>2, EntriesShape
  <1>2. PICK q \in DOMAIN v : \E k \in 1..Len(q) : p = SubSeq(q, 1, k)
    BY <1>1
  <1>3. PICK k \in 1..Len(q) : p = SubSeq(q, 1, k)
    BY <1>2
  <1>4. NoUp(q) /\ q \in Paths
    BY <1>2, SeenShape DEF NoUp
  <1>5. NoUp(p) /\ Len(p) = k
    BY <1>3, <1>4, SubPath DEF NoUp
  <1>6. ASSUME NEW n \in 1..Len(p)-1
        PROVE  SubSeq(p, 1, n) \in DOMAIN e /\ e[SubSeq(p, 1, n)].kind = "directory"
    <2>1. n \in 1..Len(q)-1 /\ n \in 1..k
      BY <1>3, <1>4, <1>5, <1>6 DEF Paths
    <2>2. SubSeq(p, 1, n) = SubSeq(q, 1, n)
      BY <1>3, <1>4, <2>1, SubPath
    <2>3. SubSeq(p, 1, n) \in Parents(DOMAIN v)
      BY <1>2, <2>1, <2>2, ParentsAre
    <2>4. NoFileInside(v)
      BY DEF Fit, Valid, Seen
    <2>5. SubSeq(p, 1, n) \in DOMAIN v => v[SubSeq(p, 1, n)].kind = "directory"
      BY <2>3, <2>4 DEF NoFileInside
    <2>7. SubSeq(p, 1, n) \in DOMAIN e
      BY <2>3, EntriesShape
    <2>8. SubSeq(p, 1, n) \in DOMAIN v => e[SubSeq(p, 1, n)] = v[SubSeq(p, 1, n)]
      BY EntriesShape
    <2>9. SubSeq(p, 1, n) \in DOMAIN v \/ e[SubSeq(p, 1, n)].kind = "directory"
      BY <2>7, EntriesShape
    <2> QED BY <2>5, <2>7, <2>8, <2>9
  <1> QED BY <1>5, <1>6

LEMMA EntriesLinks ==
  ASSUME NEW pkg, NEW t, Fit(pkg, t)
  PROVE  /\ Linkable(Seen(pkg, t))
         /\ Linkable(Entries(pkg, t))
         /\ SameLinks(Seen(pkg, t), Entries(pkg, t))
  <1> DEFINE v == Seen(pkg, t)
             e == Entries(pkg, t)
  <1>1. Linkable(v)
    BY SeenShape DEF Linkable, Recorded, NoUp
  <1>2. Links(e) = Links(v) /\ \A p \in Links(v) : p \in DOMAIN v /\ e[p] = v[p]
    <2>1. DOMAIN v \subseteq DOMAIN e /\ \A p \in DOMAIN v : e[p] = v[p]
      BY EntriesShape
    <2>2. \A p \in DOMAIN e \ DOMAIN v : e[p].kind # "symlink"
      BY EntriesShape
    <2> HIDE DEF v, e
    <2>3. \A p : p \in Links(e) <=> p \in Links(v)
      BY <2>1, <2>2 DEF Links
    <2>4. Links(e) = Links(v)
      BY <2>3
    <2> QED BY <2>1, <2>4 DEF Links
  <1>3. Linkable(e)
    BY <1>1, <1>2, EntriesAreNested DEF Linkable, NoUp
  <1> QED BY <1>1, <1>2, <1>3 DEF SameLinks
-----------------------------------------------------------------------------
(* What exists in the view is an entry, and the other way round. *)
LEMMA ExistsInEntries ==
  ASSUME NEW pkg, NEW t, Fit(pkg, t), NEW p \in Paths
  PROVE  Exists(Seen(pkg, t), p) <=> p \in DOMAIN Entries(pkg, t)
  <1> DEFINE v == Seen(pkg, t)
  <1>1. \A q \in DOMAIN v : q \in Paths
    BY SeenShape DEF NoUp
  <1>2. ASSUME NEW q \in DOMAIN v
        PROVE  IsStrictPrefix(p, q) <=> \E n \in 1..Len(q)-1 : p = SubSeq(q, 1, n)
    <2>1. q \in Paths
      BY <1>1
    <2>2. ASSUME IsStrictPrefix(p, q) PROVE \E n \in 1..Len(q)-1 : p = SubSeq(q, 1, n)
      <3>1. Len(p) <= Len(q) /\ p = SubSeq(q, 1, Len(p)) /\ p # q
        BY <2>2, SubPath DEF IsStrictPrefix, IsPrefix, Paths
      <3>2. Len(p) # Len(q)
        <4>1. SubSeq(q, 1, Len(q)) = q
          BY <2>1 DEF Paths
        <4> QED BY <3>1, <4>1
      <3>3. Len(p) \in 1..Len(q)-1
        BY <2>1, <3>1, <3>2 DEF Paths
      <3> QED BY <3>1, <3>3
    <2>3. ASSUME NEW n \in 1..Len(q)-1, p = SubSeq(q, 1, n) PROVE IsStrictPrefix(p, q)
      <3>1. n \in 1..Len(q) /\ n # Len(q)
        BY <2>1 DEF Paths
      <3>2. Len(p) = n /\ SubSeq(p, 1, n) = p
        BY <2>1, <2>3, <3>1, SubPath
      <3> QED BY <2>3, <3>1, <3>2 DEF IsStrictPrefix, IsPrefix
    <2> QED BY <2>2, <2>3
  <1>3. Below(v, p) # {} <=> p \in Parents(DOMAIN v)
    <2> HIDE DEF v
    <2>1. Below(v, p) # {} <=> \E q \in DOMAIN v : IsStrictPrefix(p, q)
      BY DEF Below
    <2> QED BY <1>2, <2>1, ParentsAre
  <1> QED BY <1>3, EntriesShape DEF Exists

(* Only the last part of an entry can be a link. *)
LEMMA EntryLinksOn ==
  ASSUME NEW pkg, NEW t, Fit(pkg, t), NEW p \in DOMAIN Entries(pkg, t),
         p \notin Links(Entries(pkg, t))
  PROVE  LinksOn(Entries(pkg, t), p) = {}
  <1> DEFINE e == Entries(pkg, t)
  <1>1. p \in Paths
    BY EntriesAreNested DEF NoUp
  <1>2. ASSUME NEW n \in LinksOn(e, p) PROVE FALSE
    <2>1. n \in 1..Len(p) /\ SubSeq(p, 1, n) \in Links(e)
      BY <1>2 DEF LinksOn
    <2>2. CASE n = Len(p)
      BY <1>1, <2>1, <2>2, SubPath
    <2>3. CASE n \in 1..Len(p)-1
      BY <2>1, <2>3, EntriesAreNested DEF Links
    <2> QED BY <1>1, <2>1, <2>2, <2>3 DEF Paths
  <1> QED BY <1>2

(* An entry that is no link leads to itself, a link to an entry. *)
LEMMA EntryFollows ==
  ASSUME NEW pkg, NEW t, Fit(pkg, t), NEW p \in DOMAIN Entries(pkg, t)
  PROVE  LET end == Follow(Entries(pkg, t), p)
         IN  /\ end \in DOMAIN Entries(pkg, t) /\ end \notin Links(Entries(pkg, t))
             /\ p \notin Links(Entries(pkg, t)) => end = p
  <1> DEFINE v == Seen(pkg, t)
             e == Entries(pkg, t)
             end == Follow(e, p)
  <1>1. CASE p \notin Links(e)
    <2>1. end = p
      BY <1>1, EntryLinksOn, FollowAtRest
    <2> QED BY <1>1, <2>1
  <1>2. CASE p \in Links(e)
    <2>1. p \in Paths /\ p \in Links(v) /\ Linkable(v) /\ Linkable(e) /\ SameLinks(v, e)
      BY <1>2, EntriesAreNested, EntriesLinks DEF NoUp, SameLinks
    <2>2. end = Follow(v, p)
      BY <2>1, FollowSame
    <2>3. LinkIsSound(v, p)
      BY <2>1 DEF Fit, Valid, Seen
    <2>4. end # NoPath /\ Exists(v, end)
      BY <2>2, <2>3 DEF LinkIsSound, EndIsSound
    <2>5. end \in Paths /\ LinksOn(e, end) = {}
      BY <2>1, <2>4, FollowType
    <2>6. end \in DOMAIN e
      BY <2>4, <2>5, ExistsInEntries
    <2>7. end \notin Links(e)
      <3>1. Len(end) \in 1..Len(end) /\ SubSeq(end, 1, Len(end)) = end
        BY <2>5, SubPath DEF Paths
      <3> QED BY <2>5, <3>1 DEF LinksOn
    <2> QED BY <1>2, <2>6, <2>7
  <1> QED BY <1>1, <1>2

LEMMA EntryResolves ==
  ASSUME NEW pkg, NEW t, Fit(pkg, t), NEW p \in DOMAIN Entries(pkg, t)
  PROVE  /\ Resolve(pkg, t, p) \in DOMAIN Entries(pkg, t)
         /\ Resolve(pkg, t, p) \notin Links(Entries(pkg, t))
         /\ p \notin Links(Entries(pkg, t)) => Resolve(pkg, t, p) = p
  <1> DEFINE e == Entries(pkg, t)
             end == Follow(e, p)
  <1>1. end \in DOMAIN e /\ end \notin Links(e) /\ (p \notin Links(e) => end = p)
    BY EntryFollows
  <1>2. ~NotADirectory(e, end)
    BY <1>1, EntriesAreNested DEF NotADirectory
  <1> HIDE DEF e, end
  <1>3. Placed(e, end) = end
    BY <1>2 DEF Placed
  <1> QED BY <1>1, <1>3 DEF Resolve, ResolveIn, e, end

(* No entry is known to be unavailable. *)
LEMMA EntryIsAvailable ==
  ASSUME NEW pkg, NEW t, Fit(pkg, t), NEW p \in DOMAIN Entries(pkg, t)
  PROVE  ~IsUnavailable(pkg, t, p)
  <1> SUFFICES ASSUME IsUnavailable(pkg, t, p) PROVE FALSE
    OBVIOUS
  <1>1. PICK q \in Unavailable(pkg, t) : IsPrefix(q, p)
    BY DEF IsUnavailable
  <1>2. q \in Paths /\ ~Exists(Seen(pkg, t), q)
    BY <1>1 DEF Unavailable, Seen, Fit, Recorded, NoUp
  <1>3. q \notin DOMAIN Entries(pkg, t)
    BY <1>2, ExistsInEntries
  <1>4. p \in Paths
    BY EntriesAreNested DEF NoUp
  <1>5. Len(q) \in 1..Len(p) /\ q = SubSeq(p, 1, Len(q))
    BY <1>1, <1>2, <1>4, SubPath DEF IsPrefix, Paths
  <1>6. Len(q) # Len(p)
    BY <1>3, <1>4, <1>5, SubPath
  <1>7. Len(q) \in 1..Len(p)-1
    BY <1>4, <1>5, <1>6 DEF Paths
  <1> QED BY <1>3, <1>5, <1>7, EntriesAreNested

(* The files of the tree read as the bytes that were hashed. *)
LEMMA FilesRead ==
  ASSUME NEW pkg, NEW t, Fit(pkg, t), NEW p \in DOMAIN Entries(pkg, t),
         Entries(pkg, t)[p].kind = "file"
  PROVE  Read(pkg, t, p) = Entries(pkg, t)[p].sum
  <1> DEFINE e == Entries(pkg, t)
             r == e[p]
  <1>1. p \notin Links(e)
    BY DEF Links
  <1>2. Resolve(pkg, t, p) = p
    BY <1>1, EntryResolves
  <1>3. p # NoPath /\ ~IsUnavailable(pkg, t, p)
    BY EntriesAreNested, UpIsNoPath, EntryIsAvailable
  <1>4. r \in pkg.records
    <2>1. p \in DOMAIN Seen(pkg, t) /\ r = Seen(pkg, t)[p]
      BY EntriesShape
    <2> QED BY <2>1, SeenShape
  <1>5. pkg.archive[r.source].kind = "file"
    BY <1>4 DEF Fit, Indexed, Agrees
  <1>6. pkg.archive[r.source].data = r.sum
    BY <1>4, <1>5 DEF Fit, Stored
  <1>7. Verified(pkg, r) = r.sum
    BY <1>6 DEF Verified
  <1> QED BY <1>2, <1>3, <1>7 DEF Read, ReadAt
-----------------------------------------------------------------------------
(* What the host finds at an entry p that leads to a file r. *)
Reaches(pkg, t, p, r) ==
  /\ p \in DOMAIN Entries(pkg, t)
  /\ r = Entries(pkg, t)[Resolve(pkg, t, p)]
  /\ r.kind = "file"

LEMMA ReachedFile ==
  ASSUME NEW pkg, NEW t, Fit(pkg, t), NEW p, NEW r, Reaches(pkg, t, p, r)
  PROVE  LET at == IndexedPath(pkg, t, p)
         IN  /\ at = Resolve(pkg, t, p)
             /\ at # NoPath
             /\ at \in DOMAIN Seen(pkg, t)
             /\ Seen(pkg, t)[at] = r
             /\ r \in pkg.records
             /\ r \in Selected(pkg.records, t)
  <1> DEFINE v == Seen(pkg, t)
             e == Entries(pkg, t)
             end == Resolve(pkg, t, p)
  <1>1. end \in DOMAIN e /\ end # NoPath
    BY EntryResolves, EntriesAreNested, UpIsNoPath DEF Reaches
  <1>2. end \in DOMAIN v /\ v[end] = r
    BY <1>1, EntriesShape DEF Reaches
  <1>3. r \in pkg.records /\ r \in Selected(pkg.records, t)
    BY <1>2, SeenShape
  <1>4. IndexedPath(pkg, t, p) = end
    <2>1. CASE p \in DOMAIN v \ Links(v)
      <3>1. p \notin Links(e)
        BY <2>1, EntriesLinks DEF SameLinks
      <3> QED BY <2>1, <3>1, EntryResolves DEF IndexedPath, Reaches
    <2>2. CASE p \notin DOMAIN v \ Links(v)
      BY <2>2, Zenon DEF IndexedPath
    <2> QED BY <2>1, <2>2
  <1> QED BY <1>1, <1>2, <1>3, <1>4

LEMMA ReachedModule ==
  ASSUME NEW pkg, NEW t, Fit(pkg, t), NEW p, NEW r, Reaches(pkg, t, p, r)
  PROVE  ModulePath(pkg, t, p) = IF r.group = None THEN Absent ELSE InGroup(r)
  <1> DEFINE at == IndexedPath(pkg, t, p)
             v == Seen(pkg, t)
  <1>1. /\ at # NoPath /\ at \in DOMAIN v /\ v[at] = r
        /\ r \in Selected(pkg.records, t) /\ r.kind = "file"
    BY ReachedFile DEF Reaches
  <1>2. CASE {s \in Selected(pkg.records, t) : s.group # None} = {}
    <2>1. r.group = None
      BY <1>1, <1>2
    <2> QED BY <1>2, <2>1 DEF ModulePath
  <1>3. CASE {s \in Selected(pkg.records, t) : s.group # None} # {}
    <2>1. ModulePath(pkg, t, p) = ModuleAt(v, at)
      BY <1>3 DEF ModulePath
    <2> HIDE DEF at, v
    <2>2. r.kind # "directory"
      BY <1>1
    <2>3. ModuleAt(v, at) = IF r.group # None THEN InGroup(r) ELSE Absent
      BY <1>1, <2>2, Zenon DEF ModuleAt
    <2> QED BY <2>1, <2>3
  <1> QED BY <1>2, <1>3

LEMMA ReachedNative ==
  ASSUME NEW pkg, NEW t, Fit(pkg, t), NEW p, NEW r, Reaches(pkg, t, p, r),
         r.native # None
  PROVE  NativePath(pkg, t, p, r.native) = InGroup(r)
  <1> DEFINE at == IndexedPath(pkg, t, p)
             v == Seen(pkg, t)
  <1>1. /\ at # NoPath /\ at \in DOMAIN v /\ v[at] = r
        /\ r \in pkg.records /\ r.kind = "file"
    BY ReachedFile DEF Reaches
  <1>2. r.native \in Usages
    BY <1>1 DEF Fit, Recorded
  <1>3. r.native \in NativeUse(r.native)
    BY <1>2 DEF NativeUse, Usages
  <1>4. NativePath(pkg, t, p, r.native) = NativeAt(pkg, t, v, at, r.native)
    BY DEF NativePath
  <1> HIDE DEF at, v
  <1> QED BY <1>1, <1>3, <1>4, Zenon DEF NativeAt

LEMMA ReachedLayout ==
  ASSUME NEW pkg, NEW t, Fit(pkg, t), NEW p, NEW r, Reaches(pkg, t, p, r)
  PROVE  Layout(pkg, t, r.group)[r.path] = r
  <1> DEFINE S == {s \in Selected(pkg.records, t) : s.group = r.group}
             V == View(S)
  <1>1. r \in Selected(pkg.records, t) /\ r \in S /\ r.kind # "directory"
    BY ReachedFile DEF Reaches
  <1>2. \A s \in S : s.path = r.path => s = r
    BY <1>1, SeenUnique
  <1> HIDE DEF S
  <1>3. r.path \in DOMAIN V /\ V[r.path] = r
    BY <1>1, <1>2 DEF View
  <1>4. Layout(pkg, t, r.group) = WithParents(V)
    BY DEF Layout, S
  <1> HIDE DEF V
  <1> QED BY <1>3, <1>4 DEF WithParents

(* A search passes over an entry that cannot be executed ... *)
LEMMA PrefixFits ==
  ASSUME NEW pkg, NEW t, Fit(pkg, t), NEW p \in DOMAIN Entries(pkg, t),
         NEW n \in 1..Len(p)-1
  PROVE  Judge(pkg, t, p, n) = "fits"
  <1> DEFINE e == Entries(pkg, t)
             q == SubSeq(p, 1, n)
  <1>1. q \in DOMAIN e /\ e[q].kind = "directory"
    BY EntriesAreNested
  <1>2. Resolve(pkg, t, q) = q
    <2>1. q \notin Links(e)
      BY <1>1 DEF Links
    <2> HIDE DEF q
    <2> QED BY <1>1, <2>1, EntryResolves
  <1>3. q # NoPath /\ ~IsUnavailable(pkg, t, q)
    BY <1>1, EntriesAreNested, UpIsNoPath, EntryIsAvailable
  <1>4. n # Len(p)
    BY EntriesAreNested DEF NoUp, Paths
  <1>5. Judge(pkg, t, p, n) = JudgeAt(pkg, t, e, q, n = Len(p))
    BY <1>2 DEF Judge
  <1>6. Fits(e[q], n = Len(p))
    BY <1>1, <1>4 DEF Fits
  <1> HIDE DEF e, q
  <1> QED BY <1>3, <1>5, <1>6, Zenon DEF JudgeAt

LEMMA JudgedEntry ==
  ASSUME NEW pkg, NEW t, Fit(pkg, t), NEW p \in DOMAIN Entries(pkg, t)
  PROVE  Passed(Judged(pkg, t, p)) = Judge(pkg, t, p, Len(p))
  <1> DEFINE parts == Judged(pkg, t, p)
             last == Judge(pkg, t, p, Len(p))
  <1>1. p \in Paths /\ Len(p) \in Nat \ {0} /\ Len(p) \in 1..Len(p)
    BY EntriesAreNested DEF NoUp, Paths
  <1>2. DOMAIN parts = 1..Len(p) /\ parts[Len(p)] = last
        /\ \A n \in 1..Len(p)-1 : parts[n] = "fits"
    <2>1. parts = [n \in 1..Len(p) |-> Judge(pkg, t, p, n)]
      BY DEF Judged
    <2>2. 1..Len(p)-1 \subseteq 1..Len(p)
      BY <1>1
    <2>3. \A n \in 1..Len(p)-1 : Judge(pkg, t, p, n) = "fits"
      BY PrefixFits
    <2> QED BY <1>1, <2>1, <2>2, <2>3
  <1> HIDE DEF parts, last
  <1>3. \A n \in 1..Len(p) : n = Len(p) \/ n \in 1..Len(p)-1
    BY <1>1
  <1>4. CASE last = "fits"
    <2>1. Unfit(parts) = {}
      BY <1>2, <1>3, <1>4 DEF Unfit
    <2> QED BY <1>4, <2>1 DEF Passed, last, parts
  <1>5. CASE last # "fits"
    <2>1. Unfit(parts) = {Len(p)}
      BY <1>1, <1>2, <1>3, <1>5 DEF Unfit
    <2>2. Min({Len(p)}) = Len(p)
      <3>1. {Len(p)} \in SUBSET Nat /\ {Len(p)} # {}
        BY <1>1
      <3> QED BY <3>1, MinIn
    <2>3. Unfit(parts) # {} /\ Min(Unfit(parts)) = Len(p)
      BY <2>1, <2>2
    <2> QED BY <1>2, <2>3, Zenon DEF Passed, last, parts
  <1> QED BY <1>4, <1>5

LEMMA InertIsSkipped ==
  ASSUME NEW pkg, NEW t, Fit(pkg, t), NEW q \in Inert(Entries(pkg, t)), NEW onDisk
  PROVE  Candidate(pkg, t, q, TRUE, onDisk) = Absent
  <1> DEFINE e == Entries(pkg, t)
  <1>1. q \in DOMAIN e /\ q \notin Links(e)
        /\ (e[q].kind = "directory" \/ (e[q].kind = "file" /\ ~e[q].exec))
    BY DEF Inert, Links
  <1>2. Resolve(pkg, t, q) = q /\ q # NoPath /\ ~IsUnavailable(pkg, t, q)
        /\ q \in Paths
    BY <1>1, EntryResolves, EntriesAreNested, UpIsNoPath, EntryIsAvailable DEF NoUp
  <1>3. SubSeq(q, 1, Len(q)) = q
    BY <1>2 DEF Paths
  <1>4. Judge(pkg, t, q, Len(q)) = JudgeAt(pkg, t, e, q, TRUE)
    BY <1>2, <1>3 DEF Judge
  <1>5. ~Fits(e[q], TRUE)
    BY <1>1 DEF Fits
  <1>6. JudgeAt(pkg, t, e, q, TRUE) = "skipped"
    BY <1>1, <1>2, <1>5 DEF JudgeAt
  <1>7. Passed(Judged(pkg, t, q)) = "skipped"
    BY <1>1, <1>4, <1>6, JudgedEntry
  <1> QED BY <1>7 DEF Candidate, Chosen

(* ... and finds a command of a group. *)
LEMMA CommandIsFound ==
  ASSUME NEW pkg, NEW t, Fit(pkg, t), NEW p, NEW r, Reaches(pkg, t, p, r),
         r.native = "executable", NEW onDisk
  PROVE  Candidate(pkg, t, p, TRUE, onDisk) = InGroup(r)
  <1> DEFINE e == Entries(pkg, t)
             end == Resolve(pkg, t, p)
  <1>1. /\ p \in DOMAIN e /\ r = e[end] /\ r.kind = "file"
        /\ end # NoPath /\ end \in DOMAIN e /\ r \in pkg.records
    BY ReachedFile, EntryResolves DEF Reaches
  <1>2. r.exec
    BY <1>1 DEF Fit, Indexed
  <1>3. ~IsUnavailable(pkg, t, end) /\ SubSeq(p, 1, Len(p)) = p
    <2>1. p \in Paths
      BY <1>1, EntriesAreNested DEF NoUp
    <2> QED BY <1>1, <2>1, EntryIsAvailable DEF Paths
  <1>4. Judge(pkg, t, p, Len(p)) = JudgeAt(pkg, t, e, end, TRUE)
    BY <1>3 DEF Judge
  <1>5. Fits(e[end], TRUE)
    BY <1>1, <1>2 DEF Fits
  <1>6. JudgeAt(pkg, t, e, end, TRUE) = "fits"
    BY <1>1, <1>3, <1>5 DEF JudgeAt
  <1>7. Passed(Judged(pkg, t, p)) = "fits"
    BY <1>1, <1>4, <1>6, JudgedEntry
  <1>8. NativePath(pkg, t, p, "executable") = InGroup(r)
    <2>1. "executable" # None
      BY DEF None
    <2> QED BY <2>1, ReachedNative
  <1>9. InGroup(r) # Absent
    BY DEF InGroup, Absent
  <1> QED BY <1>7, <1>8, <1>9 DEF Candidate, Chosen

Finds(pkg, t, q, p, r, onDisk) == Command(pkg, t, <<q, p>>, TRUE, onDisk) = InGroup(r)

LEMMA SearchFinds ==
  ASSUME NEW pkg, NEW t, Fit(pkg, t), NEW p, NEW r, Reaches(pkg, t, p, r),
         r.native = "executable", NEW q \in Inert(Entries(pkg, t)), NEW onDisk
  PROVE  Finds(pkg, t, q, p, r, onDisk)
  <1> DEFINE found == [n \in 1..Len(<<q, p>>) |->
                Candidate(pkg, t, <<q, p>>[n], TRUE, <<q, p>>[n] \in onDisk)]
             some == {n \in DOMAIN found : found[n] # Absent}
  <1>1. DOMAIN found = {1, 2} /\ found[1] = Absent /\ found[2] = InGroup(r)
    <2>1. 1..Len(<<q, p>>) = {1, 2} /\ <<q, p>>[1] = q /\ <<q, p>>[2] = p
      OBVIOUS
    <2>2. Candidate(pkg, t, q, TRUE, q \in onDisk) = Absent
      BY InertIsSkipped
    <2>3. Candidate(pkg, t, p, TRUE, p \in onDisk) = InGroup(r)
      BY CommandIsFound
    <2> QED BY <2>1, <2>2, <2>3
  <1>2. InGroup(r) # Absent
    BY DEF InGroup, Absent
  <1>3. Command(pkg, t, <<q, p>>, TRUE, onDisk)
          = IF some = {} THEN Absent ELSE found[Min(some)]
    BY DEF Command
  <1> HIDE DEF found
  <1>4. some = {2}
    BY <1>1, <1>2
  <1>5. Min({2}) = 2
    BY MinIn
  <1>6. some # {} /\ Min(some) = 2
    BY <1>4, <1>5
  <1> HIDE DEF some
  <1> QED BY <1>1, <1>3, <1>6 DEF Finds

LEMMA FitIsUsable ==
  ASSUME NEW t, Fit(zip, t)
  PROVE  Usable(t, Entries(zip, t))
  <1> DEFINE tree == Entries(zip, t)
  <1> SUFFICES ASSUME NEW p \in DOMAIN tree
               PROVE  /\ tree[p].kind = "file" => Read(zip, t, p) = tree[p].sum
                      /\ LeadsTo(t, tree, p, Resolve(zip, t, p))
    BY DEF Usable
  <1> DEFINE r == tree[Resolve(zip, t, p)]
  <1>1. tree[p].kind = "file" => Read(zip, t, p) = tree[p].sum
    BY FilesRead
  <1>2. Resolve(zip, t, p) \in DOMAIN tree
    BY EntryResolves
  <1>3. FoundInGroup(t, tree, p, r)
    <2> SUFFICES ASSUME r.kind = "file"
                 PROVE  FoundInGroup(t, tree, p, r)
      BY DEF FoundInGroup
    <2>1. Reaches(zip, t, p, r)
      BY DEF Reaches
    <2> HIDE DEF r
    <2>2. ModulePath(zip, t, p) = IF r.group = None THEN Absent ELSE InGroup(r)
      BY <2>1, ReachedModule
    <2>3. r.native # None => /\ NativePath(zip, t, p, r.native) = InGroup(r)
                             /\ Layout(zip, t, r.group)[r.path] = r
      BY <2>1, ReachedNative, ReachedLayout
    <2>4. ASSUME r.native = "executable", NEW q \in Inert(tree)
          PROVE  Command(zip, t, <<q, p>>, TRUE, {p, q}) = InGroup(r)
      <3> DEFINE onDisk == {p, q}
      <3> HIDE DEF onDisk
      <3>1. Command(zip, t, <<q, p>>, TRUE, onDisk) = InGroup(r)
        <4>1. Finds(zip, t, q, p, r, onDisk)
          BY <2>1, <2>4, SearchFinds
        <4> QED BY <4>1 DEF Finds
      <3> QED BY <3>1 DEF onDisk
    <2> QED BY <2>2, <2>3, <2>4 DEF FoundInGroup
  <1> QED BY <1>1, <1>2, <1>3 DEF LeadsTo
-----------------------------------------------------------------------------
(* Paths of the platform that are no entries.  First, the walk of a path in
   step with the walk of a part that it begins with. *)
LEMMA Cat ==
  ASSUME NEW a \in Paths, NEW b \in Seq(Text)
  PROVE  /\ a \o b \in Paths
         /\ Len(a \o b) = Len(a) + Len(b)
         /\ \A k \in 1..Len(a) : k \in 1..Len(a \o b) /\ SubSeq(a \o b, 1, k) = SubSeq(a, 1, k)
         /\ \A m \in 1..Len(a) :
              SubSeq(a \o b, m + 1, Len(a \o b)) = SubSeq(a, m + 1, Len(a)) \o b
  <1>1. /\ a \in Seq(Text) /\ Len(a) \in Nat /\ Len(a) # 0 /\ Len(b) \in Nat
        /\ a \o b \in Seq(Text) /\ Len(a \o b) = Len(a) + Len(b)
    BY DEF Paths
  <1>2. a \o b \in Paths
    BY <1>1 DEF Paths
  <1>3. ASSUME NEW k \in 1..Len(a)
        PROVE  k \in 1..Len(a \o b) /\ SubSeq(a \o b, 1, k) = SubSeq(a, 1, k)
    <2>1. k \in 1..Len(a \o b)
      BY <1>1
    <2>2. SubSeq(a \o b, 1, k) = SubSeq(a, 1, k)
      BY <1>1
    <2> QED BY <2>1, <2>2
  <1>4. ASSUME NEW m \in 1..Len(a)
        PROVE  SubSeq(a \o b, m + 1, Len(a \o b)) = SubSeq(a, m + 1, Len(a)) \o b
    <2> DEFINE x == SubSeq(a, m + 1, Len(a))
               y == SubSeq(a \o b, m + 1, Len(a \o b))
    <2>1. /\ x \in Seq(Text) /\ Len(x) = Len(a) - m
          /\ \A k \in 1..Len(a)-m : x[k] = a[m + k]
      BY <1>1
    <2>2. /\ y \in Seq(Text) /\ Len(y) = Len(a) - m + Len(b)
          /\ \A k \in 1..Len(a)-m+Len(b) : y[k] = (a \o b)[m + k]
      BY <1>1
    <2> HIDE DEF x, y
    <2>3. x \o b \in Seq(Text) /\ Len(x \o b) = Len(y)
      <3>1. x \o b \in Seq(Text) /\ Len(x \o b) = Len(x) + Len(b)
        <4>1. x \in Seq(Text) /\ b \in Seq(Text)
          BY <2>1
        <4> QED BY <4>1
      <3>2. Len(x) + Len(b) = Len(y)
        BY <1>1, <2>1, <2>2
      <3> QED BY <3>1, <3>2
    <2>4. ASSUME NEW k \in 1..Len(y) PROVE y[k] = (x \o b)[k]
      <3>1. k \in 1..Len(a)-m+Len(b) /\ m + k \in 1..Len(a)+Len(b)
        BY <1>1, <2>2
      <3>2. (a \o b)[m + k] = IF m + k <= Len(a) THEN a[m + k] ELSE b[m + k - Len(a)]
        BY <1>1, <3>1
      <3>3. (x \o b)[k] = IF k <= Len(a) - m THEN x[k] ELSE b[k - (Len(a) - m)]
        BY <1>1, <2>1, <3>1
      <3>4. m + k - Len(a) = k - (Len(a) - m)
        BY <1>1
      <3> QED BY <1>1, <2>1, <2>2, <3>1, <3>2, <3>3, <3>4
    <2>5. y = x \o b
      BY <2>2, <2>3, <2>4
    <2> QED BY <2>5 DEF x, y
  <1> QED BY <1>1, <1>2, <1>3, <1>4

LEMMA NoPathRests ==
  ASSUME NEW pkg, NEW t, Fit(pkg, t)
  PROVE  /\ NoPath \notin DOMAIN Entries(pkg, t)
         /\ LinksOn(Entries(pkg, t), NoPath) = {}
  <1>1. NoPath \notin DOMAIN Entries(pkg, t)
    BY EntriesAreNested, UpIsNoPath
  <1>2. \A n \in 1..Len(NoPath) : SubSeq(NoPath, 1, n) = NoPath
    <2>1. NoPath \in Paths /\ Len(NoPath) = 1
      BY SpecialPaths DEF NoPath
    <2>2. SubSeq(NoPath, 1, 1) = NoPath
      BY <2>1, SubPath
    <2> QED BY <2>1, <2>2
  <1> QED BY <1>1, <1>2 DEF LinksOn, Links

(* Both walks pass the links of the part alike. *)
LEMMA HopTogether ==
  ASSUME NEW e, Linkable(e), NEW a \in Paths, NEW b \in Seq(Text),
         LinksOn(e, a) # {}
  PROVE  IF Hop(e, a) = NoPath THEN Hop(e, a \o b) = NoPath
                               ELSE Hop(e, a \o b) = Hop(e, a) \o b
  <1> DEFINE p == a \o b
             m == Min(LinksOn(e, a))
             link == SubSeq(a, 1, m)
             dest == ResolveLink(link, e[link].link)
  <1>1. /\ m \in LinksOn(e, a) /\ m \in 1..Len(a)
        /\ \A n \in LinksOn(e, a) : m <= n
    BY FirstLink
  <1>2. p \in Paths /\ SubSeq(p, 1, m) = link
        /\ \A n \in 1..Len(a) : n \in LinksOn(e, p) <=> n \in LinksOn(e, a)
    BY <1>1, Cat DEF LinksOn
  <1>3. m \in LinksOn(e, p) /\ LinksOn(e, p) # {}
    BY <1>1, <1>2
  <1>4. Min(LinksOn(e, p)) = m
    <2>1. /\ Min(LinksOn(e, p)) \in LinksOn(e, p) /\ Min(LinksOn(e, p)) \in 1..Len(p)
          /\ \A n \in LinksOn(e, p) : Min(LinksOn(e, p)) <= n
      BY <1>2, <1>3, FirstLink
    <2> DEFINE k == Min(LinksOn(e, p))
    <2> HIDE DEF k, m, p
    <2>2. k \in LinksOn(e, p) /\ k \in 1..Len(p) /\ k <= m
      BY <1>3, <2>1 DEF k
    <2>3. k \in 1..Len(a) /\ k \in LinksOn(e, a)
      BY <1>1, <1>2, <2>2 DEF Paths
    <2>4. m <= k
      BY <1>1, <2>3
    <2>5. k = m
      BY <1>1, <2>2, <2>3, <2>4
    <2> QED BY <2>5 DEF k
  <1>5. dest \in Paths
    <2>1. link \in Paths /\ link \in Links(e) /\ link \in DOMAIN e
      BY <1>1, SubPath DEF LinksOn, Links
    <2> QED BY <2>1, ResolveLinkType DEF Linkable
  <1>6. Hop(e, a) = IF dest = NoPath THEN NoPath ELSE dest \o SubSeq(a, m + 1, Len(a))
    BY DEF Hop, Past, Replaced
  <1>7. Hop(e, p) = IF dest = NoPath THEN NoPath ELSE dest \o SubSeq(p, m + 1, Len(p))
    <2>1. Hop(e, p) = Past(e, p, m)
      BY <1>3, <1>4, Zenon DEF Hop
    <2>2. Past(e, p, m) = Replaced(p, m, dest)
      BY <1>2, Zenon DEF Past
    <2> QED BY <2>1, <2>2 DEF Replaced
  <1>8. SubSeq(p, m + 1, Len(p)) = SubSeq(a, m + 1, Len(a)) \o b
    BY <1>1, Cat
  <1>9. dest # NoPath =>
          /\ dest \o SubSeq(a, m + 1, Len(a)) # NoPath
          /\ dest \o (SubSeq(a, m + 1, Len(a)) \o b) = (dest \o SubSeq(a, m + 1, Len(a))) \o b
    <2> DEFINE x == SubSeq(a, m + 1, Len(a))
    <2>1. x \in Seq(Text)
      BY <1>1 DEF Paths
    <2> HIDE DEF x, dest, link, m
    <2>2. dest \o (x \o b) = (dest \o x) \o b
      BY <1>5, <2>1 DEF Paths
    <2>3. dest \o x = NoPath => dest = NoPath
      <3>1. Len(NoPath) = 1 /\ Len(dest) >= 1 /\ Len(dest \o x) = Len(dest) + Len(x)
        BY <1>5, <2>1 DEF Paths, NoPath
      <3> SUFFICES ASSUME dest \o x = NoPath PROVE dest = NoPath
        OBVIOUS
      <3>2. Len(dest \o x) = 1 /\ Len(dest) \in Nat /\ Len(x) \in Nat
        BY <1>5, <2>1, <3>1 DEF Paths
      <3>3. Len(x) = 0
        BY <3>1, <3>2
      <3>4. x = <<>>
        BY <2>1, <3>3
      <3> QED BY <1>5, <3>4 DEF Paths
    <2> QED BY <2>2, <2>3 DEF x
  <1> HIDE DEF p, m, dest, link
  <1> QED BY <1>6, <1>7, <1>8, <1>9 DEF p

(* Where the walks of a part a of a path, and of the path, may have come. *)
Together(e, x, y, b) ==
  /\ x \in Paths /\ y \in Paths
  /\ \/ x # NoPath /\ y = x \o b
     \/ x \in DOMAIN e /\ e[x].kind = "directory" /\ LinksOn(e, x) = {}
     \/ x = NoPath /\ y = NoPath

LEMMA StayTogether ==
  ASSUME NEW pkg, NEW t, Fit(pkg, t), NEW x, NEW y, NEW b \in Seq(Text), b # <<>>,
         Together(Entries(pkg, t), x, y, b)
  PROVE  Together(Entries(pkg, t), Hop(Entries(pkg, t), x), Hop(Entries(pkg, t), y), b)
  <1> DEFINE e == Entries(pkg, t)
  <1>0. /\ x \in Paths /\ y \in Paths /\ Linkable(e)
        /\ Hop(e, x) \in Paths /\ Hop(e, y) \in Paths
    BY EntriesLinks, HopType DEF Together
  <1>1. CASE x # NoPath /\ y = x \o b /\ LinksOn(e, x) # {}
    <2>1. IF Hop(e, x) = NoPath THEN Hop(e, y) = NoPath ELSE Hop(e, y) = Hop(e, x) \o b
      BY <1>0, <1>1, HopTogether
    <2> QED BY <1>0, <2>1 DEF Together
  <1>2. CASE x # NoPath /\ y = x \o b /\ LinksOn(e, x) = {}
    <2>1. Hop(e, x) = x
      BY <1>2 DEF Hop
    <2>2. CASE LinksOn(e, y) = {}
      <3>1. Hop(e, y) = y
        BY <2>2 DEF Hop
      <3> QED BY <1>0, <1>2, <2>1, <3>1 DEF Together
    <2>3. CASE LinksOn(e, y) # {}
      <3>1. PICK n \in LinksOn(e, y) : TRUE
        BY <2>3
      <3>2. n \in 1..Len(y) /\ SubSeq(y, 1, n) \in DOMAIN e /\ SubSeq(y, 1, n) \in Links(e)
        BY <3>1 DEF LinksOn, Links
      <3>3. n \notin 1..Len(x)
        <4>1. n \in 1..Len(x) => SubSeq(x, 1, n) = SubSeq(y, 1, n)
          BY <1>0, <1>2, Cat
        <4> QED BY <1>2, <3>2, <4>1 DEF LinksOn
      <3>4. /\ Len(x) \in 1..n-1 /\ n \in 1..Len(y)
            /\ Len(SubSeq(y, 1, n)) = n /\ Len(x) \in 1..n
        BY <1>0, <3>2, <3>3, SubPath DEF Paths
      <3>5. SubSeq(SubSeq(y, 1, n), 1, Len(x)) = x
        <4>1. SubSeq(SubSeq(y, 1, n), 1, Len(x)) = SubSeq(y, 1, Len(x))
          BY <1>0, <3>4, SubPath
        <4>2. SubSeq(y, 1, Len(x)) = SubSeq(x, 1, Len(x)) /\ SubSeq(x, 1, Len(x)) = x
          <5>1. Len(x) \in 1..Len(x)
            BY <1>0 DEF Paths
          <5> QED BY <1>0, <1>2, <5>1, Cat, SubPath
        <4> QED BY <4>1, <4>2
      <3>6. x \in DOMAIN e /\ e[x].kind = "directory"
        <4> DEFINE z == SubSeq(y, 1, n)
        <4>1. z \in DOMAIN e /\ Len(z) = n /\ SubSeq(z, 1, Len(x)) = x /\ Len(x) \in 1..Len(z)-1
          BY <3>2, <3>4, <3>5
        <4> HIDE DEF z
        <4> QED BY <4>1, EntriesAreNested
      <3> QED BY <1>0, <1>2, <2>1, <3>6 DEF Together
    <2> QED BY <2>2, <2>3
  <1>3. CASE x \in DOMAIN e /\ e[x].kind = "directory" /\ LinksOn(e, x) = {}
    BY <1>0, <1>3 DEF Together, Hop
  <1>4. CASE x = NoPath /\ y = NoPath
    BY <1>0, <1>4, NoPathRests DEF Together, Hop
  <1> QED BY <1>1, <1>2, <1>3, <1>4 DEF Together

LEMMA WalkTogether ==
  ASSUME NEW pkg, NEW t, Fit(pkg, t), NEW a \in Paths, a # NoPath,
         NEW b \in Seq(Text), b # <<>>, NEW h \in Nat
  PROVE  Together(Entries(pkg, t), Walk(Entries(pkg, t), a, h),
                  Walk(Entries(pkg, t), a \o b, h), b)
  <1> DEFINE e == Entries(pkg, t)
             T == {n \in Nat : Together(e, Walk(e, a, n), Walk(e, a \o b, n), b)}
  <1>1. 0 \in T
    <2>1. Walk(e, a, 0) = a /\ Walk(e, a \o b, 0) = a \o b /\ a \o b \in Paths
      BY WalkStep, Cat
    <2>2. Together(e, a, a \o b, b)
      BY <2>1 DEF Together
    <2> QED BY <2>1, <2>2
  <1>2. ASSUME NEW n \in T PROVE n + 1 \in T
    <2> DEFINE x == Walk(e, a, n)
               y == Walk(e, a \o b, n)
    <2>1. Together(e, x, y, b)
      OBVIOUS
    <2>2. Together(e, Hop(e, x), Hop(e, y), b)
      BY <2>1, StayTogether
    <2>3. Walk(e, a, n + 1) = Hop(e, x)
      BY WalkStep
    <2>4. Walk(e, a \o b, n + 1) = Hop(e, y)
      BY WalkStep
    <2> QED BY <2>2, <2>3, <2>4
  <1>3. T \in SUBSET Nat
    OBVIOUS
  <1>4. T = Nat
    <2> HIDE DEF T
    <2> QED BY <1>1, <1>2, <1>3, NatSetInduction
  <1> QED BY <1>4
-----------------------------------------------------------------------------
(* The lookups of a path. *)
LEMMA PartLinks ==
  ASSUME NEW e, NEW p \in Paths, NEW n \in 1..Len(p)
  PROVE  \A k \in 1..n : k \in LinksOn(e, SubSeq(p, 1, n)) <=> k \in LinksOn(e, p)
  <1> SUFFICES ASSUME NEW k \in 1..n
               PROVE  k \in LinksOn(e, SubSeq(p, 1, n)) <=> k \in LinksOn(e, p)
    OBVIOUS
  <1>1. Len(SubSeq(p, 1, n)) = n /\ SubSeq(SubSeq(p, 1, n), 1, k) = SubSeq(p, 1, k)
    BY SubPath
  <1>2. k \in 1..Len(p)
    BY DEF Paths
  <1> QED BY <1>1, <1>2 DEF LinksOn

LEMMA PartLinksIn ==
  ASSUME NEW e, NEW p \in Paths, NEW n \in 1..Len(p)
  PROVE  LinksOn(e, SubSeq(p, 1, n)) = {k \in LinksOn(e, p) : k <= n}
  <1>1. LinksOn(e, SubSeq(p, 1, n)) \subseteq 1..n /\ LinksOn(e, p) \subseteq 1..Len(p)
    BY SubPath DEF LinksOn
  <1>2. \A k \in LinksOn(e, p) : k <= n => k \in 1..n
    BY <1>1 DEF Paths
  <1> QED BY <1>1, <1>2, PartLinks

(* The parts up to the first link are looked for where they are named. *)
LEMMA WayToPart ==
  ASSUME NEW e, NEW p, NoUp(p), NEW n \in 1..Len(p),
         \A k \in LinksOn(e, p) : n <= k
  PROVE  FollowWay(e, SubSeq(p, 1, n)) = SubSeq(p, 1, n)
  <1> DEFINE q == SubSeq(p, 1, n)
  <1>1. p \in Paths /\ q \in Paths /\ Len(q) = n
    BY SubPath DEF NoUp
  <1>2. CASE n = 1
    BY <1>1, <1>2 DEF FollowWay
  <1>3. CASE n # 1
    <2> DEFINE f == SubSeq(p, 1, n - 1)
    <2>1. n - 1 \in 1..Len(p) /\ n - 1 \in 1..n /\ n \in Nat
      BY <1>1, <1>3 DEF Paths
    <2>2. f \in Paths /\ f # NoPath
      <3>1. f \in Paths /\ NoUp(f)
        BY <1>1, <2>1, SubPath DEF NoUp
      <3> QED BY <3>1, UpIsNoPath
    <2>3. Front(q) = f
      BY <1>1, <2>1, SubPath DEF Front
    <2>4. Append(f, Last(q)) = q
      <3>1. q \in Seq(Text) /\ Len(q) = n /\ Len(q) # 0
        BY <1>1, <2>1 DEF Paths
      <3>2. f = SubSeq(q, 1, Len(q) - 1) /\ Last(q) = q[Len(q)]
        BY <1>1, <2>3 DEF Front, Last
      <3> HIDE DEF f, q
      <3> QED BY <3>1, <3>2
    <2>5. LinksOn(e, f) = {}
      <3>1. LinksOn(e, f) = {k \in LinksOn(e, p) : k <= n - 1}
        BY <1>1, <2>1, PartLinksIn
      <3>2. \A k \in LinksOn(e, p) : k \in 1..Len(p)
        BY DEF LinksOn
      <3> QED BY <1>1, <2>1, <3>1, <3>2 DEF Paths
    <2>6. Follow(e, f) = f
      BY <2>5, FollowAtRest
    <2>7. FollowWay(e, q) = Entered(Follow(e, Front(q)), Last(q))
      BY <1>1, <1>3 DEF FollowWay
    <2>8. FollowWay(e, q) = Entered(f, Last(q))
      BY <2>3, <2>6, <2>7
    <2>9. Entered(f, Last(q)) = Append(f, Last(q))
      BY <2>2, Zenon DEF Entered
    <2> QED BY <2>4, <2>8, <2>9
  <1> QED BY <1>2, <1>3

LEMMA PartsBefore ==
  ASSUME NEW m \in Nat
  PROVE  /\ \A n \in 1..m-1 : n \in 1..m /\ n # m
         /\ \A n \in 1..m : n = m \/ n \in 1..m-1
  OBVIOUS

LEMMA KindsKnown ==
  ASSUME NEW pkg, NEW t, Fit(pkg, t), NEW p \in DOMAIN Entries(pkg, t)
  PROVE  Entries(pkg, t)[p].kind \in {"file", "directory", "symlink"}
  <1>1. CASE p \in DOMAIN Seen(pkg, t)
    <2>1. Entries(pkg, t)[p] = Seen(pkg, t)[p]
      BY <1>1, EntriesShape
    <2>2. Recorded(Seen(pkg, t)[p])
      BY <1>1, SeenShape
    <2> QED BY <2>1, <2>2 DEF Recorded
  <1>2. CASE p \notin DOMAIN Seen(pkg, t)
    BY <1>2, EntriesShape
  <1> QED BY <1>1, <1>2

(* What a read returns: nothing exactly where the package has nothing. *)
Nothing(pkg, t, end) ==
  end # NoPath /\ ~IsUnavailable(pkg, t, end) /\ end \notin DOMAIN Entries(pkg, t)

LEMMA ReadsNothing ==
  ASSUME NEW pkg, NEW t, Fit(pkg, t), NEW p
  PROVE  /\ Read(pkg, t, p) = None <=> Nothing(pkg, t, Resolve(pkg, t, p))
         /\ Read(pkg, t, p) # "disk"
  <1> DEFINE e == Entries(pkg, t)
             end == Resolve(pkg, t, p)
  <1>1. Failed # None /\ Failed # "disk" /\ None # "disk"
    BY DEF Failed, None
  <1>2. ASSUME end \in DOMAIN e PROVE Verified(pkg, e[end]) \notin {None, "disk"}
    <2> DEFINE r == e[end]
    <2>1. CASE r.kind # "file"
      BY <1>1, <2>1 DEF Verified
    <2>2. CASE r.kind = "file"
      <3>1. r \in pkg.records
        <4>1. end \in DOMAIN Seen(pkg, t) /\ r = Seen(pkg, t)[end]
          BY <1>2, <2>2, EntriesShape
        <4> QED BY <4>1, SeenShape
      <3>2. pkg.archive[r.source].kind = "file"
        BY <2>2, <3>1 DEF Fit, Indexed, Agrees
      <3>3. r.sum \notin {None, "disk"}
        BY <2>2, <3>1, <3>2 DEF Fit, Stored
      <3>4. Verified(pkg, r) \in {r.sum, Failed}
        BY Zenon DEF Verified
      <3> HIDE DEF r
      <3>5. Verified(pkg, r) \notin {None, "disk"}
        BY <1>1, <3>3, <3>4
      <3> QED BY <3>5 DEF r
    <2> QED BY <2>1, <2>2
  <1>3. Read(pkg, t, p) = ReadAt(pkg, t, e, end)
    BY DEF Read
  <1> HIDE DEF e, end
  <1>4. CASE end = NoPath \/ IsUnavailable(pkg, t, end)
    <2>1. ReadAt(pkg, t, e, end) = Failed
      BY <1>4, Zenon DEF ReadAt
    <2> QED BY <1>1, <1>3, <1>4, <2>1 DEF Nothing, end
  <1>5. CASE end # NoPath /\ ~IsUnavailable(pkg, t, end) /\ end \notin DOMAIN e
    <2>1. ReadAt(pkg, t, e, end) = None
      BY <1>5, Zenon DEF ReadAt
    <2> QED BY <1>1, <1>3, <1>5, <2>1 DEF Nothing, end, e
  <1>6. CASE end # NoPath /\ ~IsUnavailable(pkg, t, end) /\ end \in DOMAIN e
    <2>1. ReadAt(pkg, t, e, end) = Verified(pkg, e[end])
      BY <1>6, Zenon DEF ReadAt
    <2> QED BY <1>2, <1>3, <1>6, <2>1 DEF Nothing, end, e
  <1> QED BY <1>4, <1>5, <1>6

LEMMA TextAgrees ==
  ASSUME NEW pkg, NEW t, Fit(pkg, t), NEW p
  PROVE  ReadText(pkg, t, p, "disk") = "disk" <=> Read(pkg, t, p) = None
  BY ReadsNothing DEF ReadText, OrElse

(* The mounted tree is the tree. *)
LEMMA AllMounted ==
  ASSUME NEW pkg, NEW t, Fit(pkg, t)
  PROVE  Mounted(pkg, t) = Entries(pkg, t)
  <1> DEFINE e == Entries(pkg, t)
  <1>1. \A p \in DOMAIN e : Inside(e, p)
    BY EntriesAreNested DEF Inside
  <1>2. e = [p \in DOMAIN e |-> e[p]]
    BY DEF Entries
  <1> HIDE DEF e
  <1>3. {p \in DOMAIN e : Inside(e, p)} = DOMAIN e
    BY <1>1
  <1>4. MountedFrom(e) = [p \in DOMAIN e |-> e[p]]
    BY <1>3 DEF MountedFrom
  <1> QED BY <1>2, <1>4 DEF Mounted, e

(* The file system. *)
LEMMA DirectLookup ==
  ASSUME NEW pkg, NEW t, Fit(pkg, t), NEW p, NoUp(p), LinksOn(Entries(pkg, t), p) = {}
  PROVE  DnrContains(pkg, t, Entries(pkg, t), p) <=> Read(pkg, t, p) # None
  <1> DEFINE e == Entries(pkg, t)
             part(n) == SubSeq(p, 1, n)
             last == Len(p)
  <1>0. p \in Paths /\ last \in 1..last /\ part(last) = p /\ last \in Nat
    BY SubPath DEF NoUp, Paths
  <1>1. ASSUME NEW n \in 1..last
        PROVE  /\ FollowWay(e, part(n)) = part(n)
               /\ part(n) # NoPath /\ part(n) \notin Links(e)
    <2>1. NoUp(part(n))
      BY <1>0, SubPath DEF NoUp
    <2>2. FollowWay(e, part(n)) = part(n)
      BY WayToPart
    <2>3. part(n) \notin Links(e)
      BY DEF LinksOn
    <2> QED BY <2>1, <2>2, <2>3, UpIsNoPath
  <1>2. ASSUME NEW n \in 1..last
        PROVE  Answers(e, FollowWay(e, part(n)), n = last) <=>
                 part(n) \in DOMAIN e /\ (n = last \/ e[part(n)].kind = "file")
    <2>1. part(n) \in DOMAIN e => e[part(n)].kind \in {"file", "directory"}
      BY <1>1, <1>2, KindsKnown DEF Links
    <2>2. Answers(e, FollowWay(e, part(n)), n = last) <=>
            part(n) \in DOMAIN e /\ (e[part(n)].kind = "directory" => n = last)
      BY <1>1, <1>2 DEF Answers
    <2> QED BY <2>1, <2>2
  <1>3. DnrContains(pkg, t, e, p) <=>
          IsUnavailable(pkg, t, p) \/ NotADirectory(e, p) \/ p \in DOMAIN e
    <2>1. DnrContains(pkg, t, e, p) <=>
            \/ IsUnavailable(pkg, t, p)
            \/ \E n \in 1..last : Answers(e, FollowWay(e, part(n)), n = last)
      BY DEF DnrContains
    <2>2. /\ \A n \in 1..last-1 : n \in 1..last /\ n # last
          /\ \A n \in 1..last : n = last \/ n \in 1..last-1
      BY <1>0, PartsBefore
    <2>3. \A n \in 1..last : n = last \/ n \in 1..last-1
      BY <2>2
    <2>4. NotADirectory(e, p) <=>
            \E n \in 1..last-1 : part(n) \in DOMAIN e /\ e[part(n)].kind = "file"
      BY DEF NotADirectory
    <2>5. ASSUME NEW n \in 1..last, Answers(e, FollowWay(e, part(n)), n = last)
          PROVE  NotADirectory(e, p) \/ p \in DOMAIN e
      BY <1>0, <1>2, <2>3, <2>4, <2>5
    <2>6. NotADirectory(e, p) => \E n \in 1..last : Answers(e, FollowWay(e, part(n)), n = last)
      BY <1>2, <2>2, <2>4
    <2>7. p \in DOMAIN e => Answers(e, FollowWay(e, part(last)), last = last)
      BY <1>0, <1>2
    <2> QED BY <1>0, <2>1, <2>5, <2>6, <2>7
  <1>4. Follow(e, p) = p /\ p # NoPath
    BY FollowAtRest, UpIsNoPath
  <1>5. Resolve(pkg, t, p) = IF NotADirectory(e, p) THEN NoPath ELSE p
    BY <1>4 DEF Resolve, ResolveIn, Placed
  <1>6. Nothing(pkg, t, Resolve(pkg, t, p)) <=>
          ~NotADirectory(e, p) /\ ~IsUnavailable(pkg, t, p) /\ p \notin DOMAIN e
    BY <1>4, <1>5 DEF Nothing
  <1> QED BY <1>3, <1>6, ReadsNothing

LEMMA LinkedLookup ==
  ASSUME NEW pkg, NEW t, Fit(pkg, t), NEW p, NoUp(p), LinksOn(Entries(pkg, t), p) # {}
  PROVE  DnrContains(pkg, t, Entries(pkg, t), p)
  <1> DEFINE e == Entries(pkg, t)
             n == Min(LinksOn(e, p))
             q == SubSeq(p, 1, n)
  <1>1. /\ n \in LinksOn(e, p) /\ n \in 1..Len(p)
        /\ \A k \in LinksOn(e, p) : n <= k
    BY FirstLink DEF NoUp
  <1>2. q \in Links(e)
    BY <1>1 DEF LinksOn
  <1> HIDE DEF n
  <1>3. FollowWay(e, q) = q
    BY <1>1, WayToPart
  <1>4. q \in DOMAIN e /\ e[q].kind # "directory"
    BY <1>2 DEF Links
  <1>5. Answers(e, FollowWay(e, q), n = Len(p))
    BY <1>3, <1>4 DEF Answers
  <1> QED BY <1>1, <1>5 DEF DnrContains

LEMMA FileSystemAgrees ==
  ASSUME NEW pkg, NEW t, Fit(pkg, t), NEW p, NoUp(p)
  PROVE  DnrContains(pkg, t, Entries(pkg, t), p)
           <=> Read(pkg, t, p) # None \/ LinksOn(Entries(pkg, t), p) # {}
  BY DirectLookup, LinkedLookup
-----------------------------------------------------------------------------
(* The search for a command. *)
LEMMA PartIsPassed ==
  ASSUME NEW pkg, NEW t, Fit(pkg, t), NEW p, NoUp(p),
         Nothing(pkg, t, Resolve(pkg, t, p)), NEW n \in 1..Len(p)-1
  PROVE  Judge(pkg, t, p, n) = "fits"
  <1> DEFINE e == Entries(pkg, t)
             h == MaxHops - 1
             q == SubSeq(p, 1, n)
             b == SubSeq(p, n + 1, Len(p))
             x == Walk(e, q, h)
             y == Walk(e, p, h)
  <1>0. /\ p \in Paths /\ n \in 1..Len(p) /\ n # Len(p) /\ Len(p) \in Nat
    BY DEF NoUp, Paths
  <1>1. q \in Paths /\ q # NoPath
    <2>1. NoUp(q)
      BY <1>0, SubPath DEF NoUp
    <2> QED BY <2>1, UpIsNoPath DEF NoUp
  <1>2. b \in Seq(Text) /\ b # <<>> /\ p = q \o b
    <2>1. p \in Seq(Text) /\ Len(p) \in Nat
      BY <1>0 DEF Paths
    <2>2. /\ q \in Seq(Text) /\ Len(q) = n
          /\ \A k \in 1..n : q[k] = p[k]
      BY <1>0, <1>1, SubPath DEF Paths
    <2>3. /\ b \in Seq(Text) /\ Len(b) = Len(p) - n
          /\ \A k \in 1..Len(p)-n : b[k] = p[n + k]
      BY <1>0, <2>1
    <2> HIDE DEF b, q
    <2>4. b # <<>>
      BY <1>0, <2>1, <2>3
    <2>5. q \o b \in Seq(Text) /\ Len(q \o b) = n + Len(b)
      <3>1. q \in Seq(Text) /\ b \in Seq(Text)
        BY <2>2, <2>3
      <3> QED BY <2>2, <3>1
    <2>6. Len(q \o b) = Len(p)
      BY <1>0, <2>1, <2>3, <2>5
    <2>7. ASSUME NEW k \in 1..Len(p) PROVE (q \o b)[k] = p[k]
      <3>1. (q \o b)[k] = IF k <= n THEN q[k] ELSE b[k - n]
        BY <1>0, <2>1, <2>2, <2>3, <2>6, <2>7
      <3>2. n + (k - n) = k /\ (k <= n \/ k - n \in 1..Len(p)-n)
        BY <1>0, <2>1
      <3> QED BY <1>0, <2>1, <2>2, <2>3, <3>1, <3>2
    <2>8. p = q \o b
      <3> DEFINE z == q \o b
      <3>1. z \in Seq(Text) /\ Len(z) = Len(p) /\ \A k \in 1..Len(p) : z[k] = p[k]
        BY <2>5, <2>6, <2>7
      <3> HIDE DEF z
      <3>2. p = z
        BY <2>1, <3>1
      <3> QED BY <3>2 DEF z
    <2> QED BY <2>3, <2>4, <2>8
  <1>3. Together(e, x, y, b)
    <2>1. Together(e, Walk(e, q, h), Walk(e, q \o b, h), b)
      <3> HIDE DEF b, q, h, e
      <3>1. h \in Nat
        BY HopsLeft DEF h
      <3> QED BY <1>1, <1>2, <3>1, WalkTogether DEF e
    <2> QED BY <1>2, <2>1
  <1>4. /\ Resolve(pkg, t, p) = y /\ Follow(e, p) = y /\ LinksOn(e, y) = {}
        /\ y # NoPath /\ ~NotADirectory(e, y)
        /\ y \notin DOMAIN e /\ ~IsUnavailable(pkg, t, y)
    <2>1. Follow(e, p) = IF LinksOn(e, y) = {} THEN y ELSE NoPath
      BY DEF Follow, AtRest
    <2>2. Resolve(pkg, t, p) = Placed(e, Follow(e, p))
      BY DEF Resolve, ResolveIn
    <2>3. Resolve(pkg, t, p) # NoPath
      BY DEF Nothing
    <2> HIDE DEF e, y
    <2>4. Follow(e, p) # NoPath /\ ~NotADirectory(e, Follow(e, p))
          /\ Resolve(pkg, t, p) = Follow(e, p)
      BY <2>2, <2>3 DEF Placed
    <2>5. LinksOn(e, y) = {} /\ Follow(e, p) = y
      BY <2>1, <2>4
    <2> QED BY <2>4, <2>5 DEF Nothing, e
  <1>5. Follow(e, q) = IF LinksOn(e, x) = {} THEN x ELSE NoPath
    BY DEF Follow, AtRest
  <1> HIDE DEF e, x, y, b, q
  <1>6. CASE x # NoPath /\ y = x \o b
    <2>1. /\ x \in Paths /\ y \in Paths /\ Len(y) = Len(x) + Len(b)
          /\ Len(x) \in Nat \ {0} /\ Len(b) \in Nat \ {0}
          /\ \A k \in 1..Len(x) : k \in 1..Len(y) /\ SubSeq(y, 1, k) = SubSeq(x, 1, k)
      <3>1. x \in Paths /\ y \in Paths
        BY <1>3 DEF Together
      <3>2. Len(x) \in Nat \ {0} /\ Len(b) \in Nat \ {0}
        BY <1>2, <3>1 DEF Paths
      <3> QED BY <1>2, <1>6, <3>1, <3>2, Cat
    <2>2. LinksOn(e, x) = {}
      BY <1>4, <2>1 DEF LinksOn
    <2>3. Follow(e, q) = x
      BY <1>5, <2>2
    <2>4. SubSeq(y, 1, Len(x)) = x /\ Len(x) \in 1..Len(y)-1 /\ Len(x) \in 1..Len(x)
      <3>1. Len(x) \in 1..Len(x) /\ Len(x) \in 1..Len(y)-1
        BY <2>1
      <3>2. SubSeq(y, 1, Len(x)) = SubSeq(x, 1, Len(x))
        BY <2>1, <3>1
      <3> QED BY <2>1, <3>1, <3>2, SubPath
    <2>5. ~NotADirectory(e, x)
      <3> SUFFICES ASSUME NEW k \in 1..Len(x)-1, SubSeq(x, 1, k) \in DOMAIN e,
                          e[SubSeq(x, 1, k)].kind = "file"
                   PROVE  FALSE
        BY DEF NotADirectory
      <3>1. k \in 1..Len(x) /\ k \in 1..Len(y)-1
        BY <2>1
      <3> QED BY <1>4, <2>1, <3>1 DEF NotADirectory
    <2>6. ~IsUnavailable(pkg, t, x)
      <3> SUFFICES ASSUME NEW u \in Unavailable(pkg, t), IsPrefix(u, x) PROVE FALSE
        BY DEF IsUnavailable
      <3>1. u \in Paths
        BY DEF Unavailable, Fit, Recorded, NoUp
      <3>2. IsPrefix(u, y)
        <4>1. Len(u) \in 1..Len(x) /\ u = SubSeq(x, 1, Len(u))
          BY <2>1, <3>1, SubPath DEF IsPrefix, Paths
        <4>2. Len(u) <= Len(y) /\ u = SubSeq(y, 1, Len(u))
          BY <2>1, <4>1
        <4> QED BY <4>2 DEF IsPrefix
      <3> QED BY <1>4, <3>2 DEF IsUnavailable
    <2>7. x \in DOMAIN e => e[x].kind = "directory"
      <3>1. x \in DOMAIN e => e[x].kind # "file"
        BY <1>4, <2>4 DEF NotADirectory
      <3>2. x \notin Links(e)
        <4>1. SubSeq(x, 1, Len(x)) = x
          BY <2>1, SubPath, <2>4
        <4> QED BY <2>2, <2>4, <4>1 DEF LinksOn
      <3>3. x \in DOMAIN e => e[x].kind \in {"file", "directory", "symlink"}
        BY KindsKnown DEF e
      <3> QED BY <3>1, <3>2, <3>3 DEF Links
    <2>8. Resolve(pkg, t, q) = x
      BY <1>6, <2>3, <2>5 DEF Resolve, ResolveIn, Placed, e
    <2>9. Judge(pkg, t, p, n) = JudgeAt(pkg, t, e, x, FALSE)
      BY <1>0, <2>8 DEF Judge, e, q
    <2> QED BY <1>6, <2>6, <2>7, <2>9 DEF JudgeAt, Fits
  <1>7. CASE x \in DOMAIN e /\ e[x].kind = "directory" /\ LinksOn(e, x) = {}
    <2>1. Follow(e, q) = x
      BY <1>5, <1>7
    <2>2. ~NotADirectory(e, x) /\ x # NoPath
      BY <1>7, EntriesAreNested, UpIsNoPath DEF NotADirectory, e
    <2>3. Resolve(pkg, t, q) = x
      BY <2>1, <2>2 DEF Resolve, ResolveIn, Placed, e
    <2>4. ~IsUnavailable(pkg, t, x)
      BY <1>7, EntryIsAvailable DEF e
    <2>5. Judge(pkg, t, p, n) = JudgeAt(pkg, t, e, x, FALSE)
      BY <1>0, <2>3 DEF Judge, e, q
    <2> QED BY <1>7, <2>2, <2>4, <2>5 DEF JudgeAt, Fits
  <1> QED BY <1>3, <1>4, <1>6, <1>7 DEF Together

LEMMA NothingIsIndexed ==
  ASSUME NEW pkg, NEW t, Fit(pkg, t), NEW p, Nothing(pkg, t, Resolve(pkg, t, p))
  PROVE  NativePath(pkg, t, p, "executable") = Absent
  <1> DEFINE v == Seen(pkg, t)
             e == Entries(pkg, t)
             at == Resolve(pkg, t, p)
  <1>1. at # NoPath /\ ~IsUnavailable(pkg, t, at) /\ at \notin DOMAIN e
    BY DEF Nothing
  <1>2. DOMAIN v \subseteq DOMAIN e
    BY EntriesShape
  <1>3. p \notin DOMAIN v
    BY <1>1, <1>2, EntryResolves
  <1>4. IndexedPath(pkg, t, p) = at
    BY <1>3 DEF IndexedPath
  <1>5. NativePath(pkg, t, p, "executable") = NativeAt(pkg, t, v, at, "executable")
    BY <1>4 DEF NativePath
  <1>6. at \notin DOMAIN v
    BY <1>1, <1>2
  <1> HIDE DEF v, at
  <1> QED BY <1>1, <1>5, <1>6, Zenon DEF NativeAt, e

LEMMA AbsentIsNothing ==
  ASSUME NEW pkg, NEW t, Fit(pkg, t), NEW p, NativePath(pkg, t, p, "executable") = Absent
  PROVE  Nothing(pkg, t, Resolve(pkg, t, p))
  <1> DEFINE v == Seen(pkg, t)
             at == IndexedPath(pkg, t, p)
  <1>1. Absent # Error /\ \A r : InGroup(r) # Absent
    BY DEF Absent, Error, InGroup
  <1>2. NativePath(pkg, t, p, "executable") = NativeAt(pkg, t, v, at, "executable")
    BY DEF NativePath
  <1>3. /\ at \notin DOMAIN v /\ at # NoPath /\ ~IsUnavailable(pkg, t, at)
        /\ at \notin DOMAIN Entries(pkg, t)
    <2> HIDE DEF v, at
    <2> QED BY <1>1, <1>2 DEF NativeAt
  <1>4. at = Resolve(pkg, t, p)
    BY <1>3 DEF IndexedPath
  <1> QED BY <1>3, <1>4 DEF Nothing

LEMMA CommandAgrees ==
  ASSUME NEW pkg, NEW t, Fit(pkg, t), NEW p, NoUp(p)
  PROVE  Command(pkg, t, <<p>>, TRUE, {p}) = OnDisk <=> Read(pkg, t, p) = None
  <1> DEFINE native == NativePath(pkg, t, p, "executable")
             passed == Passed(Judged(pkg, t, p))
             c == Candidate(pkg, t, p, TRUE, TRUE)
  <1>1. Command(pkg, t, <<p>>, TRUE, {p}) = c
    <2> DEFINE found == [n \in 1..Len(<<p>>) |->
                  Candidate(pkg, t, <<p>>[n], TRUE, <<p>>[n] \in {p})]
               some == {n \in DOMAIN found : found[n] # Absent}
    <2>1. Command(pkg, t, <<p>>, TRUE, {p}) = IF some = {} THEN Absent ELSE found[Min(some)]
      BY DEF Command
    <2>2. DOMAIN found = {1} /\ found[1] = c
      <3>1. 1..Len(<<p>>) = {1} /\ <<p>>[1] = p /\ (p \in {p}) = TRUE
        OBVIOUS
      <3> QED BY <3>1
    <2> HIDE DEF found, c
    <2>3. CASE c = Absent
      <3>1. some = {}
        BY <2>2, <2>3
      <3> QED BY <2>1, <2>3, <3>1
    <2>4. CASE c # Absent
      <3>1. some = {1}
        BY <2>2, <2>4
      <3>2. Min({1}) = 1
        BY MinIn
      <3>3. some # {} /\ Min(some) = 1
        BY <3>1, <3>2
      <3> QED BY <2>1, <2>2, <3>3
    <2> QED BY <2>3, <2>4
  <1>2. c = Chosen(passed, native, TRUE)
    BY DEF Candidate
  <1>3. OnDisk # Error /\ OnDisk # Absent /\ \A r : InGroup(r) # OnDisk
    BY DEF OnDisk, Error, Absent, InGroup
  <1>4. native # OnDisk
    BY <1>3 DEF NativePath, NativeAt
  <1>5. passed \in {"fits", "skipped", "fails"}
    <2> DEFINE parts == Judged(pkg, t, p)
    <2>1. \A n \in DOMAIN parts : parts[n] \in {"fits", "skipped", "fails"}
      BY DEF Judged, Judge, JudgeAt
    <2>2. DOMAIN parts \in SUBSET Nat
      BY DEF Judged
    <2> HIDE DEF parts
    <2>3. Unfit(parts) \in SUBSET Nat /\ Unfit(parts) \subseteq DOMAIN parts
      BY <2>2 DEF Unfit
    <2>4. Unfit(parts) # {} => parts[Min(Unfit(parts))] \in {"fits", "skipped", "fails"}
      BY <2>1, <2>3, MinIn
    <2> QED BY <2>4 DEF Passed, parts
  <1>6. c = OnDisk <=> passed = "fits" /\ native = Absent
    <2> HIDE DEF passed, native, c
    <2> QED BY <1>2, <1>3, <1>4, <1>5 DEF Chosen
  <1>7. native = Absent => Read(pkg, t, p) = None
    BY AbsentIsNothing, ReadsNothing
  <1>8. ASSUME Read(pkg, t, p) = None PROVE passed = "fits" /\ native = Absent
    <2>1. Nothing(pkg, t, Resolve(pkg, t, p))
      BY <1>8, ReadsNothing
    <2>2. \A n \in 1..Len(p)-1 : Judge(pkg, t, p, n) = "fits"
      BY <2>1, PartIsPassed
    <2>3. Judge(pkg, t, p, Len(p)) = "fits"
      <3> DEFINE end == Resolve(pkg, t, p)
                 e == Entries(pkg, t)
      <3>1. SubSeq(p, 1, Len(p)) = p
        BY DEF NoUp, Paths
      <3>2. Judge(pkg, t, p, Len(p)) = JudgeAt(pkg, t, e, end, TRUE)
        BY <3>1 DEF Judge
      <3>3. end # NoPath /\ ~IsUnavailable(pkg, t, end) /\ end \notin DOMAIN e
        BY <2>1 DEF Nothing
      <3> HIDE DEF end, e
      <3> QED BY <3>2, <3>3, Zenon DEF JudgeAt
    <2>4. \A n \in 1..Len(p) : Judged(pkg, t, p)[n] = "fits"
      <3>1. Len(p) \in Nat
        BY DEF NoUp, Paths
      <3>2. \A n \in 1..Len(p) : Judge(pkg, t, p, n) = "fits"
        BY <2>2, <2>3, <3>1, PartsBefore
      <3> QED BY <3>2 DEF Judged
    <2>5. Unfit(Judged(pkg, t, p)) = {}
      BY <2>4 DEF Unfit, Judged
    <2>6. passed = "fits"
      BY <2>5 DEF Passed
    <2> QED BY <2>1, <2>6, NothingIsIndexed
  <1> QED BY <1>1, <1>6, <1>7, <1>8

(* Every path is served or known to be unavailable. *)
LEMMA ServedOrNot ==
  ASSUME NEW pkg, NEW t, Fit(pkg, t), NEW r \in pkg.records
  PROVE  (r.path \in DOMAIN Entries(pkg, t)) # IsUnavailable(pkg, t, r.path)
  <1> DEFINE p == r.path
             e == Entries(pkg, t)
  <1>1. p \in Paths
    BY DEF Fit, Recorded, NoUp
  <1>2. p \in DOMAIN e => ~IsUnavailable(pkg, t, p)
    BY EntryIsAvailable
  <1>3. ASSUME p \notin DOMAIN e PROVE IsUnavailable(pkg, t, p)
    <2>1. ~Exists(Seen(pkg, t), p)
      BY <1>1, <1>3, ExistsInEntries
    <2>2. r \notin Selected(pkg.records, t)
      <3>1. p \notin DOMAIN Seen(pkg, t)
        BY <2>1 DEF Exists
      <3>2. p \notin {s.path : s \in Selected(pkg.records, t)}
        BY <3>1, SeenShape
      <3> QED BY <3>2
    <2>3. p \in Unavailable(pkg, t)
      BY <2>1, <2>2 DEF Unavailable, Seen
    <2>4. IsPrefix(p, p)
      BY <1>1, SubPath DEF IsPrefix, Paths
    <2> QED BY <2>3, <2>4 DEF IsUnavailable
  <1> QED BY <1>2, <1>3

LEMMA AskedPaths ==
  ASSUME \A r \in zip.records : Recorded(r), NEW p \in Asked
  PROVE  NoUp(p)
  <1> DEFINE paths == {r.path : r \in zip.records}
  <1>1. \A q \in paths : NoUp(q)
    BY DEF Recorded
  <1>2. ASSUME NEW q \in paths, NEW u \in paths, p = Append(q, Last(u)) PROVE NoUp(p)
    <2>1. q \in Seq(Text) /\ u \in Seq(Text) /\ Len(u) \in Nat /\ Len(u) # 0
          /\ (\A n \in 1..Len(q) : q[n] # Up) /\ (\A n \in 1..Len(u) : u[n] # Up)
      BY <1>1 DEF NoUp, Paths
    <2> DEFINE x == Last(u)
    <2>2. x \in Text /\ x # Up
      BY <2>1 DEF Last
    <2>3. p = Append(q, x)
      BY <1>2
    <2> HIDE DEF x, paths
    <2>4. /\ p \in Seq(Text) /\ Len(p) = Len(q) + 1 /\ Len(q) \in Nat
          /\ p[Len(q) + 1] = x /\ \A n \in 1..Len(q) : p[n] = q[n]
      BY <2>1, <2>2, <2>3
    <2>5. \A n \in 1..Len(p) : n \in 1..Len(q) \/ n = Len(q) + 1
      BY <2>4
    <2>6. p # <<>>
      BY <2>4
    <2> QED BY <2>1, <2>2, <2>4, <2>5, <2>6 DEF NoUp, Paths
  <1> QED BY <1>1, <1>2 DEF Asked
-----------------------------------------------------------------------------
(* What the packer carries from pass to pass. *)
DiskInv == \A pl \in DOMAIN disk : IsPath(pl[2]) /\ IsNode(disk[pl])

Listing(o) == NoUp(o.path) /\ o.group \in job.groups \cup {None}

Shaped(r) ==
  r = [path |-> r.path, source |-> r.source, group |-> r.group, target |-> r.target,
       kind |-> r.kind, size |-> r.size, link |-> r.link, exec |-> r.exec,
       sum |-> r.sum, native |-> r.native]

(* The archive has the bytes the index has a sum of. *)
Copied(pkg) ==
  \A s \in DOMAIN pkg.archive :
    pkg.archive[s].kind = "file" /\ SourceOf(pkg.records, s).kind # "directory" =>
      /\ pkg.archive[s].data = SourceOf(pkg.records, s).sum
      /\ pkg.archive[s].data \notin {None, "disk"}

Inv ==
  /\ job \in Jobs
  /\ DiskInv
  /\ pc = "stat" => \A o \in records : Listing(o)
  /\ pc = "digest" => \A r \in records : Shaped(r) /\ Recorded(r) /\ Listing(r)
  /\ pc = "write" => \A r \in records : Recorded(r)
  /\ pc \in {"check", "publish", "done"} =>
       (\A r \in zip.records : Recorded(r)) /\ Copied(zip)
  /\ pc \in {"publish", "done"} => Sound

LEMMA EmptySeq == ASSUME NEW S PROVE <<>> \in Seq(S)
  OBVIOUS

LEMMA EmptyPath == IsPath(<<>>)
  <1>1. <<>> \in Seq(STRING)
    BY EmptySeq, Zenon
  <1>2. \A n \in 1..Len(<<>>) : <<>>[n] # Up
    OBVIOUS
  <1> QED BY <1>1, <1>2, Zenon DEF IsPath

LEMMA PathText ==
  ASSUME NEW p, IsPath(p) PROVE p \in Seq(Text) /\ \A n \in 1..Len(p) : p[n] # Up
  BY Texts, Zenon DEF IsPath

LEMMA NodeText ==
  ASSUME NEW node, IsNode(node)
  PROVE  /\ node.link \in Seq(Text)
         /\ node.kind \in {"file", "directory", "symlink"}
         /\ node.kind = "file" => node.data \notin {None, "disk"}
  BY Texts, Zenon DEF IsNode

LEMMA NamedPaths ==
  ASSUME DiskInv, NEW tree, NEW to, IsPath(to), NEW name \in DOMAIN Named(tree, to)
  PROVE  NoUp(name)
  <1>1. PICK pl \in Listed(tree, to) : name = to \o pl[2]
    BY DEF Named
  <1>2. pl \in DOMAIN disk /\ name # <<>>
    BY <1>1 DEF Named, Listed
  <1> DEFINE rest == pl[2]
  <1>3. /\ to \in Seq(Text) /\ \A n \in 1..Len(to) : to[n] # Up
        /\ rest \in Seq(Text) /\ \A n \in 1..Len(rest) : rest[n] # Up
    BY <1>2, PathText DEF DiskInv
  <1>4. name = to \o rest
    BY <1>1
  <1> HIDE DEF rest
  <1> QED BY <1>2, <1>3, <1>4 DEF NoUp, Paths

LEMMA UnionPaths ==
  ASSUME DiskInv, NEW roots, \A r \in roots : IsPath(r[2]),
         NEW name \in DOMAIN Union(roots)
  PROVE  NoUp(name)
  <1>1. PICK r \in roots : name \in DOMAIN Named(r[1], r[2])
    BY DEF Union
  <1> QED BY <1>1, NamedPaths

LEMMA OriginsListed ==
  ASSUME job \in Jobs, DiskInv, NEW o \in Origins
  PROVE  Listing(o)
  <1>1. /\ \A r \in job.includes : IsPath(r[2])
        /\ \A g \in job.groups : \A t \in DOMAIN job.variants[g] :
             \A r \in job.variants[g][t] : IsPath(r[2])
    BY JobsAssumption DEF JobsAssumption
  <1>2. CASE \E name \in DOMAIN Union(Roots) :
               /\ o.path = name
               /\ o.group = IF GroupsOf(name) = {} THEN None
                            ELSE CHOOSE g \in GroupsOf(name) : TRUE
    <2>1. PICK name \in DOMAIN Union(Roots) :
               /\ o.path = name
               /\ o.group = IF GroupsOf(name) = {} THEN None
                            ELSE CHOOSE g \in GroupsOf(name) : TRUE
      BY <1>2
    <2>2. \A r \in Roots : IsPath(r[2])
      BY <1>1, EmptyPath DEF Roots
    <2>3. NoUp(name)
      BY <2>2, UnionPaths
    <2>4. o.group \in job.groups \cup {None}
      BY <2>1 DEF GroupsOf
    <2> QED BY <2>1, <2>3, <2>4 DEF Listing
  <1>3. CASE \E v \in Payloads : \E name \in DOMAIN Variant(v[1], v[2]) :
               o.path = name /\ o.group = v[1]
    <2>1. PICK v \in Payloads : \E name \in DOMAIN Variant(v[1], v[2]) :
               o.path = name /\ o.group = v[1]
      BY <1>3
    <2>2. PICK name \in DOMAIN Variant(v[1], v[2]) : o.path = name /\ o.group = v[1]
      BY <2>1
    <2>3. v[1] \in job.groups /\ v[2] \in DOMAIN job.variants[v[1]]
      BY <2>1 DEF Payloads
    <2>4. NoUp(name)
      BY <1>1, <2>2, <2>3, UnionPaths DEF Variant
    <2> QED BY <2>2, <2>3, <2>4 DEF Listing
  <1> DEFINE common == {[source |-> name, path |-> name, target |-> None,
                         place |-> Union(Roots)[name],
                         group |-> IF GroupsOf(name) = {} THEN None
                                   ELSE CHOOSE g \in GroupsOf(name) : TRUE]
                           : name \in DOMAIN Union(Roots)}
             own(g, t) == {[source |-> Payload(g, t) \o name, path |-> name,
                            target |-> t, group |-> g, place |-> Variant(g, t)[name]]
                             : name \in DOMAIN Variant(g, t)}
  <1>4. o \in common \cup UNION {own(v[1], v[2]) : v \in Payloads}
    BY Zenon DEF Origins
  <1>5. CASE o \in common
    <2>1. PICK name \in DOMAIN Union(Roots) :
            o = [source |-> name, path |-> name, target |-> None,
                 place |-> Union(Roots)[name],
                 group |-> IF GroupsOf(name) = {} THEN None
                           ELSE CHOOSE g \in GroupsOf(name) : TRUE]
      BY <1>5
    <2>2. o.path = name /\ o.group = IF GroupsOf(name) = {} THEN None
                                    ELSE CHOOSE g \in GroupsOf(name) : TRUE
      BY <2>1
    <2> QED BY <1>2, <2>2, Zenon
  <1>6. CASE o \in UNION {own(v[1], v[2]) : v \in Payloads}
    <2>1. PICK v \in Payloads : o \in own(v[1], v[2])
      BY <1>6
    <2>2. \E name \in DOMAIN Variant(v[1], v[2]) : o.path = name /\ o.group = v[1]
      BY <2>1
    <2> QED BY <1>3, <2>2
  <1> QED BY <1>4, <1>5, <1>6

LEMMA InitInv == Init => Inv
  BY JobsAssumption DEF JobsAssumption, Init, Inv, DiskInv

LEMMA StopInv == ASSUME Inv, Stop PROVE Inv'
  BY DEF Stop, Inv, DiskInv

LEMMA CollectInv == ASSUME Inv, Collect PROVE Inv'
  <1>1. CASE Stop
    BY <1>1, StopInv
  <1>2. CASE ~Stop
    <2>1. pc' = "stat" /\ records' = Origins /\ UNCHANGED <<job, disk>>
      BY <1>2 DEF Collect, Pass
    <2>2. \A o \in records' : Listing(o)
      BY <2>1, OriginsListed DEF Inv
    <2> QED BY <2>1, <2>2 DEF Inv, DiskInv, Listing
  <1> QED BY <1>1, <1>2

LEMMA StatInv == ASSUME Inv, Stat PROVE Inv'
  <1>1. CASE Stop
    BY <1>1, StopInv
  <1>2. CASE ~Stop
    <2>1. /\ pc = "stat" /\ pc' = "digest" /\ UNCHANGED <<job, disk>>
          /\ records' = {Described(o) : o \in records}
          /\ \A o \in records : o.place \in DOMAIN disk
      BY <1>2 DEF Stat, Pass
    <2>2. ASSUME NEW o \in records
          PROVE  Shaped(Described(o)) /\ Recorded(Described(o)) /\ Listing(Described(o))
      <3>1. /\ disk[o.place].link \in Seq(Text) /\ Listing(o)
            /\ disk[o.place].kind \in {"file", "directory", "symlink"}
        BY <2>1, NodeText DEF Inv, DiskInv
      <3>2. /\ Described(o).path = o.path /\ Described(o).group = o.group
            /\ Described(o).link = disk[o.place].link /\ Described(o).native = None
            /\ Described(o).kind = disk[o.place].kind
        BY DEF Described
      <3>3. Shaped(Described(o))
        BY DEF Described, Shaped
      <3> QED BY <3>1, <3>2, <3>3 DEF Recorded, Listing
    <2>3. \A r \in records' : Shaped(r) /\ Recorded(r) /\ Listing(r)
      BY <2>1, <2>2
    <2> QED BY <2>1, <2>3 DEF Inv, DiskInv, Listing
  <1> QED BY <1>1, <1>2

LEMMA RolesKnown ==
  ASSUME Inv, NEW r, Listing(r), NEW role \in Roles(r)
  PROVE  role \in Usages
  <1>1. r.group \in job.groups /\ \E d \in job.native[r.group] : role = d[1]
    BY DEF Roles, Listing
  <1> QED BY <1>1, JobsAssumption DEF JobsAssumption, Inv

LEMMA DigestedRecorded ==
  ASSUME Inv, NEW r, Shaped(r), Recorded(r), Listing(r)
  PROVE  Shaped(Digested(r)) /\ Recorded(Digested(r))
  <1>1. CASE r.kind # "file"
    BY <1>1 DEF Digested
  <1>2. CASE r.kind = "file"
    <2> DEFINE d == Digested(r)
    <2>1. d = [r EXCEPT !.sum = Bytes(entries[r.source]),
                 !.native = IF Roles(r) = {} THEN None ELSE CHOOSE role \in Roles(r) : TRUE,
                 !.exec = @ \/ "executable" \in Roles(r)]
      BY <1>2 DEF Digested
    <2>2. /\ Shaped(d) /\ d.path = r.path /\ d.link = r.link /\ d.kind = r.kind
          /\ d.native = IF Roles(r) = {} THEN None ELSE CHOOSE role \in Roles(r) : TRUE
      BY <2>1 DEF Shaped
    <2>3. d.native # None => d.native \in Usages
      BY <2>2, RolesKnown
    <2> QED BY <2>2, <2>3 DEF Recorded
  <1> QED BY <1>1, <1>2

LEMMA DigestInv == ASSUME Inv, Digest PROVE Inv'
  <1>1. CASE Stop
    BY <1>1, StopInv
  <1>2. CASE ~Stop
    <2> DEFINE recs == {Digested(r) : r \in records}
               short == {[r EXCEPT !.source = Short(recs, r)] : r \in recs}
    <2>1. pc = "digest" /\ pc' = "write" /\ records' = short /\ UNCHANGED <<job, disk>>
      BY <1>2 DEF Digest, Pass
    <2>2. ASSUME NEW r \in records
          PROVE  Shaped(Digested(r)) /\ Recorded(Digested(r))
      <3>1. Shaped(r) /\ Recorded(r) /\ Listing(r)
        BY <2>1 DEF Inv
      <3> QED BY <3>1, DigestedRecorded
    <2>3. ASSUME NEW r \in records' PROVE Recorded(r)
      <3>1. PICK q \in recs : r = [q EXCEPT !.source = Short(recs, q)]
        BY <2>1
      <3>2. Shaped(q) /\ Recorded(q)
        BY <2>2
      <3>3. r.path = q.path /\ r.link = q.link /\ r.native = q.native /\ r.kind = q.kind
        BY <3>1, <3>2 DEF Shaped
      <3> QED BY <3>2, <3>3 DEF Recorded
    <2> QED BY <2>1, <2>3 DEF Inv, DiskInv
  <1> QED BY <1>1, <1>2

LEMMA WriteInv == ASSUME Inv, Write PROVE Inv'
  <1>1. CASE Stop
    BY <1>1, StopInv
  <1>2. CASE ~Stop
    <2>1. /\ pc = "write" /\ pc' = "check" /\ UNCHANGED <<job, disk>>
          /\ \A s \in DOMAIN entries : Writable(s)
          /\ zip'.records = records
          /\ zip'.archive = [s \in DOMAIN entries |-> Raw(disk[entries[s]])]
      BY <1>2 DEF Write, Pass
    <2>2. \A r \in zip'.records : Recorded(r)
      BY <2>1 DEF Inv
    <2>3. ASSUME NEW s \in DOMAIN zip'.archive, zip'.archive[s].kind = "file",
                 SourceOf(zip'.records, s).kind # "directory"
          PROVE  /\ zip'.archive[s].data = SourceOf(zip'.records, s).sum
                 /\ zip'.archive[s].data \notin {None, "disk"}
      <3>1. /\ s \in DOMAIN entries /\ Unchanged(SourceOf(records, s), disk[entries[s]])
            /\ entries[s] \in DOMAIN disk
        BY <2>1 DEF Writable
      <3>2. zip'.archive[s].kind = disk[entries[s]].kind
            /\ zip'.archive[s].data = disk[entries[s]].data
        BY <2>1, <3>1 DEF Raw
      <3>3. disk[entries[s]].kind = "file" => disk[entries[s]].data \notin {None, "disk"}
        BY <3>1, NodeText DEF Inv, DiskInv
      <3> QED BY <2>1, <2>3, <3>1, <3>2, <3>3 DEF Unchanged
    <2> QED BY <2>1, <2>2, <2>3 DEF Inv, DiskInv, Copied
  <1> QED BY <1>1, <1>2

LEMMA SoundKept ==
  ASSUME UNCHANGED <<job, zip>> PROVE Sound' <=> Sound
  BY DEF Sound, HostTarget, Entries, Resolve

LEMMA CheckInv == ASSUME Inv, Check PROVE Inv'
  <1>1. CASE Stop
    BY <1>1, StopInv
  <1>2. CASE ~Stop
    <2>1. pc = "check" /\ pc' = "publish" /\ Sound /\ UNCHANGED <<job, disk, zip>>
      BY <1>2 DEF Check, Pass
    <2>2. Sound'
      BY <2>1, SoundKept
    <2> QED BY <2>1, <2>2 DEF Inv, DiskInv, Copied
  <1> QED BY <1>1, <1>2

LEMMA PublishInv == ASSUME Inv, Publish PROVE Inv'
  <1>1. CASE Stop
    BY <1>1, StopInv
  <1>2. CASE ~Stop
    <2>1. pc = "publish" /\ pc' = "done" /\ UNCHANGED <<job, disk, zip>>
      BY <1>2 DEF Publish
    <2>2. Sound'
      BY <2>1, SoundKept DEF Inv
    <2> QED BY <2>1, <2>2 DEF Inv, DiskInv, Copied
  <1> QED BY <1>1, <1>2

LEMMA WorldInv ==
  ASSUME Inv, Rival \/ (\E place \in DOMAIN disk : Edit(place)) PROVE Inv'
  <1>1. DiskInv'
    <2>1. CASE Rival
      BY <2>1 DEF Rival, Inv, DiskInv
    <2>2. ASSUME NEW place \in DOMAIN disk, Edit(place) PROVE DiskInv'
      BY <2>2, JobsAssumption DEF JobsAssumption, Edit, Inv, DiskInv
    <2> QED BY <2>1, <2>2
  <1>2. UNCHANGED <<job, pc, records, zip>>
    BY DEF Rival, Edit
  <1>3. Sound' <=> Sound
    BY <1>2, SoundKept
  <1> QED BY <1>1, <1>2, <1>3 DEF Inv, Listing, Copied

LEMMA Invariant == Spec => []Inv
  <1>1. Inv /\ [Next]_vars => Inv'
    <2> SUFFICES ASSUME Inv, [Next]_vars PROVE Inv'
      OBVIOUS
    <2>1. CASE UNCHANGED vars
      <3>1. UNCHANGED <<job, disk, pc, records, zip>>
        BY <2>1 DEF vars
      <3>2. Sound' <=> Sound
        BY <3>1, SoundKept
      <3> QED BY <3>1, <3>2 DEF Inv, DiskInv, Listing, Copied
    <2> QED
      BY <2>1, CollectInv, StatInv, DigestInv, WriteInv, CheckInv, PublishInv, WorldInv
      DEF Next
  <1> QED BY <1>1, InitInv, PTL DEF Spec

LEMMA PublishedFits ==
  ASSUME Inv, Published,
         NEW t \in IF zip.targets = {} THEN {HostTarget} ELSE zip.targets
  PROVE  Fit(zip, t)
  <1>1. (\A r \in zip.records : Recorded(r)) /\ Copied(zip) /\ Opens(zip, HostTarget)
    BY DEF Inv, Published, Sound
  <1>2. Indexed(zip) /\ Valid(zip.records, t)
    BY <1>1 DEF Opens, Validated
  <1>3. Stored(zip)
    <2> SUFFICES ASSUME NEW r \in zip.records, r.kind = "file",
                        zip.archive[r.source].kind = "file"
                 PROVE  zip.archive[r.source].data = r.sum /\ r.sum \notin {None, "disk"}
      BY DEF Stored
    <2>1. r.source \in DOMAIN zip.archive
      BY <1>2 DEF Indexed
    <2>2. SourceOf(zip.records, r.source) = r
      BY <1>2 DEF SourceOf, Indexed
    <2> QED BY <1>1, <2>1, <2>2 DEF Copied
  <1> QED BY <1>1, <1>2, <1>3 DEF Fit

(* A published package is complete on every platform it is for: each file
   reads as the bytes that were hashed, each link leads to an entry, and each
   native file is found in its group, whatever happened to the disk while it
   was packed. *)
THEOREM PackagesAreUsable == Spec => []EveryPlatformReads
  <1>1. Inv => EveryPlatformReads
    BY PublishedFits, FitIsUsable DEF EveryPlatformReads
  <1> QED BY <1>1, Invariant, PTL

(* What a published package says of a path it may be asked for on a platform
   that it is for: a path of any of its records is in the platform's tree or
   known to be unavailable, the mounted tree is that tree, and the file system,
   the reader of configuration files and the search for a command fall through
   to the disk at the same paths, but for those behind a link. *)
THEOREM NoPathFallsThrough == Spec => []ServedOrUnavailable
  <1>1. ASSUME Inv, Published, NEW t \in zip.targets
        PROVE  Served(t, Entries(zip, t), Mounted(zip, t))
    <2>1. Fit(zip, t)
      BY <1>1, PublishedFits
    <2>2. Mounted(zip, t) = Entries(zip, t)
      BY <2>1, AllMounted
    <2>3. ASSUME NEW p \in Asked
          PROVE  Agreed(t, Entries(zip, t), p, Read(zip, t, p) # None)
      <3>1. NoUp(p)
        BY <2>1, <2>3, AskedPaths DEF Fit
      <3>2. DnrContains(zip, t, Entries(zip, t), p)
              <=> Read(zip, t, p) # None \/ LinksOn(Entries(zip, t), p) # {}
        BY <2>1, <3>1, FileSystemAgrees
      <3>3. ReadText(zip, t, p, "disk") = "disk" <=> Read(zip, t, p) = None
        BY <2>1, TextAgrees
      <3>4. Command(zip, t, <<p>>, TRUE, {p}) = OnDisk <=> Read(zip, t, p) = None
        BY <2>1, <3>1, CommandAgrees
      <3> DEFINE has == Read(zip, t, p) # None
                 held == DnrContains(zip, t, Entries(zip, t), p)
                 linked == LinksOn(Entries(zip, t), p) # {}
      <3>5. held \in BOOLEAN
        BY DEF DnrContains, IsUnavailable
      <3> HIDE DEF held
      <3>6. held = (has \/ linked)
        BY <3>2, <3>5 DEF held
      <3> QED BY <3>3, <3>4, <3>6 DEF Agreed, held
    <2>4. \A r \in zip.records :
            (r.path \in DOMAIN Entries(zip, t)) # IsUnavailable(zip, t, r.path)
      BY <2>1, ServedOrNot
    <2> QED BY <2>2, <2>3, <2>4 DEF Served
  <1>2. Inv => ServedOrUnavailable
    BY <1>1 DEF ServedOrUnavailable
  <1> QED BY <1>2, Invariant, PTL

(* What somebody else published meanwhile is replaced only with --force. *)
THEOREM RivalsAreKept == Spec => NotClobbered
  <1>1. [Next]_vars => [~job.force /\ output # "none" => output' = output]_output
    BY DEF Next, vars, Collect, Stat, Digest, Write, Check, Publish, Edit, Rival, Stop,
       Pass, MayReplace
  <1> QED BY <1>1, PTL DEF Spec, NotClobbered

-----------------------------------------------------------------------------
(* Names.  No two records get the same source, because the source of a payload
   keeps what tells it from others: its number and its path without a part
   that all paths of its group have in common. *)
Sourced(o) ==
  /\ o.target = None => ~Reserved(o.source)
  /\ o.target # None => o.source = Payload(o.group, o.target) \o o.path

Unique(recs) == \A r, s \in recs : r.source = s.source => r = s

NameInv ==
  /\ TypeOK
  /\ pc \in {"stat", "digest"} => \A o \in records : Sourced(o)

Joined(x, a, u) ==
  /\ Len(a) \in Nat /\ Len(u) \in Nat /\ Len(x) = Len(a) + Len(u)
  /\ \A k \in 1..Len(a) : x[k] = a[k]
  /\ \A k \in 1..Len(u) : x[Len(a) + k] = u[k]

LEMMA CatAt ==
  ASSUME NEW S, NEW a \in Seq(S), NEW u \in Seq(S)
  PROVE  Joined(a \o u, a, u)
  <1>1. Len(a) \in Nat /\ Len(u) \in Nat /\ Len(a \o u) = Len(a) + Len(u)
    OBVIOUS
  <1>2. \A k \in 1..Len(a) : (a \o u)[k] = a[k]
    OBVIOUS
  <1>3. ASSUME NEW k \in 1..Len(u) PROVE (a \o u)[Len(a) + k] = u[k]
    <2>1. Len(a) + k \in 1..Len(a) + Len(u) /\ ~(Len(a) + k <= Len(a))
          /\ Len(a) + k - Len(a) = k
      BY <1>1
    <2> QED BY <1>1, <2>1
  <1> QED BY <1>1, <1>2, <1>3 DEF Joined

LEMMA SameParts ==
  ASSUME NEW S, NEW u \in Seq(S), NEW v \in Seq(S), Len(u) = Len(v),
         \A k \in 1..Len(u) : u[k] = v[k]
  PROVE  u = v
  OBVIOUS

LEMMA CatParts ==
  ASSUME NEW S, NEW a \in Seq(S), NEW b \in Seq(S), NEW u \in Seq(S), NEW v \in Seq(S),
         Len(a) = Len(b), a \o u = b \o v
  PROVE  a = b /\ u = v
  <1> DEFINE x == a \o u
  <1>1. Joined(x, a, u)
    BY CatAt, Zenon
  <1>2. Joined(x, b, v)
    <2>1. Joined(b \o v, b, v)
      BY CatAt, Zenon
    <2> QED BY <2>1, Zenon
  <1> HIDE DEF x
  <1>3. Len(u) = Len(v)
    BY <1>1, <1>2 DEF Joined
  <1>4. a = b
    <2>1. \A k \in 1..Len(a) : a[k] = b[k]
      BY <1>1, <1>2 DEF Joined
    <2> QED BY <2>1, SameParts
  <1>5. u = v
    <2>1. \A k \in 1..Len(u) : u[k] = v[k]
      BY <1>1, <1>2, <1>3 DEF Joined
    <2> QED BY <1>3, <2>1, SameParts
  <1> QED BY <1>4, <1>5

LEMMA LongestIsCommon ==
  ASSUME NEW X, X \subseteq Seq(Text), NEW p \in X
  PROVE  IsPrefix(LongestCommonPrefix(X), p) /\ Len(LongestCommonPrefix(X)) \in Nat
  <1> DEFINE C == CommonPrefixes(X)
             D == {n \in Nat : \E c \in C : n = Len(p) - Len(c)}
  <1>1. ASSUME NEW c \in C
        PROVE  IsPrefix(c, p) /\ Len(c) \in Nat /\ Len(c) <= Len(p)
    <2>1. IsPrefix(c, p) /\ c \in UNION {Prefixes(t) : t \in X}
      BY DEF CommonPrefixes
    <2>2. PICK t \in X : c \in Prefixes(t)
      BY <2>1
    <2>3. PICK l \in 0..Len(t) : c = SubSeq(t, 1, l)
      BY <2>2 DEF Prefixes
    <2>4. Len(c) \in Nat
      BY <2>3
    <2> QED BY <2>1, <2>4 DEF IsPrefix
  <1>2. <<>> \in C
    <2>1. /\ Len(p) \in Nat /\ 0 \in 0..Len(p) /\ SubSeq(p, 1, 0) = <<>>
      OBVIOUS
    <2>2. <<>> \in Prefixes(p)
      BY <2>1 DEF Prefixes
    <2>3. ASSUME NEW t \in X PROVE IsPrefix(<<>>, t)
      <3>1. t \in Seq(Text) /\ Len(t) \in Nat /\ Len(<<>>) = 0
        OBVIOUS
      <3>2. SubSeq(<<>>, 1, 0) = SubSeq(t, 1, 0)
        BY <3>1
      <3> QED BY <3>1, <3>2 DEF IsPrefix
    <2> QED BY <2>2, <2>3 DEF CommonPrefixes
  <1> HIDE DEF C
  <1>3. D \in SUBSET Nat /\ D # {}
    <2>1. Len(p) - Len(<<>>) \in Nat
      BY <1>1, <1>2
    <2> QED BY <1>2, <2>1
  <1>4. PICK m \in D : \A n \in D : m <= n
    BY <1>3, MinIn
  <1>5. PICK c \in C : m = Len(p) - Len(c)
    OBVIOUS
  <1>6. \A d \in C : Len(d) <= Len(c)
    <2> SUFFICES ASSUME NEW d \in C PROVE Len(d) <= Len(c)
      OBVIOUS
    <2>1. /\ Len(d) \in Nat /\ Len(c) \in Nat /\ Len(d) <= Len(p) /\ Len(p) \in Nat
      BY <1>1
    <2>2. Len(p) - Len(d) \in D
      BY <2>1
    <2>3. m <= Len(p) - Len(d)
      BY <1>4, <2>2
    <2> QED BY <1>5, <2>1, <2>3
  <1>7. LongestCommonPrefix(X) \in C
    BY <1>6 DEF LongestCommonPrefix, C
  <1> QED BY <1>1, <1>7

LEMMA RootIsShared ==
  ASSUME NEW recs, \A r \in recs : Recorded(r), NEW r \in recs
  PROVE  IsPrefix(GroupRoot(recs, r.group), r.path) /\ Len(GroupRoot(recs, r.group)) \in Nat
  <1> DEFINE named(q) == {q.path} \cup
               (IF q.kind = "symlink" THEN {Parts(ResolveLink(q.path, q.link))} ELSE {})
             X == UNION {named(q) : q \in {q \in recs : q.group = r.group}}
  <1>1. ASSUME NEW q \in recs PROVE named(q) \subseteq Seq(Text)
    <2>1. q.path \in Seq(Text) /\ ResolveLink(q.path, q.link) \in Seq(Text)
      BY ResolveLinkType DEF Recorded, NoUp, Paths
    <2>2. Parts(ResolveLink(q.path, q.link)) \in Seq(Text)
      <3>1. <<>> \in Seq(Text)
        OBVIOUS
      <3> QED BY <2>1, <3>1, Zenon DEF Parts
    <2> QED BY <2>1, <2>2
  <1>2. X \subseteq Seq(Text)
    BY <1>1
  <1>3. r.path \in X
    OBVIOUS
  <1>4. GroupRoot(recs, r.group) = LongestCommonPrefix(X)
    BY DEF GroupRoot
  <1> HIDE DEF X
  <1> QED BY <1>2, <1>3, <1>4, LongestIsCommon

(* The rest of a path after a part that it shares with another. *)
Rest(root, p) == SubSeq(p, Len(root) + 1, Len(p))

LEMMA RestTells ==
  ASSUME NEW p \in Seq(Text), NEW q \in Seq(Text), NEW root, Len(root) \in Nat,
         IsPrefix(root, p), IsPrefix(root, q), Rest(root, p) = Rest(root, q)
  PROVE  p = q
  <1> DEFINE n == Len(root)
  <1>1. /\ n \in Nat /\ Len(p) \in Nat /\ Len(q) \in Nat /\ n <= Len(p) /\ n <= Len(q)
        /\ SubSeq(p, 1, n) = SubSeq(q, 1, n)
    BY DEF IsPrefix
  <1>2. SubSeq(p, n + 1, Len(p)) = SubSeq(q, n + 1, Len(q))
    BY DEF Rest
  <1> HIDE DEF n
  <1>3. Len(p) = Len(q)
    <2>1. Len(SubSeq(p, n + 1, Len(p))) = Len(p) - n
      BY <1>1
    <2>2. Len(SubSeq(q, n + 1, Len(q))) = Len(q) - n
      BY <1>1
    <2> QED BY <1>1, <1>2, <2>1, <2>2
  <1>4. ASSUME NEW k \in 1..Len(p) PROVE p[k] = q[k]
    <2>1. CASE k <= n
      <3>1. SubSeq(p, 1, n)[k] = p[k] /\ SubSeq(q, 1, n)[k] = q[k]
        BY <1>1, <2>1
      <3> QED BY <1>1, <3>1
    <2>2. CASE k > n
      <3>1. SubSeq(p, n + 1, Len(p))[k - n] = p[k]
        BY <1>1, <2>2
      <3>2. SubSeq(q, n + 1, Len(q))[k - n] = q[k]
        BY <1>1, <1>3, <2>2
      <3> QED BY <1>2, <3>1, <3>2
    <2> QED BY <1>1, <2>1, <2>2
  <1> QED BY <1>3, <1>4

(* The rest of a path is a sequence. *)
LEMMA RestType ==
  ASSUME NEW p \in Seq(Text), NEW root, Len(root) \in Nat
  PROVE  Rest(root, p) \in Seq(Text)
  BY DEF Rest

(* A short name of a payload, by its number and the rest of its path. *)
Numbered(number, rest) == <<".dnr", "p", number>> \o rest

LEMMA NumbersTell ==
  ASSUME NEW x, NEW y, NEW u \in Seq(Text), NEW v \in Seq(Text)
  PROVE  /\ Numbered(x, u) = Numbered(y, v) => x = y /\ u = v
         /\ Head(Numbered(x, u)) = ".dnr"
  <1> DEFINE S == Text \cup {".dnr", "p", x, y}
             a == <<".dnr", "p", x>>
             b == <<".dnr", "p", y>>
  <1>1. a \in Seq(S) /\ b \in Seq(S) /\ Len(a) = 3 /\ Len(b) = 3
        /\ a[1] = ".dnr" /\ a[3] = x /\ b[3] = y
    OBVIOUS
  <1>2. u \in Seq(S) /\ v \in Seq(S)
    BY SeqOfMore, Zenon
  <1>3. Numbered(x, u) = a \o u /\ Numbered(y, v) = b \o v
    BY DEF Numbered
  <1> HIDE DEF S, a, b
  <1>4. ASSUME a \o u = b \o v PROVE x = y /\ u = v
    <2>1. a = b /\ u = v
      <3>1. Len(a) = Len(b)
        BY <1>1
      <3> QED BY <1>1, <1>2, <1>4, <3>1, CatParts, Zenon
    <2> QED BY <1>1, <2>1
  <1>5. Head(a \o u) = ".dnr"
    <2>1. Joined(a \o u, a, u)
      BY <1>1, <1>2, CatAt
    <2>2. (a \o u)[1] = ".dnr"
      BY <1>1, <2>1 DEF Joined
    <2>3. a \o u \in Seq(S) /\ a \o u # <<>>
      <3>1. a \o u \in Seq(S)
        BY <1>1, <1>2
      <3>2. Len(a \o u) # 0
        BY <1>1, <2>1 DEF Joined
      <3> QED BY <3>1, <3>2
    <2> QED BY <2>2, <2>3
  <1> QED BY <1>3, <1>4, <1>5

LEMMA ShortIs ==
  ASSUME NEW recs, \A r \in recs : Recorded(r), NEW r \in recs
  PROVE  LET root == GroupRoot(recs, r.group)
         IN  Short(recs, r) =
               IF r.target = None THEN r.source
               ELSE IF r.group \notin Linked(recs) THEN Numbered(<<r.source>>, <<>>)
               ELSE Numbered(<<r.group, r.target>>, Rest(root, r.path))
  <1>1. <<".dnr", "p", <<r.source>>>> = Numbered(<<r.source>>, <<>>)
    BY DEF Numbered
  <1> QED BY <1>1, Zenon DEF Short, Numbered, Rest

LEMMA ShortTells ==
  ASSUME NEW recs, \A r \in recs : Recorded(r) /\ Sourced(r), Unique(recs),
         NEW r \in recs, NEW s \in recs, Short(recs, r) = Short(recs, s)
  PROVE  r = s
  <1> DEFINE root == GroupRoot(recs, r.group)
             roots == GroupRoot(recs, s.group)
             u == Rest(root, r.path)
             v == Rest(roots, s.path)
  <1>0. /\ r.path \in Seq(Text) /\ s.path \in Seq(Text) /\ <<>> \in Seq(Text)
        /\ Len(root) \in Nat /\ Len(roots) \in Nat
        /\ IsPrefix(root, r.path) /\ IsPrefix(roots, s.path)
    BY RootIsShared DEF Recorded, NoUp, Paths
  <1>1. u \in Seq(Text) /\ v \in Seq(Text)
    BY <1>0, RestType
  <1> DEFINE rn == <<r.source>>
             sn == <<s.source>>
             rg == <<r.group, r.target>>
             sg == <<s.group, s.target>>
  <1>2. /\ Short(recs, r) =
               IF r.target = None THEN r.source
               ELSE IF r.group \notin Linked(recs) THEN Numbered(rn, <<>>) ELSE Numbered(rg, u)
        /\ Short(recs, s) =
               IF s.target = None THEN s.source
               ELSE IF s.group \notin Linked(recs) THEN Numbered(sn, <<>>) ELSE Numbered(sg, v)
    BY ShortIs
  <1>3. /\ rn = sn => r.source = s.source
        /\ rn # sg /\ sn # rg
        /\ rg = sg => r.group = s.group /\ r.target = s.target
    OBVIOUS
  <1> HIDE DEF u, v, root, roots, rn, sn, rg, sg
  <1>4. /\ r.target # None => Head(Short(recs, r)) = ".dnr"
        /\ s.target # None => Head(Short(recs, s)) = ".dnr"
    <2>1. /\ Head(Numbered(rn, <<>>)) = ".dnr" /\ Head(Numbered(rg, u)) = ".dnr"
          /\ Head(Numbered(sn, <<>>)) = ".dnr" /\ Head(Numbered(sg, v)) = ".dnr"
      BY <1>0, <1>1, NumbersTell
    <2> QED BY <1>2, <2>1
  <1>5. /\ r.target = None => Head(Short(recs, r)) # ".dnr"
        /\ s.target = None => Head(Short(recs, s)) # ".dnr"
    BY <1>2 DEF Sourced, Reserved
  <1>6. CASE r.target = None
    <2>1. s.target = None
      BY <1>4, <1>5, <1>6
    <2> QED BY <1>2, <1>6, <2>1 DEF Unique
  <1>7. CASE r.target # None
    <2>1. s.target # None
      BY <1>4, <1>5, <1>7
    <2>2. CASE r.group \notin Linked(recs) /\ s.group \notin Linked(recs)
      <3>1. Numbered(rn, <<>>) = Numbered(sn, <<>>)
        BY <1>2, <1>7, <2>1, <2>2
      <3>2. rn = sn
        BY <1>0, <3>1, NumbersTell, Zenon
      <3> QED BY <1>3, <3>2 DEF Unique
    <2>3. CASE r.group \notin Linked(recs) /\ s.group \in Linked(recs)
      <3>1. Numbered(rn, <<>>) = Numbered(sg, v)
        BY <1>2, <1>7, <2>1, <2>3
      <3>2. rn = sg
        BY <1>0, <1>1, <3>1, NumbersTell, Zenon
      <3> QED BY <1>3, <3>2
    <2>4. CASE r.group \in Linked(recs) /\ s.group \notin Linked(recs)
      <3>1. Numbered(sn, <<>>) = Numbered(rg, u)
        BY <1>2, <1>7, <2>1, <2>4
      <3>2. sn = rg
        BY <1>0, <1>1, <3>1, NumbersTell, Zenon
      <3> QED BY <1>3, <3>2
    <2>5. CASE r.group \in Linked(recs) /\ s.group \in Linked(recs)
      <3>1. Numbered(rg, u) = Numbered(sg, v)
        BY <1>2, <1>7, <2>1, <2>5
      <3>2. rg = sg /\ u = v
        BY <1>1, <3>1, NumbersTell
      <3>3. r.group = s.group /\ r.target = s.target
        BY <1>3, <3>2
      <3>4. root = roots
        BY <3>3 DEF root, roots
      <3>5. r.path = s.path
        BY <1>0, <3>2, <3>4, RestTells DEF u, v
      <3>6. r.source = s.source
        BY <1>7, <2>1, <3>3, <3>5 DEF Sourced
      <3> QED BY <3>6 DEF Unique
    <2> QED BY <2>2, <2>3, <2>4, <2>5
  <1> QED BY <1>6, <1>7

(* What has no platform is none of the payloads. *)
LEMMA NamesAreOpen ==
  ASSUME job \in Jobs, DiskInv, NEW tree, NEW to, IsPath(to), Collectable(tree, to),
         NEW name \in DOMAIN Named(tree, to)
  PROVE  ~Reserved(name)
  <1>1. CASE \A n \in DOMAIN Named(tree, to) : ~Reserved(n)
    BY <1>1
  <1>2. CASE Excluded(to) /\ to # <<>>
    <2>1. PICK pl \in Listed(tree, to) : name = to \o pl[2]
      BY DEF Named
    <2> DEFINE rest == pl[2]
    <2>2. pl \in DOMAIN disk /\ ~Excluded(to \o rest)
      BY <2>1 DEF Listed
    <2>3. to \in Seq(Text) /\ rest \in Seq(Text)
      BY <2>2, PathText DEF DiskInv
    <2> HIDE DEF rest
    <2>4. to \in Paths
      BY <1>2, <2>3 DEF Paths
    <2>5. /\ Len(to \o rest) = Len(to) + Len(rest)
          /\ \A k \in 1..Len(to) : /\ k \in 1..Len(to \o rest) /\ (to \o rest)[k] = to[k]
                                 /\ SubSeq(to \o rest, 1, k) = SubSeq(to, 1, k)
      BY <2>3, <2>4, Cat, CatAt DEF Joined
    <2>6. CASE \E n \in 1..Len(to) : to[n] = ".git"
      BY <2>2, <2>5, <2>6 DEF Excluded
    <2>7. CASE \E x \in job.excludes : IsPrefix(x, to)
      <3>1. PICK x \in job.excludes : IsPrefix(x, to)
        BY <2>7
      <3>2. x \in Seq(Text)
        BY Texts, JobsAssumption, Zenon DEF JobsAssumption
      <3>3. /\ Len(x) \in Nat /\ Len(x) <= Len(to) /\ Len(to) \in Nat /\ Len(rest) \in Nat
            /\ SubSeq(x, 1, Len(x)) = SubSeq(to, 1, Len(x))
        BY <2>3, <3>1, <3>2 DEF IsPrefix
      <3>4. SubSeq(to \o rest, 1, Len(x)) = SubSeq(to, 1, Len(x))
        <4>1. CASE Len(x) = 0
          <5>1. SubSeq(to \o rest, 1, 0) = <<>> /\ SubSeq(to, 1, 0) = <<>>
            BY <2>3
          <5> QED BY <4>1, <5>1
        <4>2. CASE Len(x) # 0
          <5>1. Len(x) \in 1..Len(to)
            BY <3>3, <4>2
          <5> QED BY <2>5, <5>1
        <4> QED BY <4>1, <4>2
      <3>5. IsPrefix(x, to \o rest)
        BY <2>5, <3>3, <3>4 DEF IsPrefix
      <3> QED BY <2>2, <3>1, <3>5 DEF Excluded
    <2> QED BY <1>2, <2>6, <2>7 DEF Excluded
  <1> QED BY <1>1, <1>2 DEF Collectable

LEMMA OriginsSourced ==
  ASSUME job \in Jobs, DiskInv, Collectible, NEW o \in Origins
  PROVE  Sourced(o)
  <1> DEFINE common == {[source |-> name, path |-> name, target |-> None,
                         place |-> Union(Roots)[name],
                         group |-> IF GroupsOf(name) = {} THEN None
                                   ELSE CHOOSE g \in GroupsOf(name) : TRUE]
                           : name \in DOMAIN Union(Roots)}
             own(g, t) == {[source |-> Payload(g, t) \o name, path |-> name,
                            target |-> t, group |-> g, place |-> Variant(g, t)[name]]
                             : name \in DOMAIN Variant(g, t)}
  <1>1. o \in common \cup UNION {own(v[1], v[2]) : v \in Payloads}
    BY Zenon DEF Origins
  <1>2. CASE o \in common
    <2>1. PICK name \in DOMAIN Union(Roots) :
            o = [source |-> name, path |-> name, target |-> None,
                 place |-> Union(Roots)[name],
                 group |-> IF GroupsOf(name) = {} THEN None
                           ELSE CHOOSE g \in GroupsOf(name) : TRUE]
      BY <1>2
    <2>2. o.source = name /\ o.target = None
      BY <2>1
    <2>3. PICK r \in Roots : name \in DOMAIN Named(r[1], r[2])
      BY DEF Union
    <2>4. IsPath(r[2])
      BY EmptyPath, JobsAssumption DEF JobsAssumption, Roots
    <2>5. Collectable(r[1], r[2])
      BY DEF Collectible, AllCollectable
    <2>6. ~Reserved(name)
      BY <2>3, <2>4, <2>5, NamesAreOpen
    <2> QED BY <2>2, <2>6 DEF Sourced
  <1>3. CASE o \in UNION {own(v[1], v[2]) : v \in Payloads}
    <2>1. PICK v \in Payloads : o \in own(v[1], v[2])
      BY <1>3
    <2>2. v[1] \in job.groups /\ v[2] \in DOMAIN job.variants[v[1]]
      BY DEF Payloads
    <2>3. v[2] # None
      BY <2>2, JobsAssumption DEF JobsAssumption, Collectible, ValidConfig
    <2>4. PICK name \in DOMAIN Variant(v[1], v[2]) :
            o = [source |-> Payload(v[1], v[2]) \o name, path |-> name,
                 target |-> v[2], group |-> v[1], place |-> Variant(v[1], v[2])[name]]
      BY <2>1
    <2>5. /\ o.source = Payload(v[1], v[2]) \o name /\ o.path = name
          /\ o.target = v[2] /\ o.group = v[1]
      BY <2>4
    <2> QED BY <2>3, <2>5, Zenon DEF Sourced
  <1> QED BY <1>1, <1>2, <1>3

LEMMA NameInit == Init => NameInv
  <1> SUFFICES ASSUME Init PROVE NameInv
    OBVIOUS
  <1>1. DOMAIN entries = {r.source : r \in records}
    BY DEF Init
  <1>2. /\ pc = "collect" /\ edits \in 0..MaxEdits /\ records = {}
        /\ output \in {"none", "older", "other", "packed"}
    BY JobsAssumption DEF JobsAssumption, Init
  <1> QED BY <1>1, <1>2 DEF NameInv, TypeOK, Working

LEMMA NameStop == ASSUME NameInv, Stop PROVE NameInv'
  BY DEF Stop, NameInv, TypeOK, Working

LEMMA NameCollect == ASSUME Inv, NameInv, Collect PROVE NameInv'
  <1>1. CASE Stop
    BY <1>1, NameStop
  <1>2. CASE ~Stop
    <2>1. /\ Collectible /\ records' = Origins /\ pc' = "stat" /\ UNCHANGED <<job, edits, output>>
          /\ DOMAIN entries' = {r.source : r \in Origins}
      BY <1>2 DEF Collect, Pass
    <2>2. Unique(Origins)
      BY <2>1 DEF Collectible, Unique
    <2>3. \A o \in Origins : Sourced(o)
      BY <2>1, OriginsSourced DEF Inv
    <2>4. \A o \in records' : Sourced(o)'
      BY <2>1, <2>3 DEF Sourced, Payload, Reserved
    <2> QED BY <2>1, <2>2, <2>4 DEF NameInv, TypeOK, Working, Unique
  <1> QED BY <1>1, <1>2

LEMMA NameStat == ASSUME NameInv, Stat PROVE NameInv'
  <1>1. CASE Stop
    BY <1>1, NameStop
  <1>2. CASE ~Stop
    <2>1. /\ pc = "stat" /\ records' = {Described(o) : o \in records} /\ pc' = "digest"
          /\ UNCHANGED <<job, edits, output, entries>>
      BY <1>2 DEF Stat, Pass
    <2>2. \A o \in records : /\ Described(o).source = o.source /\ Described(o).path = o.path
                            /\ Described(o).group = o.group /\ Described(o).target = o.target
      BY DEF Described
    <2>3. DOMAIN entries' = {r.source : r \in records'}
      BY <2>1, <2>2 DEF NameInv, TypeOK
    <2>4. \A r, s \in records' : r.source = s.source => r = s
      BY <2>1, <2>2 DEF NameInv, TypeOK
    <2>5. ASSUME NEW o \in records' PROVE Sourced(o)
      <3>1. PICK q \in records : o = Described(q)
        BY <2>1
      <3>2. Sourced(q)
        BY <2>1 DEF NameInv
      <3>3. o.source = q.source /\ o.path = q.path /\ o.group = q.group /\ o.target = q.target
        BY <2>2, <3>1
      <3> QED BY <3>2, <3>3, Zenon DEF Sourced
    <2>6. \A o \in records' : Sourced(o)'
      BY <2>5, Zenon DEF Sourced, Payload, Reserved
    <2> QED BY <2>1, <2>3, <2>4, <2>6 DEF NameInv, TypeOK, Working
  <1> QED BY <1>1, <1>2

LEMMA DigestedIs ==
  ASSUME NEW r, Shaped(r)
  PROVE  /\ Digested(r).source = r.source /\ Digested(r).path = r.path
         /\ Digested(r).group = r.group /\ Digested(r).target = r.target
         /\ Digested(r).link = r.link /\ Digested(r).kind = r.kind
  <1>1. CASE r.kind # "file"
    BY <1>1 DEF Digested
  <1>2. CASE r.kind = "file"
    <2> DEFINE sum == Bytes(entries[r.source])
               native == IF Roles(r) = {} THEN None ELSE CHOOSE role \in Roles(r) : TRUE
               exec == r.exec \/ "executable" \in Roles(r)
    <2>1. Digested(r) = [r EXCEPT !.sum = sum, !.native = native, !.exec = exec]
      BY <1>2 DEF Digested
    <2> HIDE DEF sum, native, exec
    <2> QED BY <2>1 DEF Shaped
  <1> QED BY <1>1, <1>2

LEMMA NameDigest == ASSUME Inv, NameInv, Digest PROVE NameInv'
  <1>1. CASE Stop
    BY <1>1, NameStop
  <1>2. CASE ~Stop
    <2> DEFINE recs == {Digested(r) : r \in records}
               short == {[r EXCEPT !.source = Short(recs, r)] : r \in recs}
    <2>1. /\ pc = "digest" /\ pc' = "write" /\ records' = short
          /\ DOMAIN entries' = {r.source : r \in short} /\ UNCHANGED <<job, edits, output>>
      BY <1>2 DEF Digest, Pass
    <2>2. ASSUME NEW r \in records
          PROVE  /\ Digested(r).source = r.source
                 /\ Shaped(Digested(r)) /\ Recorded(Digested(r)) /\ Sourced(Digested(r))
      <3>1. Shaped(r) /\ Recorded(r) /\ Listing(r) /\ Sourced(r)
        BY <2>1 DEF Inv, NameInv
      <3>2. /\ Digested(r).source = r.source /\ Digested(r).path = r.path
            /\ Digested(r).group = r.group /\ Digested(r).target = r.target
        BY <3>1, DigestedIs
      <3>3. Sourced(Digested(r))
        BY <3>1, <3>2, Zenon DEF Sourced
      <3> QED BY <3>1, <3>2, <3>3, DigestedRecorded
    <2>3. Unique(recs)
      BY <2>2 DEF Unique, NameInv, TypeOK
    <2>4. \A r \in recs : Shaped(r) /\ Recorded(r) /\ Sourced(r)
      BY <2>2
    <2> HIDE DEF recs
    <2>5. ASSUME NEW r \in short, NEW s \in short, r.source = s.source PROVE r = s
      <3>1. PICK p \in recs : r = [p EXCEPT !.source = Short(recs, p)]
        OBVIOUS
      <3>2. PICK q \in recs : s = [q EXCEPT !.source = Short(recs, q)]
        OBVIOUS
      <3>3. r.source = Short(recs, p) /\ s.source = Short(recs, q)
        BY <2>4, <3>1, <3>2 DEF Shaped
      <3>4. p = q
        BY <2>3, <2>4, <2>5, <3>3, ShortTells
      <3> QED BY <3>1, <3>2, <3>4
    <2> QED BY <2>1, <2>5 DEF NameInv, TypeOK, Working
  <1> QED BY <1>1, <1>2

LEMMA NameRest ==
  ASSUME NameInv, Write \/ Check \/ Publish \/ Rival \/ (\E place \in DOMAIN disk : Edit(place))
  PROVE  NameInv'
  <1>1. CASE Stop
    BY <1>1, NameStop
  <1>2. CASE Write /\ ~Stop
    BY <1>2 DEF Write, Pass, NameInv, TypeOK, Working
  <1>3. CASE Check /\ ~Stop
    BY <1>3 DEF Check, Pass, NameInv, TypeOK, Working
  <1>4. CASE Publish /\ ~Stop
    BY <1>4 DEF Publish, NameInv, TypeOK, Working
  <1>5. CASE Rival
    <2>1. output' = "other" /\ UNCHANGED <<job, edits, pc, entries, records>>
      BY <1>5 DEF Rival
    <2> QED BY <2>1 DEF NameInv, TypeOK, Sourced, Payload
  <1>6. CASE \E place \in DOMAIN disk : Edit(place)
    <2>1. edits < MaxEdits /\ edits' = edits + 1 /\ UNCHANGED <<job, pc, entries, records, output>>
      BY <1>6 DEF Edit
    <2>2. edits' \in 0..MaxEdits
      BY <2>1, JobsAssumption DEF JobsAssumption, NameInv, TypeOK
    <2> QED BY <2>1, <2>2 DEF NameInv, TypeOK, Sourced, Payload
  <1> QED BY <1>1, <1>2, <1>3, <1>4, <1>5, <1>6

LEMMA NamesKept == Spec => []NameInv
  <1>1. Inv /\ NameInv /\ [Next]_vars => NameInv'
    <2> SUFFICES ASSUME Inv, NameInv, [Next]_vars PROVE NameInv'
      OBVIOUS
    <2>1. CASE UNCHANGED vars
      BY <2>1 DEF vars, NameInv, TypeOK, Sourced, Payload
    <2> QED BY <2>1, NameCollect, NameStat, NameDigest, NameRest DEF Next
  <1> QED BY <1>1, NameInit, Invariant, PTL DEF Spec

(* No two records of the index have the same source, and what is to be copied
   are the sources of the records, neither more nor less: not after the listing,
   where files of a directory and of many mapped ones meet, and not after the
   payloads of the platforms have got their short names. *)
THEOREM TypeCorrect == Spec => []TypeOK
  <1>1. NameInv => TypeOK
    BY DEF NameInv
  <1> QED BY <1>1, NamesKept, PTL
=============================================================================
