--------------------------- MODULE DeliveryProofs ---------------------------
(***************************************************************************)
(* Proofs of a package's way from the first job to an installed tree.      *)
(* extract_to, for any tree of paths, any packages, any destination and    *)
(* any number of calls, failures, kills and power losses, leaves whole     *)
(* artifacts, under names a manifest gave them, and on the disk once it    *)
(* has said so.  verify_package, for any package, trust set and request,   *)
(* accepts what the policy accepts, whatever the order of its checks.      *)
(* prepare, persist, reopen, finalize and publish, for any jobs, limits    *)
(* and edits, hold what their binding names, refuse late for the disk      *)
(* alone, and publish what a registry takes as verify_contents does.       *)
(***************************************************************************)
EXTENDS MCPackageVerify, Extract, Pipeline, FiniteSetTheorems, SequenceTheorems,
    WellFoundedInduction, TLAPS

\* Any number of extractions, one after the other, of some packages.
ExtractNext(packages) == (\E p \in packages : ExtractTo(p)) \/ ExtractStep
ExtractSpec(entries, exists, packages) ==
    ExtractInit(entries, exists) /\ [][ExtractNext(packages)]_extractVars

\* What is known of a package when it is extracted: its members are a list, and
\* its manifest names every artifact once, at a path of the tree (from_parts).
Wellformed(p) ==
    LET a == p.man.artifacts
    IN /\ p.arc.members \in Seq(Range(p.arc.members))
       /\ \A i \in DOMAIN a : a[i].path \in Paths
       /\ \A i, j \in DOMAIN a : a[i].path = a[j].path => i = j

\* A destination whose files had reached the disk before the first call.
Settled(entries) ==
    /\ entries = [p \in Paths |-> entries[p]]
    /\ \A p \in Paths : entries[p].kind = "file" => entries[p].synced = TRUE
-----------------------------------------------------------------------------
(* The inductive invariant *)

Early == {"dest", "staging", "receive", "accept"}
Late == {"publish", "rename", "flush"}

\* Every file of a tree is flushed, and one that was offered for its path.
WholeFiles(t) ==
    /\ t = [p \in Paths |-> t[p]]
    /\ \A p \in Paths : t[p].kind = "file" => <<p, t[p].blob>> \in offered /\ t[p].synced = TRUE

Records ==
    /\ step \in {"idle"} \cup Early \cup Late
    /\ staging \in [own : BOOLEAN, dead : BOOLEAN]
    /\ losses \in Nat
    /\ step = "idle" => staging.own = FALSE /\ staged = 0 /\ flushed = {}
    /\ step \in {"dest", "staging"} => staged = 0
    /\ step # "idle" => answer = [how |-> "none", part |-> "none"]
    /\ start.here => here

\* The call under way extracts what its manifest offers.
Calling ==
    step # "idle" =>
        /\ Wellformed(pack) /\ start.man = pack.man
        /\ \A i \in DOMAIN pack.man.artifacts :
              <<pack.man.artifacts[i].path, pack.man.artifacts[i].sha>> \in offered

\* Until a call publishes, it has not touched the destination.
Untouched ==
    losses = 0 /\ (step \in Early \/ (step = "idle" /\ answer.part = "walk")) =>
        vol = start.entries

\* The members received so far are flushed, and fit into one directory tree.
Received ==
    /\ step = "receive" => staged \in 0..Members
    /\ step = "accept" => staged \in 1..Members
    /\ step # "idle" => \A i \in 1..(IF step = "accept" THEN staged - 1 ELSE staged) : i \in flushed
    /\ step # "idle" => \A i \in 1..staged : ~Clash(i)
    /\ step \in Late => staged = Members /\ WalkOuter(pack.man, pack.arc, NoLimit, 1000) = "ok"

\* Every directory on the way to a path is one.
Reached(t, path) == \A d \in Above[path] : t[d].kind = "dir"

\* Member i is in the tree, whole.
Published(i) ==
    /\ vol[Member(i).path].kind = "file" /\ vol[Member(i).path].blob = Member(i).blob
    /\ Reached(vol, Member(i).path)

\* The directory entries that lead to a path, its own included.
Way(path) == Above[path] \cup {path}

\* What is no longer to be done has been done.
Publishing ==
    /\ step \in {"publish", "rename"} =>
          /\ todo \in Seq(1..Members)
          /\ \A i \in 1..Members : i \notin Range(todo) => Published(i)
    /\ step = "rename" => todo # <<>> /\ Reached(vol, Member(todo[1]).path)
    /\ step = "flush" =>
          /\ todo \in Seq(PublishDirs)
          /\ \A i \in 1..Members :
                /\ Published(i)
                /\ \A q \in Way(Member(i).path) : Parent[q] \in Range(todo) \/ dur[q] = vol[q]

\* An artifact is in the tree, whole, and so it is on the disk.
OnDisk(a) ==
    /\ a.path \in Paths
    /\ vol[a.path].kind = "file" /\ vol[a.path].blob = a.sha
    /\ Reached(vol, a.path)
    /\ \A q \in Way(a.path) : dur[q] = vol[q]

Answered ==
    answer.how = "ok" => \A i \in DOMAIN start.man.artifacts : OnDisk(start.man.artifacts[i])

IInv ==
    /\ WholeFiles(vol) /\ WholeFiles(dur)
    /\ Records /\ Calling /\ Untouched /\ Received /\ Publishing /\ Answered
-----------------------------------------------------------------------------
(* Lists of verdicts, sequences and sets *)

\* A set of naturals that is not empty has a least element.
LEMMA LeastIndex ==
  ASSUME NEW S \in SUBSET Nat, S # {}
  PROVE  \E i \in S : \A j \in S : i <= j
  <1> DEFINE R == {p \in Nat \X Nat : p[1] < p[2]}
  <1>1. IsWellFoundedOn(R, Nat)
    BY NatLessThanWellFounded DEF OpToRel
  <1>2. PICK i \in S : \A j \in S : <<j, i>> \notin R
    BY <1>1, WFMin
  <1>3. \A j \in S : ~(j < i)
    BY <1>2
  <1> QED BY <1>3

\* A list of verdicts passes only when each of them does (FirstOf).
LEMMA AllPass ==
  ASSUME NEW v, DOMAIN v \subseteq Nat, FirstOf(v) = "ok"
  PROVE  \A i \in DOMAIN v : v[i] = "ok"
  <1> DEFINE bad == {i \in DOMAIN v : v[i] # "ok"}
  <1>1. SUFFICES ASSUME bad # {} PROVE FALSE
    OBVIOUS
  <1>2. \E i \in bad : \A j \in bad : i <= j
    BY <1>1, LeastIndex
  <1>3. v[CHOOSE i \in bad : \A j \in bad : i <= j] # "ok"
    BY <1>2
  <1> QED BY <1>1, <1>3 DEF FirstOf

\* The same of two lists, one after the other.
LEMMA BothPass ==
  ASSUME NEW S, NEW v \in Seq(S), NEW w \in Seq(S), FirstOf(v \o w) = "ok"
  PROVE  /\ \A i \in 1..Len(v) : v[i] = "ok"
         /\ \A i \in 1..Len(w) : w[i] = "ok"
  <1>1. /\ v \o w \in Seq(S) /\ Len(v \o w) = Len(v) + Len(w)
        /\ DOMAIN (v \o w) = 1..(Len(v) + Len(w)) /\ Len(v) \in Nat /\ Len(w) \in Nat
    OBVIOUS
  <1>2. \A i \in 1..(Len(v) + Len(w)) : (v \o w)[i] = "ok"
    <2> DEFINE both == v \o w
    <2>1. DOMAIN both = 1..(Len(v) + Len(w)) /\ DOMAIN both \subseteq Nat /\ FirstOf(both) = "ok"
      BY <1>1
    <2> HIDE DEF both
    <2>2. \A i \in DOMAIN both : both[i] = "ok"
      BY <2>1, AllPass
    <2> QED BY <2>1, <2>2 DEF both
  <1>3. ASSUME NEW i \in 1..Len(v) PROVE v[i] = "ok"
    <2>1. (v \o w)[i] = v[i] /\ i \in 1..(Len(v) + Len(w))
      BY <1>1
    <2> QED BY <2>1, <1>2
  <1>4. ASSUME NEW i \in 1..Len(w) PROVE w[i] = "ok"
    <2>1. (v \o w)[Len(v) + i] = w[i] /\ Len(v) + i \in 1..(Len(v) + Len(w))
      BY <1>1
    <2> QED BY <2>1, <1>2
  <1> QED BY <1>3, <1>4

\* SetToSeq lists every element of a finite set.
LEMMA SetToSeqCovers ==
  ASSUME NEW S, IsFiniteSet(S)
  PROVE  SetToSeq(S) \in Seq(S) /\ Range(SetToSeq(S)) = S
  <1> DEFINE n == Cardinality(S)
             f == SetToSeq(S)
  <1>1. n \in Nat /\ ExistsBijection(1..n, S)
    BY FS_CardinalityType
  <1>2. PICK g \in [1..n -> S] : IsInjective(g)
    BY <1>1 DEF ExistsBijection, Bijection, Injection
  <1>3. f \in [1..n -> S] /\ IsInjective(f)
    BY <1>2 DEF SetToSeq
  <1> HIDE DEF f
  <1>4. ASSUME NEW s \in S, s \notin Range(f) PROVE FALSE
    <2>1. f \in [1..n -> S \ {s}]
      BY <1>3, <1>4 DEF Range
    <2>2. IsFiniteSet(S \ {s}) /\ Cardinality(S \ {s}) = n - 1
      BY FS_RemoveElement
    <2>3. IsFiniteSet(1..n) /\ Cardinality(1..n) = n
      BY <1>1, FS_Interval
    <2>4. Cardinality(S \ {s}) < Cardinality(1..n)
      BY <1>1, <2>2, <2>3
    <2> HIDE DEF n
    <2>5. \E x, y \in 1..n : x # y /\ f[x] = f[y]
      BY <2>1, <2>2, <2>3, <2>4, FS_PigeonHole
    <2> QED BY <1>3, <2>5 DEF IsInjective
  <1>5. Range(f) \subseteq S
    BY <1>3 DEF Range
  <1>6. f \in Seq(S)
    BY <1>1, <1>3
  <1> QED BY <1>4, <1>5, <1>6 DEF f

\* A list and what is left of it after its first element.
LEMMA HeadAndTail ==
  ASSUME NEW S, NEW s \in Seq(S), s # <<>>
  PROVE  /\ s[1] \in S /\ s[1] \in Range(s) /\ Tail(s) \in Seq(S)
         /\ Range(s) = {s[1]} \cup Range(Tail(s))
  <1>1. Len(s) \in Nat /\ Len(s) >= 1 /\ DOMAIN s = 1..Len(s)
    OBVIOUS
  <1>2. /\ Tail(s) \in Seq(S) /\ Len(Tail(s)) = Len(s) - 1 /\ DOMAIN Tail(s) = 1..(Len(s) - 1)
        /\ \A i \in 1..(Len(s) - 1) : Tail(s)[i] = s[i + 1]
    OBVIOUS
  <1>3. ASSUME NEW i \in DOMAIN s, i # 1 PROVE s[i] \in Range(Tail(s))
    <2>1. i - 1 \in 1..(Len(s) - 1) /\ (i - 1) + 1 = i
      BY <1>1, <1>3
    <2>2. Tail(s)[i - 1] = s[i] /\ i - 1 \in DOMAIN Tail(s)
      BY <1>2, <2>1
    <2> QED BY <2>2 DEF Range
  <1>4. ASSUME NEW i \in DOMAIN Tail(s) PROVE Tail(s)[i] \in Range(s)
    <2>1. i + 1 \in 1..Len(s) /\ Tail(s)[i] = s[i + 1]
      BY <1>1, <1>2
    <2> QED BY <1>1, <2>1 DEF Range
  <1>5. s[1] \in S /\ s[1] \in Range(s)
    BY <1>1 DEF Range
  <1>6. Range(s) \subseteq {s[1]} \cup Range(Tail(s))
    BY <1>3 DEF Range
  <1>7. Range(Tail(s)) \subseteq Range(s)
    BY <1>4 DEF Range
  <1> QED BY <1>2, <1>5, <1>6, <1>7
-----------------------------------------------------------------------------
(* What the walk has shown *)

\* A member that passes is one the manifest lists, with the listed digest, under
\* a name no earlier member has (walk_entries).
LEMMA MemberPasses ==
  ASSUME NEW m, NEW a, NEW i, NEW lim, NEW room, MemberVerdict(m, a, i, lim, room) = "ok"
  PROVE  /\ a.members[i].plain /\ a.members[i].path \notin UnsafePaths
         /\ a.members[i].path \in Listed(m)
         /\ a.members[i].blob = ArtifactAt(m, a.members[i].path).sha
         /\ \A j \in 1..(i - 1) : a.members[j].path # a.members[i].path
  <1> DEFINE e == a.members[i]
             before == SumOf([j \in 1..(i - 1) |-> a.members[j].blob.len])
             copy == Pass(e.blob.len, <<<<"OuterUncompressedTotal", lim.total - before>>,
                                        <<"RetainedDisk", room - before>>>>)
             digest == IF e.blob = ArtifactAt(m, e.path).sha THEN "ok" ELSE "HashMismatch"
             v == <<copy, digest>>
  <1>1. /\ e.plain /\ e.path \notin UnsafePaths
        /\ e.path \in Listed(m) /\ ~(\E j \in 1..(i - 1) : a.members[j].path = e.path)
        /\ FirstOf(v) = "ok"
    BY DEF MemberVerdict
  <1> HIDE DEF copy, digest, e
  <1>2. DOMAIN v = 1..2 /\ DOMAIN v \subseteq Nat /\ v[2] = digest
    OBVIOUS
  <1> HIDE DEF v
  <1>3. digest = "ok"
    BY <1>1, <1>2, AllPass
  <1> QED BY <1>1, <1>3 DEF digest, e

\* A walk that passes has passed every member, and found every artifact
\* (extract_to, compare_member_list).
LEMMA WalkPasses ==
  ASSUME NEW m, NEW a, NEW lim, NEW room, a.members \in Seq(Range(a.members)),
         WalkOuter(m, a, lim, room) = "ok"
  PROVE  /\ \A i \in 1..Len(a.members) : MemberVerdict(m, a, i, lim, room) = "ok"
         /\ Listed(m) \subseteq {a.members[i].path : i \in DOMAIN a.members}
         /\ ~a.trailing /\ SameMembers(m, a)
  <1> DEFINE each == [i \in DOMAIN a.members |-> MemberVerdict(m, a, i, lim, room)]
             covers == IF Listed(m) \subseteq {a.members[i].path : i \in DOMAIN a.members} THEN "ok"
                       ELSE "ArtifactMissingFromArchive"
             trailing == IF a.trailing THEN "TrailingArchiveBytes" ELSE "ok"
             same == IF SameMembers(m, a) THEN "ok" ELSE "MemberListMismatch"
             rest == <<trailing, covers, same>>
             S == Range(each) \cup Range(rest)
  <1>1. DOMAIN a.members = 1..Len(a.members) /\ Len(a.members) \in Nat
    OBVIOUS
  <1>2. each \in Seq(S) /\ Len(each) = Len(a.members)
        /\ \A i \in 1..Len(a.members) : each[i] = MemberVerdict(m, a, i, lim, room)
    BY <1>1 DEF Range
  <1>3. FirstOf(each \o rest) = "ok"
    BY DEF WalkOuter
  <1> HIDE DEF each, covers, trailing, same
  <1>4. rest \in Seq(S) /\ Len(rest) = 3 /\ rest[1] = trailing /\ rest[2] = covers /\ rest[3] = same
    BY DEF Range
  <1> HIDE DEF rest, S
  <1>5. (\A i \in 1..Len(each) : each[i] = "ok") /\ \A i \in 1..Len(rest) : rest[i] = "ok"
    BY <1>2, <1>3, <1>4, BothPass
  <1>6. covers = "ok" /\ trailing = "ok" /\ same = "ok"
    BY <1>4, <1>5
  <1> QED BY <1>2, <1>5, <1>6 DEF covers, trailing, same

\* The members of a package whose walk passed are its artifacts.
LEMMA MembersAreArtifacts ==
  ASSUME Wellformed(pack), WalkOuter(pack.man, pack.arc, NoLimit, 1000) = "ok"
  PROVE  /\ Members \in Nat
         /\ \A i \in 1..Members :
               /\ Member(i).path \in Paths
               /\ \E k \in DOMAIN pack.man.artifacts :
                     pack.man.artifacts[k].path = Member(i).path /\ pack.man.artifacts[k].sha = Member(i).blob
         /\ \A k \in DOMAIN pack.man.artifacts : \E i \in 1..Members :
               Member(i).path = pack.man.artifacts[k].path /\ Member(i).blob = pack.man.artifacts[k].sha
         /\ \A i \in 1..Members : \A j \in 1..(i - 1) : Member(j).path # Member(i).path
  <1> DEFINE art == pack.man.artifacts
  <1>1. pack.arc.members \in Seq(Range(pack.arc.members))
    BY DEF Wellformed
  <1>2. Members \in Nat /\ DOMAIN pack.arc.members = 1..Members
    BY <1>1 DEF Members
  <1>3. /\ \A i \in 1..Members : MemberVerdict(pack.man, pack.arc, i, NoLimit, 1000) = "ok"
        /\ Listed(pack.man) \subseteq {Member(i).path : i \in 1..Members}
    BY <1>1, <1>2, WalkPasses DEF Members, Member
  <1>4. /\ \A i \in 1..Members : Member(i).path \in Listed(pack.man)
        /\ \A i \in 1..Members : Member(i).blob = ArtifactAt(pack.man, Member(i).path).sha
        /\ \A i \in 1..Members : \A j \in 1..(i - 1) : Member(j).path # Member(i).path
    BY <1>3, MemberPasses DEF Member
  <1>5. ASSUME NEW k \in DOMAIN art PROVE ArtifactAt(pack.man, art[k].path) = art[k]
    <2>1. \A i \in DOMAIN art : art[i].path = art[k].path => i = k
      BY <1>5 DEF Wellformed
    <2>2. (CHOOSE i \in DOMAIN art : art[i].path = art[k].path) = k
      BY <2>1
    <2> QED BY <2>2 DEF ArtifactAt
  <1>6. \A i \in 1..Members : \E k \in DOMAIN art :
           art[k].path = Member(i).path /\ art[k].sha = Member(i).blob
    BY <1>4, <1>5 DEF Listed
  <1>7. \A k \in DOMAIN art : art[k].path \in Paths
    BY DEF Wellformed
  <1>8. ASSUME NEW k \in DOMAIN art
        PROVE  \E i \in 1..Members : Member(i).path = art[k].path /\ Member(i).blob = art[k].sha
    <2>1. PICK i \in 1..Members : Member(i).path = art[k].path
      BY <1>3, <1>8 DEF Listed
    <2> QED BY <2>1, <1>4, <1>5
  <1> HIDE DEF art
  <1>9. \A i \in 1..Members : Member(i).path \in Paths
    BY <1>6, <1>7
  <1> QED BY <1>2, <1>4, <1>6, <1>8, <1>9 DEF art

\* No member lies above another (StagingSink::receive).
LEMMA NoneAbove ==
  ASSUME Members \in Nat, \A k \in 1..Members : ~Clash(k),
         NEW i \in 1..Members, NEW j \in 1..Members, i # j
  PROVE  Member(j).path \notin Above[Member(i).path]
  <1>1. CASE j < i
    <2>1. j \in 1..(i - 1)
      BY <1>1
    <2> QED BY <2>1 DEF Clash
  <1>2. CASE i < j
    <2>1. i \in 1..(j - 1)
      BY <1>2
    <2> QED BY <2>1 DEF Clash
  <1> QED BY <1>1, <1>2

\* Two members have two paths.
LEMMA PathsDiffer ==
  ASSUME Members \in Nat,
         \A k \in 1..Members : \A l \in 1..(k - 1) : Member(l).path # Member(k).path,
         NEW i \in 1..Members, NEW j \in 1..Members, i # j
  PROVE  Member(j).path # Member(i).path
  <1>1. CASE j < i
    <2>1. j \in 1..(i - 1)
      BY <1>1
    <2> QED BY <2>1
  <1>2. CASE i < j
    <2>1. i \in 1..(j - 1)
      BY <1>2
    <2> QED BY <2>1
  <1> QED BY <1>1, <1>2
-----------------------------------------------------------------------------
(* The steps *)

\* Every destination a caller finds is a start (extract_to).
LEMMA StartHolds ==
  ASSUME NEW entries, NEW exists, Settled(entries), ExtractInit(entries, exists)
  PROVE  IInv
  <1>1. vol = entries /\ dur = entries /\ step = "idle" /\ answer = [how |-> "none", part |-> "none"]
    BY DEF ExtractInit
  <1>2. WholeFiles(vol) /\ WholeFiles(dur)
    BY DEF ExtractInit, Settled, WholeFiles
  <1>3. Records
    BY DEF ExtractInit, Records
  <1> QED BY <1>1, <1>2, <1>3
         DEF IInv, Calling, Untouched, Received, Publishing, Answered, Early, Late

\* While a call goes on over the same package, its members are the same.
LEMMA SameMembersNext ==
  ASSUME pack' = pack
  PROVE  /\ Members' = Members /\ PublishDirs' = PublishDirs
         /\ \A i : Member(i)' = Member(i)
         /\ \A i : Clash(i)' = Clash(i)
  BY DEF Members, Member, PublishDirs, Clash

\* A call that returns short of publishing everything (extract_to).
LEMMA ReturnHolds ==
  ASSUME IInv, NEW h, NEW part, Return(h, part), UNCHANGED <<tree, marks>>, losses' = losses,
         step # "idle", h # "ok", part = "walk" => step \in Early
  PROVE  IInv'
  <1>1. /\ vol' = vol /\ dur' = dur /\ here' = here /\ start' = start /\ offered' = offered
        /\ step' = "idle" /\ answer' = [how |-> h, part |-> part]
        /\ staging' = [staging EXCEPT !.own = FALSE] /\ staged' = 0 /\ flushed' = {}
    BY DEF Return, tree, marks
  <1>2. WholeFiles(vol)' /\ WholeFiles(dur)'
    BY <1>1 DEF IInv, WholeFiles
  <1>3. Records'
    BY <1>1 DEF IInv, Records
  <1>4. Untouched'
    BY <1>1 DEF IInv, Untouched, Early
  <1>5. Calling' /\ Received' /\ Publishing' /\ Answered'
    BY <1>1 DEF Calling, Received, Publishing, Answered, Late
  <1> QED BY <1>2, <1>3, <1>4, <1>5 DEF IInv

\* A call that dies over a tree of whole files (Killed, PowerLost).
LEMMA DiesHolds ==
  ASSUME IInv, Dies, UNCHANGED <<here, marks>>, losses' \in Nat,
         WholeFiles(vol)', WholeFiles(dur)'
  PROVE  IInv'
  <1>1. /\ here' = here /\ start' = start /\ offered' = offered
        /\ step' = "idle" /\ answer' = [how |-> "none", part |-> "none"]
        /\ staging' = [own |-> FALSE, dead |-> staging.dead \/ staging.own]
        /\ staged' = 0 /\ flushed' = {}
    BY DEF Dies, marks
  <1>2. staging' \in [own : BOOLEAN, dead : BOOLEAN] /\ staging'.own = FALSE
    <2>1. (staging.dead \/ staging.own) \in BOOLEAN
      OBVIOUS
    <2> QED BY <1>1, <2>1
  <1>3. Records'
    BY <1>1, <1>2 DEF IInv, Records
  <1>4. Calling' /\ Untouched' /\ Received' /\ Publishing' /\ Answered'
    BY <1>1 DEF Calling, Untouched, Received, Publishing, Answered, Early, Late
  <1> QED BY <1>3, <1>4 DEF IInv

\* A call begins.
LEMMA ExtractToHolds ==
  ASSUME IInv, NEW p, Wellformed(p), ExtractTo(p)
  PROVE  IInv'
  <1> DEFINE offers == {<<a.path, a.sha>> : a \in {p.man.artifacts[i] : i \in DOMAIN p.man.artifacts}}
  <1>1. /\ vol' = vol /\ dur' = dur /\ here' = here /\ step = "idle" /\ step' = "dest" /\ pack' = p
        /\ answer' = [how |-> "none", part |-> "none"]
        /\ start' = [entries |-> vol, here |-> here, man |-> p.man]
        /\ offered' = offered \cup offers
        /\ staged' = staged /\ flushed' = flushed /\ staging' = staging /\ losses' = losses
    BY DEF ExtractTo, tree
  <1>2. Calling'
    BY <1>1 DEF Calling, Wellformed
  <1> HIDE DEF offers
  <1>3. WholeFiles(vol)' /\ WholeFiles(dur)'
    BY <1>1 DEF IInv, WholeFiles
  <1>4. Records'
    BY <1>1 DEF IInv, Records, Early, Late
  <1>5. Untouched' /\ Publishing' /\ Answered'
    BY <1>1 DEF Untouched, Publishing, Answered
  <1>6. staged = 0
    BY <1>1 DEF IInv, Records
  <1>7. Received'
    BY <1>1, <1>6 DEF Received, Late
  <1> QED BY <1>2, <1>3, <1>4, <1>5, <1>7 DEF IInv

\* The destination, and the staging directory in it.
LEMMA PrepareHolds ==
  ASSUME IInv, CreateDest \/ CreateStaging
  PROVE  IInv'
  <1>1. /\ vol' = vol /\ dur' = dur /\ start' = start /\ offered' = offered /\ pack' = pack
        /\ answer' = answer /\ staged' = staged /\ flushed' = flushed /\ losses' = losses
        /\ (start.here => here) => (start.here => here')
        /\ \/ step = "dest" /\ step' = "staging"
           \/ step = "staging" /\ step' = "receive"
        /\ staging' \in {staging, [staging EXCEPT !.own = TRUE]}
    BY DEF CreateDest, CreateStaging, tree, marks, limits
  <1>2. WholeFiles(vol)' /\ WholeFiles(dur)'
    BY <1>1 DEF IInv, WholeFiles
  <1>3. Records'
    <2>1. start'.here => here'
      BY <1>1 DEF IInv, Records
    <2>2. staging' \in [own : BOOLEAN, dead : BOOLEAN]
      BY <1>1 DEF IInv, Records
    <2> QED BY <1>1, <2>1, <2>2 DEF IInv, Records, Early, Late
  <1>4. Calling' /\ Untouched' /\ Publishing' /\ Answered'
    BY <1>1 DEF IInv, Records, Calling, Untouched, Publishing, Answered, Early
  <1>5. staged = 0 /\ Members \in Nat
    <2>1. pack.arc.members \in Seq(Range(pack.arc.members))
      BY <1>1 DEF IInv, Calling, Wellformed
    <2> QED BY <1>1, <2>1 DEF IInv, Records, Members
  <1>6. Received'
    BY <1>1, <1>5, SameMembersNext DEF Received, Late
  <1> QED BY <1>2, <1>3, <1>4, <1>6 DEF IInv

\* A member is received, or refused.
LEMMA ReceiveHolds ==
  ASSUME IInv, Receive
  PROVE  IInv'
  <1> DEFINE i == staged + 1
             early == Verdict(i) \notin {"ok", "HashMismatch"}
             refused == early \/ Clash(i) \/ Verdict(i) # "ok"
  <1>1. step = "receive" /\ staged < Members
    BY DEF Receive
  <1>2. CASE refused
    <2> DEFINE h == IF early \/ ~Clash(i) THEN Verdict(i) ELSE "Io"
    <2>1. Return(h, "walk") /\ UNCHANGED <<tree, marks, limits>>
      BY <1>2 DEF Receive
    <2>2. h # "ok"
      BY <1>2
    <2>3. losses' = losses /\ UNCHANGED <<tree, marks>>
      BY <2>1 DEF limits
    <2> HIDE DEF h
    <2> QED BY <1>1, <2>1, <2>2, <2>3, ReturnHolds DEF Early
  <1>3. CASE ~refused
    <2>1. /\ staged' = staged + 1 /\ step' = "accept" /\ ~Clash(staged + 1)
          /\ vol' = vol /\ dur' = dur /\ here' = here /\ start' = start /\ offered' = offered
          /\ pack' = pack /\ flushed' = flushed /\ staging' = staging /\ answer' = answer
          /\ losses' = losses
      BY <1>3 DEF Receive, tree, marks, limits
    <2>2. WholeFiles(vol)' /\ WholeFiles(dur)'
      BY <2>1 DEF IInv, WholeFiles
    <2>3. Records'
      BY <1>1, <2>1 DEF IInv, Records, Early, Late
    <2>4. Calling' /\ Untouched' /\ Publishing' /\ Answered'
      BY <1>1, <2>1 DEF IInv, Records, Calling, Untouched, Publishing, Answered, Early
    <2>5. /\ staged \in 0..Members /\ (\A k \in 1..staged : k \in flushed)
          /\ \A k \in 1..staged : ~Clash(k)
      BY <1>1 DEF IInv, Received
    <2>6. Members \in Nat
      BY <1>1 DEF IInv, Calling, Wellformed, Members
    <2>7. staged + 1 \in 1..Members /\ (staged + 1) - 1 = staged
      BY <1>1, <2>5, <2>6
    <2>8. \A k \in 1..(staged + 1) : ~Clash(k)
      BY <2>1, <2>5
    <2>9. Received'
      BY <2>1, <2>5, <2>7, <2>8, SameMembersNext DEF Received, Late
    <2> QED BY <2>2, <2>3, <2>4, <2>9 DEF IInv
  <1> QED BY <1>2, <1>3

\* A member's bytes reach the disk.
LEMMA AcceptHolds ==
  ASSUME IInv, AcceptMember
  PROVE  IInv'
  <1>1. /\ step = "accept" /\ step' = "receive" /\ flushed' = flushed \cup {staged}
        /\ vol' = vol /\ dur' = dur /\ here' = here /\ start' = start /\ offered' = offered
        /\ pack' = pack /\ staged' = staged /\ staging' = staging /\ answer' = answer
        /\ losses' = losses
    BY DEF AcceptMember, tree, marks, limits
  <1>2. WholeFiles(vol)' /\ WholeFiles(dur)'
    BY <1>1 DEF IInv, WholeFiles
  <1>3. Records'
    BY <1>1 DEF IInv, Records, Early, Late
  <1>4. Calling' /\ Untouched' /\ Publishing' /\ Answered'
    BY <1>1 DEF IInv, Records, Calling, Untouched, Publishing, Answered, Early
  <1>5. /\ staged \in 1..Members /\ (\A k \in 1..(staged - 1) : k \in flushed)
        /\ \A k \in 1..staged : ~Clash(k)
    BY <1>1 DEF IInv, Received
  <1>6. Members \in Nat
    BY <1>1 DEF IInv, Calling, Wellformed, Members
  <1>7. staged \in 0..Members /\ \A k \in 1..staged : k \in flushed \cup {staged}
    BY <1>5, <1>6
  <1>8. Received'
    BY <1>1, <1>5, <1>7, SameMembersNext DEF Received, Late
  <1> QED BY <1>2, <1>3, <1>4, <1>8 DEF IInv

\* The walk ends.
LEMMA EndWalkHolds ==
  ASSUME IInv, EndWalk
  PROVE  IInv'
  <1> DEFINE said == WalkOuter(pack.man, pack.arc, NoLimit, 1000)
  <1>1. step = "receive" /\ staged = Members
    BY DEF EndWalk
  <1>2. CASE said # "ok"
    <2>1. Return(said, "walk") /\ UNCHANGED <<tree, marks, limits>>
      BY <1>2 DEF EndWalk
    <2>2. losses' = losses /\ UNCHANGED <<tree, marks>>
      BY <2>1 DEF limits
    <2> HIDE DEF said
    <2> QED BY <1>1, <1>2, <2>1, <2>2, ReturnHolds DEF Early
  <1>3. CASE said = "ok"
    <2>1. /\ step' = "publish" /\ todo' = [i \in 1..Members |-> i]
          /\ vol' = vol /\ dur' = dur /\ here' = here /\ start' = start /\ offered' = offered
          /\ pack' = pack /\ staged' = staged /\ flushed' = flushed /\ staging' = staging
          /\ answer' = answer /\ losses' = losses
      BY <1>3 DEF EndWalk, tree, marks, limits
    <2>2. WholeFiles(vol)' /\ WholeFiles(dur)'
      BY <2>1 DEF IInv, WholeFiles
    <2>3. Records'
      BY <1>1, <2>1 DEF IInv, Records, Early, Late
    <2>4. Calling' /\ Untouched' /\ Answered'
      BY <1>1, <2>1 DEF IInv, Records, Calling, Untouched, Answered, Early
    <2>5. Received'
      BY <1>1, <1>3, <2>1, SameMembersNext DEF IInv, Received, Late
    <2>6. Members \in Nat
      BY <1>1 DEF IInv, Calling, Wellformed, Members
    <2>7. todo' \in Seq(1..Members) /\ \A k \in 1..Members : k \in Range(todo')
      BY <2>1, <2>6 DEF Range
    <2>8. Publishing'
      BY <2>1, <2>7, SameMembersNext DEF Publishing
    <2> QED BY <2>2, <2>3, <2>4, <2>5, <2>8 DEF IInv
  <1> QED BY <1>2, <1>3
-----------------------------------------------------------------------------
\* What is known of a call once it publishes.
LEMMA LateCall ==
  ASSUME IInv, step \in Late
  PROVE  /\ Members \in Nat
         /\ \A i \in 1..Members :
               /\ i \in flushed /\ Member(i).path \in Paths
               /\ <<Member(i).path, Member(i).blob>> \in offered
         /\ \A i, j \in 1..Members :
               i # j => Member(j).path # Member(i).path /\ Member(j).path \notin Above[Member(i).path]
         /\ \A k \in DOMAIN pack.man.artifacts : \E i \in 1..Members :
               Member(i).path = pack.man.artifacts[k].path /\ Member(i).blob = pack.man.artifacts[k].sha
  <1>1. /\ Wellformed(pack) /\ WalkOuter(pack.man, pack.arc, NoLimit, 1000) = "ok" /\ staged = Members
        /\ \A i \in DOMAIN pack.man.artifacts :
              <<pack.man.artifacts[i].path, pack.man.artifacts[i].sha>> \in offered
    BY DEF IInv, Calling, Received, Late
  <1>2. /\ Members \in Nat
        /\ \A i \in 1..Members :
              /\ Member(i).path \in Paths
              /\ \E k \in DOMAIN pack.man.artifacts :
                    pack.man.artifacts[k].path = Member(i).path /\ pack.man.artifacts[k].sha = Member(i).blob
        /\ \A k \in DOMAIN pack.man.artifacts : \E i \in 1..Members :
              Member(i).path = pack.man.artifacts[k].path /\ Member(i).blob = pack.man.artifacts[k].sha
        /\ \A i \in 1..Members : \A j \in 1..(i - 1) : Member(j).path # Member(i).path
    BY <1>1, MembersAreArtifacts
  <1>3. (\A i \in 1..Members : i \in flushed) /\ \A i \in 1..Members : ~Clash(i)
    BY <1>1 DEF IInv, Received, Late
  <1>4. \A i \in 1..Members : <<Member(i).path, Member(i).blob>> \in offered
    BY <1>1, <1>2
  <1>5. \A i, j \in 1..Members : i # j => Member(j).path \notin Above[Member(i).path]
    BY <1>2, <1>3, NoneAbove
  <1>6. \A i, j \in 1..Members : i # j => Member(j).path # Member(i).path
    BY <1>2, PathsDiffer
  <1> QED BY <1>2, <1>3, <1>4, <1>5, <1>6

\* The directories a member needs are made (create_dir_all).
LEMMA MakeParentsHolds ==
  ASSUME IInv, MakeParents
  PROVE  IInv'
  <1> DEFINE path == Member(todo[1]).path
             above == Above[path]
  <1>1. step = "publish" /\ todo # <<>>
    BY DEF MakeParents
  <1>2. CASE \E d \in above : vol[d].kind = "file"
    <2>1. Return("Io", "publish") /\ UNCHANGED <<tree, marks, limits>>
      BY <1>2 DEF MakeParents
    <2>2. losses' = losses /\ UNCHANGED <<tree, marks>>
      BY <2>1 DEF limits
    <2> QED BY <1>1, <2>1, <2>2, ReturnHolds
  <1>3. CASE ~(\E d \in above : vol[d].kind = "file")
    <2>1. /\ vol' = [p \in Paths |-> IF p \in above THEN Directory ELSE vol[p]]
          /\ step' = "rename"
          /\ dur' = dur /\ here' = here /\ start' = start /\ offered' = offered
          /\ pack' = pack /\ staged' = staged /\ flushed' = flushed /\ todo' = todo
          /\ staging' = staging /\ answer' = answer /\ losses' = losses
      BY <1>3 DEF MakeParents, marks, limits
    <2>2. /\ Members \in Nat
          /\ \A i \in 1..Members : Member(i).path \in Paths
          /\ \A i, j \in 1..Members :
                i # j => Member(j).path # Member(i).path /\ Member(j).path \notin Above[Member(i).path]
      BY <1>1, LateCall DEF Late
    <2>3. /\ todo \in Seq(1..Members)
          /\ \A i \in 1..Members : i \notin Range(todo) => Published(i)
      BY <1>1 DEF IInv, Publishing
    <2>4. todo[1] \in 1..Members /\ todo[1] \in Range(todo)
      BY <1>1, <2>3, HeadAndTail
    <2>5. WholeFiles(vol)' /\ WholeFiles(dur)'
      BY <2>1 DEF IInv, WholeFiles, Directory
    <2>6. Records'
      BY <1>1, <2>1 DEF IInv, Records, Early, Late
    <2>7. Calling' /\ Untouched' /\ Answered'
      BY <1>1, <2>1 DEF IInv, Records, Calling, Untouched, Answered, Early
    <2>8. Received'
      BY <1>1, <2>1, SameMembersNext DEF IInv, Received, Late
    <2>9. path \in Paths /\ above \subseteq Paths /\ \A d \in above : Above[d] \subseteq above
      BY <2>2, <2>4, AboveAssumption
    <2>10. Reached(vol', path)
      BY <2>1, <2>9 DEF Reached, Directory
    <2>11. ASSUME NEW i \in 1..Members, i \notin Range(todo)
           PROVE  /\ vol'[Member(i).path].kind = "file" /\ vol'[Member(i).path].blob = Member(i).blob
                  /\ Reached(vol', Member(i).path)
      <3>1. Published(i) /\ i # todo[1] /\ Member(i).path \in Paths
        BY <2>2, <2>3, <2>4, <2>11
      <3>2. Member(i).path \notin above
        BY <2>2, <2>4, <3>1
      <3>3. vol'[Member(i).path] = vol[Member(i).path]
        BY <2>1, <3>1, <3>2
      <3>4. Above[Member(i).path] \subseteq Paths
        BY <3>1, AboveAssumption
      <3>5. Reached(vol', Member(i).path)
        BY <2>1, <3>1, <3>4 DEF Reached, Published, Directory
      <3> QED BY <3>1, <3>3, <3>5 DEF Published
    <2>12. Publishing'
      <3>1. todo' \in Seq(1..(Members')) /\ todo' # <<>> /\ Reached(vol', Member(todo[1])'.path)
        BY <1>1, <2>1, <2>3, <2>10, SameMembersNext
      <3>2. \A i \in 1..(Members') : i \notin Range(todo') => Published(i)'
        BY <2>1, <2>11, SameMembersNext DEF Published
      <3> QED BY <2>1, <3>1, <3>2, SameMembersNext DEF Publishing
    <2> QED BY <2>5, <2>6, <2>7, <2>8, <2>12 DEF IInv
  <1> QED BY <1>2, <1>3

\* A member takes its name (publish).
LEMMA RenameHolds ==
  ASSUME IInv, RenameMember
  PROVE  IInv'
  <1> DEFINE i == todo[1]
             p == Member(i).path
             new == FileEntry(Member(i).blob, i \in flushed)
  <1>1. step = "rename" /\ todo # <<>>
    BY DEF IInv, Publishing, RenameMember
  <1>2. CASE vol[p].kind = "dir"
    <2>1. Return("Io", "publish") /\ UNCHANGED <<tree, marks, limits>>
      BY <1>2 DEF RenameMember
    <2>2. losses' = losses /\ UNCHANGED <<tree, marks>>
      BY <2>1 DEF limits
    <2> QED BY <1>1, <2>1, <2>2, ReturnHolds
  <1>3. CASE ~(vol[p].kind = "dir")
    <2>1. /\ vol' = [vol EXCEPT ![p] = new]
          /\ todo' = Tail(todo) /\ step' = "publish"
          /\ dur' = dur /\ here' = here /\ start' = start /\ offered' = offered
          /\ pack' = pack /\ staged' = staged /\ flushed' = flushed
          /\ staging' = staging /\ answer' = answer /\ losses' = losses
      BY <1>3 DEF RenameMember, marks, limits
    <2>2. /\ Members \in Nat
          /\ \A k \in 1..Members :
                /\ k \in flushed /\ Member(k).path \in Paths
                /\ <<Member(k).path, Member(k).blob>> \in offered
          /\ \A k, j \in 1..Members :
                k # j => Member(j).path # Member(k).path /\ Member(j).path \notin Above[Member(k).path]
      BY <1>1, LateCall DEF Late
    <2>3. /\ todo \in Seq(1..Members) /\ Reached(vol, p)
          /\ \A k \in 1..Members : k \notin Range(todo) => Published(k)
      BY <1>1 DEF IInv, Publishing
    <2>4. i \in 1..Members /\ Tail(todo) \in Seq(1..Members) /\ Range(todo) = {i} \cup Range(Tail(todo))
      BY <1>1, <2>3, HeadAndTail
    <2> HIDE DEF i
    <2>5. /\ p \in Paths /\ vol = [q \in Paths |-> vol[q]]
          /\ new.kind = "file" /\ new.blob = Member(i).blob /\ new.synced = TRUE
      BY <2>2, <2>4 DEF IInv, WholeFiles, FileEntry
    <2>6. vol' = [q \in Paths |-> vol'[q]] /\ vol'[p] = new /\ \A q \in Paths \ {p} : vol'[q] = vol[q]
      BY <2>1, <2>5
    <2> HIDE DEF new
    <2>7. WholeFiles(vol)' /\ WholeFiles(dur)'
      <3>1. \A q \in Paths : vol[q].kind = "file" => <<q, vol[q].blob>> \in offered /\ vol[q].synced = TRUE
        BY DEF IInv, WholeFiles
      <3>2. <<p, new.blob>> \in offered
        BY <2>2, <2>4, <2>5
      <3>3. \A q \in Paths :
               vol'[q].kind = "file" => <<q, vol'[q].blob>> \in offered /\ vol'[q].synced = TRUE
        BY <2>5, <2>6, <3>1, <3>2
      <3> QED BY <2>1, <2>6, <3>3 DEF IInv, WholeFiles
    <2>8. Records'
      BY <1>1, <2>1 DEF IInv, Records, Early, Late
    <2>9. Calling' /\ Untouched' /\ Answered'
      BY <1>1, <2>1 DEF IInv, Records, Calling, Untouched, Answered, Early
    <2>10. Received'
      BY <1>1, <2>1, SameMembersNext DEF IInv, Received, Late
    <2>11. ASSUME NEW k \in 1..Members, k \notin Range(Tail(todo))
           PROVE  /\ vol'[Member(k).path].kind = "file" /\ vol'[Member(k).path].blob = Member(k).blob
                  /\ Reached(vol', Member(k).path)
      <3>1. Above[Member(k).path] \subseteq Paths /\ p \notin Above[p]
        BY <2>2, <2>5, AboveAssumption
      <3>2. CASE k = i
        <4>1. Reached(vol', p)
          BY <2>3, <2>6, <3>1, <3>2 DEF Reached
        <4> QED BY <2>5, <2>6, <3>2, <4>1
      <3>3. CASE k # i
        <4>1. Published(k)
          BY <2>3, <2>4, <2>11, <3>3
        <4>2. Member(k).path \in Paths \ {p} /\ p \notin Above[Member(k).path]
          BY <2>2, <2>4, <3>3
        <4>3. Reached(vol', Member(k).path)
          BY <2>6, <3>1, <4>1, <4>2 DEF Reached, Published
        <4> QED BY <2>6, <4>1, <4>2, <4>3 DEF Published
      <3> QED BY <3>2, <3>3
    <2>12. Publishing'
      <3>1. todo' \in Seq(1..(Members'))
        BY <2>1, <2>4, SameMembersNext
      <3>2. \A k \in 1..(Members') : k \notin Range(todo') => Published(k)'
        BY <2>1, <2>11, SameMembersNext DEF Published
      <3> QED BY <2>1, <3>1, <3>2, SameMembersNext DEF Publishing
    <2> QED BY <2>7, <2>8, <2>9, <2>10, <2>12 DEF IInv
  <1> QED BY <1>2, <1>3
-----------------------------------------------------------------------------
\* The directories to flush are a finite set.
LEMMA DirsAreFinite ==
  ASSUME \A i \in 1..Members : Member(i).path \in Paths
  PROVE  IsFiniteSet(PublishDirs)
  <1> DEFINE U == UNION {Above[Member(i).path] \cup {Member(i).path} : i \in 1..Members}
  <1>1. U \subseteq Paths
    BY AboveAssumption
  <1>2. IsFiniteSet(U)
    BY <1>1, ExtractAssumption, FS_Subset DEF Paths
  <1>3. PublishDirs = {Parent[q] : q \in U}
    BY DEF PublishDirs
  <1> HIDE DEF U
  <1>4. [q \in U |-> Parent[q]] \in Surjection(U, PublishDirs)
    BY <1>3 DEF Surjection
  <1> QED BY <1>2, <1>4, FS_Surjection

\* The last name is taken: the directories are to be flushed (publish_dirs).
LEMMA BeginFlushHolds ==
  ASSUME IInv, BeginFlush
  PROVE  IInv'
  <1>1. /\ step = "publish" /\ todo = <<>> /\ step' = "flush" /\ todo' = SetToSeq(PublishDirs)
        /\ vol' = vol /\ dur' = dur /\ here' = here /\ start' = start /\ offered' = offered
        /\ pack' = pack /\ staged' = staged /\ flushed' = flushed /\ staging' = staging
        /\ answer' = answer /\ losses' = losses
    BY DEF BeginFlush, tree, marks, limits
  <1>2. \A i \in 1..Members : Member(i).path \in Paths
    BY <1>1, LateCall DEF Late
  <1>3. IsFiniteSet(PublishDirs)
    BY <1>2, DirsAreFinite
  <1>4. todo' \in Seq(PublishDirs) /\ Range(todo') = PublishDirs
    BY <1>1, <1>3, SetToSeqCovers
  <1>5. WholeFiles(vol)' /\ WholeFiles(dur)'
    BY <1>1 DEF IInv, WholeFiles
  <1>6. Records'
    BY <1>1 DEF IInv, Records, Early, Late
  <1>7. Calling' /\ Untouched' /\ Answered'
    BY <1>1 DEF IInv, Records, Calling, Untouched, Answered, Early
  <1>8. Received'
    BY <1>1, SameMembersNext DEF IInv, Received, Late
  <1>9. \A i \in 1..Members : Published(i)
    <2>1. Range(todo) = {}
      BY <1>1 DEF Range
    <2> QED BY <1>1, <2>1 DEF IInv, Publishing
  <1>10. \A i \in 1..Members : \A q \in Way(Member(i).path) : Parent[q] \in Range(todo')
    <2>1. \A i \in 1..Members : \A q \in Way(Member(i).path) : Parent[q] \in PublishDirs
      BY DEF Way, PublishDirs
    <2> QED BY <1>4, <2>1
  <1>11. \A i \in 1..Members : Published(i)'
    BY <1>1, <1>9, SameMembersNext DEF Published
  <1>12. Publishing'
    <2>1. \A i \in 1..(Members') : /\ Published(i)'
                                   /\ \A q \in Way(Member(i)'.path) : Parent[q] \in Range(todo')
      BY <1>1, <1>10, <1>11, SameMembersNext
    <2> QED BY <1>1, <1>4, <2>1, SameMembersNext DEF Publishing
  <1> QED BY <1>5, <1>6, <1>7, <1>8, <1>12 DEF IInv

\* A directory's entries reach the disk.
LEMMA SyncDirHolds ==
  ASSUME IInv, SyncDir
  PROVE  IInv'
  <1>1. /\ step = "flush" /\ todo # <<>> /\ step' = step /\ todo' = Tail(todo)
        /\ dur' = [p \in Paths |-> IF p \in Inside(todo[1]) THEN vol[p] ELSE dur[p]]
        /\ vol' = vol /\ here' = here /\ start' = start /\ offered' = offered
        /\ pack' = pack /\ staged' = staged /\ flushed' = flushed /\ staging' = staging
        /\ answer' = answer /\ losses' = losses
    BY DEF SyncDir, marks, limits
  <1>2. /\ todo \in Seq(PublishDirs)
        /\ \A i \in 1..Members :
              /\ Published(i)
              /\ \A q \in Way(Member(i).path) : Parent[q] \in Range(todo) \/ dur[q] = vol[q]
    BY <1>1 DEF IInv, Publishing
  <1>3. Tail(todo) \in Seq(PublishDirs) /\ Range(todo) = {todo[1]} \cup Range(Tail(todo))
    BY <1>1, <1>2, HeadAndTail
  <1>4. WholeFiles(vol)' /\ WholeFiles(dur)'
    BY <1>1 DEF IInv, WholeFiles
  <1>5. Records'
    BY <1>1 DEF IInv, Records, Early, Late
  <1>6. Calling' /\ Untouched' /\ Answered'
    BY <1>1 DEF IInv, Records, Calling, Untouched, Answered, Early
  <1>7. Received'
    BY <1>1, SameMembersNext DEF IInv, Received, Late
  <1>8. \A i \in 1..Members : Member(i).path \in Paths
    BY <1>1, LateCall DEF Late
  <1>9. ASSUME NEW i \in 1..Members, NEW q \in Way(Member(i).path)
        PROVE  Parent[q] \in Range(Tail(todo)) \/ dur'[q] = vol[q]
    <2>1. q \in Paths
      BY <1>8, AboveAssumption DEF Way
    <2>2. CASE Parent[q] = todo[1]
      BY <1>1, <2>1, <2>2 DEF Inside
    <2>3. CASE Parent[q] # todo[1]
      BY <1>1, <1>2, <1>3, <2>1, <2>3 DEF Inside
    <2> QED BY <2>2, <2>3
  <1>10. \A i \in 1..Members : Published(i)'
    BY <1>1, <1>2, SameMembersNext DEF Published
  <1>11. Publishing'
    <2>1. \A i \in 1..(Members') :
             /\ Published(i)'
             /\ \A q \in Way(Member(i)'.path) : Parent[q] \in Range(todo') \/ dur'[q] = vol'[q]
      BY <1>1, <1>9, <1>10, SameMembersNext
    <2> QED BY <1>1, <1>3, <2>1, SameMembersNext DEF Publishing
  <1> QED BY <1>4, <1>5, <1>6, <1>7, <1>11 DEF IInv

\* A call returns successfully.
LEMMA ExtractedHolds ==
  ASSUME IInv, Extracted
  PROVE  IInv'
  <1>1. /\ step = "flush" /\ todo = <<>> /\ step' = "idle"
        /\ vol' = vol /\ dur' = dur /\ here' = here /\ start' = start /\ offered' = offered
        /\ answer' = [how |-> "ok", part |-> "flush"] /\ losses' = losses
        /\ staging' = [staging EXCEPT !.own = FALSE] /\ staged' = 0 /\ flushed' = {}
    BY DEF Extracted, Return, tree, marks, limits
  <1>2. WholeFiles(vol)' /\ WholeFiles(dur)'
    BY <1>1 DEF IInv, WholeFiles
  <1>3. Records'
    BY <1>1 DEF IInv, Records
  <1>4. Calling' /\ Untouched' /\ Received' /\ Publishing'
    BY <1>1 DEF Calling, Untouched, Received, Publishing, Early, Late
  <1>5. start.man = pack.man
    BY <1>1 DEF IInv, Calling
  <1>6. /\ \A i \in 1..Members : Member(i).path \in Paths
        /\ \A k \in DOMAIN pack.man.artifacts : \E i \in 1..Members :
              Member(i).path = pack.man.artifacts[k].path /\ Member(i).blob = pack.man.artifacts[k].sha
    BY <1>1, LateCall DEF Late
  <1>7. ASSUME NEW i \in 1..Members
        PROVE  Published(i) /\ \A q \in Way(Member(i).path) : dur[q] = vol[q]
    <2>1. Range(todo) = {}
      BY <1>1 DEF Range
    <2> QED BY <1>1, <2>1 DEF IInv, Publishing
  <1>8. ASSUME NEW k \in DOMAIN pack.man.artifacts PROVE OnDisk(pack.man.artifacts[k])
    <2>1. PICK i \in 1..Members :
             Member(i).path = pack.man.artifacts[k].path /\ Member(i).blob = pack.man.artifacts[k].sha
      BY <1>6
    <2> QED BY <1>6, <1>7, <2>1 DEF OnDisk, Published
  <1>9. \A k \in DOMAIN start.man.artifacts : OnDisk(start.man.artifacts[k])
    BY <1>5, <1>8
  <1>10. Answered'
    BY <1>1, <1>9 DEF Answered, OnDisk
  <1> QED BY <1>2, <1>3, <1>4, <1>10 DEF IInv

\* A system call fails.
LEMMA CallFailsHolds ==
  ASSUME IInv, CallFails
  PROVE  IInv'
  <1> DEFINE part == IF step \in {"publish", "rename", "flush"} THEN "publish" ELSE "walk"
  <1>1. step # "idle" /\ Return("Io", part) /\ UNCHANGED <<tree, marks>> /\ losses' = losses
    BY DEF CallFails
  <1>2. part = "walk" => step \in Early
    BY <1>1 DEF IInv, Records, Early, Late
  <1> HIDE DEF part
  <1> QED BY <1>1, <1>2, ReturnHolds

\* The process is killed.
LEMMA KilledHolds ==
  ASSUME IInv, Killed
  PROVE  IInv'
  <1>1. /\ Dies /\ vol' = vol /\ dur' = dur /\ UNCHANGED <<here, marks>> /\ losses' = losses
        /\ offered' = offered
    BY DEF Killed, tree, marks
  <1>2. WholeFiles(vol)' /\ WholeFiles(dur)' /\ losses' \in Nat
    BY <1>1 DEF IInv, WholeFiles, Records
  <1> QED BY <1>1, <1>2, DiesHolds
-----------------------------------------------------------------------------
\* What a power loss leaves of a tree of whole files is one.
LEMMA RemainsWhole ==
  ASSUME WholeFiles(vol), WholeFiles(dur), NEW kept
  PROVE  WholeFiles(Remains(kept))
  <1> DEFINE entry(p) == IF p \in kept THEN vol[p] ELSE dur[p]
             there(p) == entry(p).kind # "none" /\ \A d \in Above[p] : entry(d).kind = "dir"
  <1>1. \A p \in Paths : entry(p).kind = "file" =>
           <<p, entry(p).blob>> \in offered /\ entry(p).synced = TRUE
    BY DEF WholeFiles
  <1>2. Remains(kept) = [p \in Paths |-> IF ~there(p) THEN NoEntry
                        ELSE IF entry(p).kind = "file" /\ ~entry(p).synced THEN FileEntry(Torn, TRUE)
                        ELSE entry(p)]
    BY DEF Remains
  <1> HIDE DEF entry, there
  <1>3. ASSUME NEW p \in Paths PROVE Remains(kept)[p] = NoEntry \/ Remains(kept)[p] = entry(p)
    BY <1>1, <1>2
  <1>4. NoEntry.kind # "file"
    BY DEF NoEntry
  <1>5. \A p \in Paths : Remains(kept)[p].kind = "file" =>
           <<p, Remains(kept)[p].blob>> \in offered /\ Remains(kept)[p].synced = TRUE
    BY <1>1, <1>3, <1>4
  <1>6. Remains(kept) = [p \in Paths |-> Remains(kept)[p]]
    BY <1>2
  <1> QED BY <1>5, <1>6 DEF WholeFiles

\* An entry that was flushed, with everything above it, is not lost.
LEMMA RemainsOnDisk ==
  ASSUME WholeFiles(vol), NEW kept, NEW p \in Paths, vol[p].kind # "none",
         \A q \in Way(p) : dur[q] = vol[q], Reached(vol, p)
  PROVE  Remains(kept)[p] = vol[p]
  <1> DEFINE entry(q) == IF q \in kept THEN vol[q] ELSE dur[q]
             there(q) == entry(q).kind # "none" /\ \A d \in Above[q] : entry(d).kind = "dir"
  <1>1. \A q \in Way(p) : entry(q) = vol[q]
    OBVIOUS
  <1>2. Remains(kept)[p] = IF ~there(p) THEN NoEntry
                           ELSE IF entry(p).kind = "file" /\ ~entry(p).synced THEN FileEntry(Torn, TRUE)
                           ELSE entry(p)
    BY DEF Remains
  <1> HIDE DEF entry
  <1>3. p \in Way(p) /\ Above[p] \subseteq Way(p)
    BY DEF Way
  <1>4. there(p)
    BY <1>1, <1>3 DEF Reached
  <1>5. vol[p].kind = "file" => vol[p].synced = TRUE
    BY DEF WholeFiles
  <1> HIDE DEF there
  <1>6. entry(p) = vol[p]
    BY <1>1, <1>3
  <1> QED BY <1>2, <1>4, <1>5, <1>6

\* Power is lost.
LEMMA PowerLostHolds ==
  ASSUME IInv, PowerLost
  PROVE  IInv'
  <1>1. PICK kept \in SUBSET {p \in Paths : vol[p] # dur[p]} : vol' = Remains(kept) /\ dur' = Remains(kept)
    BY DEF PowerLost
  <1>2. /\ losses' = losses + 1 /\ here' = here /\ start' = start /\ offered' = offered
        /\ UNCHANGED marks
    BY DEF PowerLost, marks
  <1>3. WholeFiles(vol) /\ WholeFiles(dur) /\ WholeFiles(Remains(kept))
    BY RemainsWhole DEF IInv
  <1>4. WholeFiles(vol)' /\ WholeFiles(dur)'
    BY <1>1, <1>2, <1>3 DEF WholeFiles
  <1>5. losses' \in Nat /\ losses' # 0
    BY <1>2 DEF IInv, Records
  <1>6. CASE step # "idle"
    <2>1. Dies
      BY <1>6 DEF PowerLost
    <2> QED BY <1>2, <1>4, <1>5, <2>1, DiesHolds
  <1>7. CASE step = "idle"
    <2>1. /\ step' = step /\ pack' = pack /\ staged' = staged /\ flushed' = flushed /\ todo' = todo
          /\ staging' = staging /\ answer' = answer
      BY <1>7 DEF PowerLost, work
    <2>2. Records'
      BY <1>2, <1>5, <1>7, <2>1 DEF IInv, Records
    <2>3. Calling' /\ Untouched' /\ Received' /\ Publishing'
      BY <1>5, <1>7, <2>1 DEF Calling, Untouched, Received, Publishing, Late
    <2>4. ASSUME NEW a, OnDisk(a)
          PROVE  /\ a.path \in Paths
                 /\ vol'[a.path].kind = "file" /\ vol'[a.path].blob = a.sha
                 /\ Reached(vol', a.path)
                 /\ \A q \in Way(a.path) : dur'[q] = vol'[q]
      <3>1. /\ a.path \in Paths /\ vol[a.path].kind = "file" /\ vol[a.path].blob = a.sha
            /\ Reached(vol, a.path) /\ \A q \in Way(a.path) : dur[q] = vol[q]
        BY <2>4 DEF OnDisk
      <3>2. vol'[a.path] = vol[a.path]
        BY <1>1, <1>3, <3>1, RemainsOnDisk
      <3>3. ASSUME NEW d \in Above[a.path] PROVE vol'[d] = vol[d]
        <4>1. d \in Paths /\ Way(d) \subseteq Way(a.path) /\ Above[d] \subseteq Above[a.path]
          BY <3>1, AboveAssumption DEF Way
        <4>2. Reached(vol, d) /\ vol[d].kind = "dir" /\ \A q \in Way(d) : dur[q] = vol[q]
          BY <3>1, <4>1 DEF Reached
        <4> QED BY <1>1, <1>3, <4>1, <4>2, RemainsOnDisk
      <3>4. Reached(vol', a.path)
        BY <3>1, <3>3 DEF Reached
      <3> QED BY <1>1, <3>1, <3>2, <3>4
    <2>5. Answered'
      BY <1>2, <2>1, <2>4 DEF IInv, Answered, OnDisk
    <2> QED BY <1>4, <2>2, <2>3, <2>5 DEF IInv
  <1> QED BY <1>6, <1>7
-----------------------------------------------------------------------------
(* The theorem *)

\* Every step keeps the invariant.
LEMMA StepHolds ==
  ASSUME NEW packages, \A p \in packages : Wellformed(p), IInv,
         [ExtractNext(packages)]_extractVars
  PROVE  IInv'
  <1>1. ASSUME NEW p \in packages, ExtractTo(p) PROVE IInv'
    BY <1>1, ExtractToHolds
  <1>2. CASE ExtractStep
    <2>1. CASE CreateDest \/ CreateStaging
      BY <2>1, PrepareHolds
    <2>2. CASE Receive
      BY <2>2, ReceiveHolds
    <2>3. CASE AcceptMember
      BY <2>3, AcceptHolds
    <2>4. CASE EndWalk
      BY <2>4, EndWalkHolds
    <2>5. CASE MakeParents
      BY <2>5, MakeParentsHolds
    <2>6. CASE RenameMember
      BY <2>6, RenameHolds
    <2>7. CASE BeginFlush
      BY <2>7, BeginFlushHolds
    <2>8. CASE SyncDir
      BY <2>8, SyncDirHolds
    <2>9. CASE Extracted
      BY <2>9, ExtractedHolds
    <2>10. CASE CallFails
      BY <2>10, CallFailsHolds
    <2>11. CASE Killed
      BY <2>11, KilledHolds
    <2>12. CASE PowerLost
      BY <2>12, PowerLostHolds
    <2> QED BY <1>2, <2>1, <2>2, <2>3, <2>4, <2>5, <2>6, <2>7, <2>8, <2>9, <2>10, <2>11, <2>12
            DEF ExtractStep
  <1>3. CASE UNCHANGED extractVars
    <2>1. /\ vol' = vol /\ dur' = dur /\ here' = here /\ step' = step /\ pack' = pack
          /\ staged' = staged /\ flushed' = flushed /\ todo' = todo /\ staging' = staging
          /\ answer' = answer /\ start' = start /\ offered' = offered /\ losses' = losses
      BY <1>3 DEF extractVars, tree, work, marks, limits
    <2>2. WholeFiles(vol)' /\ WholeFiles(dur)' /\ Records' /\ Calling' /\ Untouched'
      BY <2>1 DEF IInv, WholeFiles, Records, Calling, Untouched
    <2>3. Received'
      BY <2>1, SameMembersNext DEF IInv, Received
    <2>4. Publishing'
      <3>1. \A i : Published(i)' = Published(i)
        BY <2>1, SameMembersNext DEF Published
      <3> QED BY <2>1, <3>1, SameMembersNext DEF IInv, Publishing
    <2>5. Answered'
      BY <2>1 DEF IInv, Answered, OnDisk
    <2> QED BY <2>2, <2>3, <2>4, <2>5 DEF IInv
  <1> QED BY <1>1, <1>2, <1>3 DEF ExtractNext

\* The invariant is what was promised.
LEMMA InvariantIsEnough == IInv => TargetsAreWhole
  <1> SUFFICES ASSUME IInv PROVE TargetsAreWhole
    OBVIOUS
  <1>1. \A p \in FilePaths : <<p, vol[p].blob>> \in offered
    BY DEF IInv, WholeFiles, FilePaths
  <1>2. (step = "idle" /\ answer.part = "walk" /\ losses = 0) =>
          vol = start.entries /\ ~staging.own /\ (start.here => here)
    BY DEF IInv, Untouched, Records
  <1>3. answer.how = "ok" => \A i \in DOMAIN start.man.artifacts :
           /\ vol[start.man.artifacts[i].path].kind = "file"
           /\ vol[start.man.artifacts[i].path].blob = start.man.artifacts[i].sha
    BY DEF IInv, Answered, OnDisk
  <1> QED BY <1>1, <1>2, <1>3 DEF TargetsAreWhole

\* Whatever packages are extracted, in whatever order, over whatever was there,
\* and whatever fails or is lost on the way: no target path holds anything but
\* what was there or a whole artifact, a refusal of the walk leaves the
\* destination as it was, and what a successful call extracted stays
\* (Payload::extract_to, publish, publish_dirs).
THEOREM ExtractSafety ==
  ASSUME NEW entries, NEW exists, NEW packages,
         Settled(entries), \A p \in packages : Wellformed(p)
  PROVE  ExtractSpec(entries, exists, packages) => []TargetsAreWhole
  <1>1. ExtractInit(entries, exists) => IInv
    BY StartHolds
  <1>2. IInv /\ [ExtractNext(packages)]_extractVars => IInv'
    BY StepHolds
  <1>3. IInv => TargetsAreWhole
    BY InvariantIsEnough
  <1> QED BY <1>1, <1>2, <1>3, PTL DEF ExtractSpec
-----------------------------------------------------------------------------
(* The verdict of verify_package *)

\* What verify_package is given: lists, numbers, and names that are none of the
\* marks that stand for an absent value.
Parcel(p, t, r) ==
    /\ p.artifacts \in Seq(Range(p.artifacts)) /\ p.members \in Seq(Range(p.members))
    /\ p.format \in Nat /\ t.minFormat \in Nat /\ t.epoch \in Nat /\ r.epoch \in Nat \cup {NoEpoch}
    /\ \A a \in t.anchors : a.key # "absent"
    /\ \A i \in Declared(p) :
          /\ Image(p, i).owner = Owner(Image(p, i).owner.namespace, Image(p, i).owner.component)
          /\ Image(p, i).owner.namespace # "none"
          /\ DOMAIN Image(p, i).refs \subseteq Nat

\* A list of verdicts passes exactly when each of them does.
LEMMA PassesIff ==
  ASSUME NEW v, DOMAIN v \subseteq Nat
  PROVE  FirstOf(v) = "ok" <=> \A i \in DOMAIN v : v[i] = "ok"
  <1>1. (\A i \in DOMAIN v : v[i] = "ok") => FirstOf(v) = "ok"
    BY DEF FirstOf
  <1> QED BY <1>1, AllPass

\* The same of two lists, one after the other.
LEMMA BothPassIff ==
  ASSUME NEW S, NEW v \in Seq(S), NEW w \in Seq(S)
  PROVE  FirstOf(v \o w) = "ok" <=>
           (\A i \in 1..Len(v) : v[i] = "ok") /\ (\A i \in 1..Len(w) : w[i] = "ok")
  <1>1. SUFFICES ASSUME \A i \in 1..Len(v) : v[i] = "ok", \A i \in 1..Len(w) : w[i] = "ok"
                 PROVE  FirstOf(v \o w) = "ok"
    BY BothPass
  <1>2. Len(v) \in Nat /\ Len(w) \in Nat /\ DOMAIN (v \o w) = 1..(Len(v) + Len(w))
    OBVIOUS
  <1>3. ASSUME NEW i \in 1..(Len(v) + Len(w)) PROVE (v \o w)[i] = "ok"
    <2>1. CASE i \in 1..Len(v)
      <3>1. (v \o w)[i] = v[i]
        BY <2>1
      <3> QED BY <3>1, <2>1, <1>1
    <2>2. CASE i \notin 1..Len(v)
      <3>1. i - Len(v) \in 1..Len(w) /\ (v \o w)[i] = w[i - Len(v)]
        BY <1>2, <2>2
      <3> QED BY <3>1, <1>1
    <2> QED BY <2>1, <2>2
  <1> DEFINE both == v \o w
  <1>4. \A i \in DOMAIN both : both[i] = "ok"
    BY <1>2, <1>3
  <1> HIDE DEF both
  <1>5. FirstOf(both) = "ok"
    BY <1>4 DEF FirstOf
  <1> QED BY <1>5 DEF both

\* A signature passes when a live anchor made it, whatever the hint
\* (verify_signature).
LEMMA SignaturePasses ==
  ASSUME NEW alg, NEW p, NEW t, \A a \in t.anchors : a.key # "absent"
  PROVE  VerifySignature(alg, p, t) = "ok" <=>
           \E a \in t.anchors : a.alg = alg /\ ~a.revoked /\ a.key = p.sig[alg]
  BY DEF VerifySignature, Anchors, Verifies

\* An entry of the manifest passes when it is sound and the first at its path
\* (from_parts).
LEMMA EntriesPass ==
  ASSUME NEW a, a \in Seq(Range(a))
  PROVE  (\A i \in DOMAIN a : EntryFault(a, i) = "ok") <=>
           /\ \A i \in DOMAIN a : a[i].disposed /\ a[i].sound /\ a[i].path \notin UnsafePaths
           /\ \A i, j \in DOMAIN a : a[j].path = a[i].path => i = j
  <1>1. DOMAIN a = 1..Len(a) /\ Len(a) \in Nat
    OBVIOUS
  <1>2. \A i \in DOMAIN a : EntryFault(a, i) = "ok" <=>
           /\ a[i].disposed /\ a[i].sound /\ a[i].path \notin UnsafePaths
           /\ ~(\E j \in 1..(i - 1) : a[j].path = a[i].path)
    BY DEF EntryFault
  <1>3. ASSUME \A i \in DOMAIN a : ~(\E j \in 1..(i - 1) : a[j].path = a[i].path),
               NEW i \in DOMAIN a, NEW j \in DOMAIN a, a[j].path = a[i].path
        PROVE  i = j
    <2>1. ~(j \in 1..(i - 1)) /\ ~(i \in 1..(j - 1))
      BY <1>3
    <2> QED BY <1>1, <2>1
  <1>4. ASSUME \A i, j \in DOMAIN a : a[j].path = a[i].path => i = j,
               NEW i \in DOMAIN a, NEW j \in 1..(i - 1)
        PROVE  a[j].path # a[i].path
    <2>1. j \in DOMAIN a /\ j # i
      BY <1>1
    <2> QED BY <1>4, <2>1
  <1> QED BY <1>2, <1>3, <1>4

\* The manifest is one this build reads (authenticate_manifest).
LEMMA AuthenticPasses ==
  ASSUME NEW p, NEW t, NEW r, Parcel(p, t, r), NoFormat \notin BuildFormats
  PROVE  AuthenticateManifest(p, t) = "ok" <=>
           /\ \A alg \in Algorithms : VerifySignature(alg, p, t) = "ok"
           /\ p.stage1 /\ p.decodes /\ p.format \in BuildFormats /\ p.format >= t.minFormat
           /\ \A i \in DOMAIN p.artifacts : EntryFault(p.artifacts, i) = "ok"
  <1> DEFINE n == Len(p.artifacts)
             ed == VerifySignature("ed25519", p, t)
             ml == VerifySignature("mldsa87", p, t)
             stage == IF p.stage1 THEN "ok" ELSE "Payload"
             floor == IF p.format # NoFormat /\ p.format < t.minFormat
                      THEN "UnsupportedManifestFormat" ELSE "ok"
             parse == ParseManifest(p)
             v == <<ed, ml, stage, floor, parse>>
             build == IF p.format = NoFormat THEN "Payload"
                      ELSE IF p.format \in BuildFormats THEN "ok" ELSE "UnsupportedManifestFormat"
             decode == IF p.decodes THEN "ok" ELSE "Payload"
             head == <<build, decode>>
             entries == [i \in DOMAIN p.artifacts |-> EntryFault(p.artifacts, i)]
             S == Range(head) \cup Range(entries)
  <1>1. DOMAIN p.artifacts = 1..n /\ n \in Nat
    BY DEF Parcel
  <1>2. AuthenticateManifest(p, t) = FirstOf(v) /\ parse = FirstOf(head \o entries)
    BY DEF AuthenticateManifest, ParseManifest
  <1>3. /\ stage = "ok" <=> p.stage1
        /\ decode = "ok" <=> p.decodes
        /\ build = "ok" <=> p.format \in BuildFormats
        /\ p.format \in BuildFormats => (floor = "ok" <=> p.format >= t.minFormat)
    BY DEF Parcel
  <1>4. entries \in Seq(S) /\ Len(entries) = n
        /\ \A i \in 1..n : entries[i] = EntryFault(p.artifacts, i)
    BY <1>1 DEF Range
  <1> HIDE DEF stage, floor, parse, ed, ml, build, decode
  <1>5. FirstOf(v) = "ok" <=> ed = "ok" /\ ml = "ok" /\ stage = "ok" /\ floor = "ok" /\ parse = "ok"
    <2>1. DOMAIN v = 1..5 /\ v[1] = ed /\ v[2] = ml /\ v[3] = stage /\ v[4] = floor /\ v[5] = parse
      OBVIOUS
    <2> HIDE DEF v
    <2> QED BY <2>1, PassesIff
  <1> HIDE DEF entries
  <1>6. head \in Seq(S) /\ Len(head) = 2 /\ head[1] = build /\ head[2] = decode
    BY DEF Range
  <1> HIDE DEF head, S, v
  <1>7. parse = "ok" <=>
          build = "ok" /\ decode = "ok" /\ \A i \in 1..n : EntryFault(p.artifacts, i) = "ok"
    <2>1. FirstOf(head \o entries) = "ok" <=>
            (\A i \in 1..Len(head) : head[i] = "ok") /\ (\A i \in 1..Len(entries) : entries[i] = "ok")
      BY <1>4, <1>6, BothPassIff
    <2>2. (\A i \in 1..Len(head) : head[i] = "ok") <=> build = "ok" /\ decode = "ok"
      BY <1>6
    <2>3. (\A i \in 1..Len(entries) : entries[i] = "ok") <=>
            \A i \in 1..n : EntryFault(p.artifacts, i) = "ok"
      BY <1>4
    <2> QED BY <1>2, <2>1, <2>2, <2>3
  <1>8. (\A alg \in Algorithms : VerifySignature(alg, p, t) = "ok") <=> ed = "ok" /\ ml = "ok"
    BY DEF Algorithms, ed, ml
  <1> QED BY <1>1, <1>2, <1>3, <1>5, <1>7, <1>8

\* A list without repetitions is as long as the set of its elements is large.
LEMMA DistinctCount ==
  ASSUME NEW s, NEW n \in Nat, NEW T, T = {s[i] : i \in 1..n}, DOMAIN s = 1..n, IsInjective(s)
  PROVE  IsFiniteSet(T) /\ Cardinality(T) = n
  <1> DEFINE f == [i \in 1..n |-> s[i]]
  <1>1. f \in Bijection(1..n, T)
    <2>1. f \in [1..n -> T] /\ \A u \in T : \E i \in 1..n : f[i] = u
      OBVIOUS
    <2>2. IsInjective(f)
      BY DEF IsInjective
    <2> QED BY <2>1, <2>2 DEF Bijection, Injection, Surjection
  <1> HIDE DEF f
  <1>2. ExistsBijection(1..n, T)
    BY <1>1 DEF ExistsBijection
  <1>3. IsFiniteSet(T)
    BY <1>2, FS_NatBijection
  <1>4. Cardinality(T) = n
    BY <1>2, FS_CountingElements
  <1> QED BY <1>3, <1>4

\* Members and artifacts are complete when no member repeats, every artifact is
\* bound, and there are as many of the one as of the other (check_completeness).
\* The artifacts are those of a manifest that parsed.
LEMMA CompletenessPasses ==
  ASSUME NEW p, p.artifacts \in Seq(Range(p.artifacts)), p.members \in Seq(Range(p.members)),
         \A i \in DOMAIN p.artifacts : p.artifacts[i].path \notin UnsafePaths,
         \A i, j \in DOMAIN p.artifacts : p.artifacts[j].path = p.artifacts[i].path => i = j
  PROVE  CheckCompleteness(p) = "ok" <=>
           /\ Len(p.members) = Len(p.artifacts) /\ p.artifacts # <<>>
           /\ Distinct(p.members)
           /\ \A i \in DOMAIN p.artifacts : \E k \in DOMAIN p.members : p.members[k] = p.artifacts[i].path
  <1> DEFINE m == Len(p.members)
             n == Len(p.artifacts)
             each == [i \in DOMAIN p.members |-> MemberFault(p.members, i)]
             claimed == IF Bound(p) \subseteq Listed(p) THEN "ok" ELSE "UnlistedMember"
             some == IF p.artifacts = <<>> THEN "MissingRequiredMember" ELSE "ok"
             bound == IF Listed(p) \subseteq Bound(p) THEN "ok" ELSE "MissingRequiredMember"
             rest == <<claimed, some, bound>>
             S == Range(each) \cup Range(rest)
             paths == [i \in 1..n |-> p.artifacts[i].path]
  <1>1. /\ DOMAIN p.members = 1..m /\ m \in Nat /\ DOMAIN p.artifacts = 1..n /\ n \in Nat
    OBVIOUS
  <1>2. each \in Seq(S) /\ Len(each) = m /\ \A i \in 1..m : each[i] = MemberFault(p.members, i)
    BY <1>1 DEF Range
  <1>3. CheckCompleteness(p) = FirstOf(each \o rest)
    BY DEF CheckCompleteness
  <1>4. /\ claimed = "ok" <=> Bound(p) \subseteq Listed(p)
        /\ some = "ok" <=> p.artifacts # <<>>
        /\ bound = "ok" <=> Listed(p) \subseteq Bound(p)
    OBVIOUS
  <1> HIDE DEF each, claimed, some, bound
  <1>5. rest \in Seq(S) /\ Len(rest) = 3 /\ rest[1] = claimed /\ rest[2] = some /\ rest[3] = bound
    BY DEF Range
  <1> HIDE DEF rest, S
  <1>6. CheckCompleteness(p) = "ok" <=>
          /\ \A i \in 1..m : MemberFault(p.members, i) = "ok"
          /\ Bound(p) \subseteq Listed(p) /\ p.artifacts # <<>> /\ Listed(p) \subseteq Bound(p)
    <2>1. FirstOf(each \o rest) = "ok" <=>
            (\A i \in 1..Len(each) : each[i] = "ok") /\ (\A i \in 1..Len(rest) : rest[i] = "ok")
      <3>1. each \in Seq(S) /\ rest \in Seq(S)
        BY <1>2, <1>5
      <3> QED BY <3>1, BothPassIff
    <2>2. (\A i \in 1..Len(rest) : rest[i] = "ok") <=> claimed = "ok" /\ some = "ok" /\ bound = "ok"
      BY <1>5
    <2>3. (\A i \in 1..Len(each) : each[i] = "ok") <=> \A i \in 1..m : MemberFault(p.members, i) = "ok"
      BY <1>2
    <2> QED BY <1>3, <1>4, <2>1, <2>2, <2>3
  <1>7. (\A i \in 1..m : MemberFault(p.members, i) = "ok") <=>
          Distinct(p.members) /\ \A i \in 1..m : p.members[i] \notin UnsafePaths
    <2>1. \A i \in 1..m : MemberFault(p.members, i) = "ok" <=>
             p.members[i] \notin UnsafePaths /\ ~(\E j \in 1..(i - 1) : p.members[j] = p.members[i])
      BY DEF MemberFault
    <2>2. ASSUME Distinct(p.members), NEW i \in 1..m, NEW j \in 1..(i - 1), p.members[j] = p.members[i]
          PROVE  FALSE
      <3>1. j \in 1..m /\ j # i
        BY <1>1
      <3> QED BY <1>1, <2>2, <3>1 DEF Distinct
    <2>3. ASSUME \A i \in 1..m : ~(\E j \in 1..(i - 1) : p.members[j] = p.members[i])
          PROVE  Distinct(p.members)
      <3>1. SUFFICES ASSUME NEW i \in 1..m, NEW j \in 1..m, p.members[i] = p.members[j]
                     PROVE  i = j
        BY <1>1 DEF Distinct
      <3>2. ~(j \in 1..(i - 1)) /\ ~(i \in 1..(j - 1))
        BY <2>3, <3>1
      <3> QED BY <1>1, <3>2
    <2> QED BY <2>1, <2>2, <2>3
  <1>8. /\ Bound(p) = {p.members[i] : i \in 1..m}
        /\ Listed(p) = {paths[i] : i \in 1..n}
        /\ \A i \in 1..n : paths[i] = p.artifacts[i].path
    BY <1>1 DEF Bound, Listed
  <1>9. IsFiniteSet(Listed(p)) /\ Cardinality(Listed(p)) = n
    <2>1. DOMAIN paths = 1..n /\ IsInjective(paths)
      BY <1>1 DEF IsInjective
    <2> HIDE DEF paths, n
    <2>2. n \in Nat /\ Listed(p) = {paths[i] : i \in 1..n}
      BY <1>1, <1>8
    <2> QED BY <2>1, <2>2, DistinctCount, Zenon
  <1>10. Distinct(p.members) => IsFiniteSet(Bound(p)) /\ Cardinality(Bound(p)) = m
    <2> SUFFICES ASSUME Distinct(p.members) PROVE IsFiniteSet(Bound(p)) /\ Cardinality(Bound(p)) = m
      OBVIOUS
    <2>1. IsInjective(p.members)
      BY DEF Distinct, IsInjective
    <2> HIDE DEF m
    <2>2. m \in Nat /\ DOMAIN p.members = 1..m /\ Bound(p) = {p.members[i] : i \in 1..m}
      BY <1>1, <1>8
    <2> QED BY <2>1, <2>2, DistinctCount, Zenon
  <1>11. Listed(p) \subseteq Bound(p) <=>
           \A i \in DOMAIN p.artifacts : \E k \in DOMAIN p.members : p.members[k] = p.artifacts[i].path
    BY DEF Bound, Listed
  <1> HIDE DEF m, n, paths
  <1>12. ASSUME Distinct(p.members), Listed(p) \subseteq Bound(p), Bound(p) \subseteq Listed(p)
         PROVE  m = n
    <2>1. Bound(p) = Listed(p)
      BY <1>12
    <2> QED BY <1>9, <1>10, <1>12, <2>1
  <1>13. ASSUME Distinct(p.members), Listed(p) \subseteq Bound(p), m = n
         PROVE  Bound(p) = Listed(p)
    <2>1. IsFiniteSet(Bound(p)) /\ Cardinality(Bound(p)) = Cardinality(Listed(p))
      BY <1>9, <1>10, <1>13
    <2> QED BY <1>13, <2>1, FS_Subset
  <1>14. Bound(p) \subseteq Listed(p) => \A i \in 1..m : p.members[i] \notin UnsafePaths
    BY <1>1 DEF Bound, Listed
  <1>15. CheckCompleteness(p) = "ok" <=>
           /\ Distinct(p.members) /\ p.artifacts # <<>>
           /\ Bound(p) \subseteq Listed(p) /\ Listed(p) \subseteq Bound(p)
    BY <1>6, <1>7, <1>14
  <1> QED BY <1>11, <1>12, <1>13, <1>15 DEF m, n

\* A set of slots that is not empty has a first one, in manifest then
\* declaration order.
LEMMA FirstSlot ==
  ASSUME NEW S \in SUBSET (Nat \X Nat), S # {}
  PROVE  \E s \in S : \A t \in S \ {s} : Before(s, t)
  <1> DEFINE rows == {s[1] : s \in S}
  <1>1. rows \in SUBSET Nat /\ rows # {}
    OBVIOUS
  <1> HIDE DEF rows
  <1>2. PICK i \in rows : \A j \in rows : i <= j
    BY <1>1, LeastIndex
  <1> DEFINE cols == {s[2] : s \in {t \in S : t[1] = i}}
  <1>3. cols \in SUBSET Nat /\ cols # {}
    BY <1>2 DEF rows
  <1> HIDE DEF cols
  <1>4. PICK k \in cols : \A l \in cols : k <= l
    BY <1>3, LeastIndex
  <1>5. PICK s \in S : s[1] = i /\ s[2] = k
    BY <1>4 DEF cols
  <1>6. ASSUME NEW t \in S \ {s} PROVE Before(s, t)
    <2>1. t[1] \in Nat /\ t[2] \in Nat /\ s[1] \in Nat /\ s[2] \in Nat /\ i <= t[1]
      BY <1>2 DEF rows
    <2>2. t[1] = i => k <= t[2]
      BY <1>4 DEF cols
    <2>3. t[1] = i => t[2] # k
      BY <1>5
    <2> QED BY <1>5, <2>1, <2>2, <2>3 DEF Before
  <1> QED BY <1>6

\* The slots of a package are pairs of numbers.
LEMMA SlotsArePairs ==
  ASSUME NEW p, NEW t, NEW r, Parcel(p, t, r)
  PROVE  /\ Slots(p) \subseteq Nat \X Nat
         /\ \A s : s \in Slots(p) <=>
               \E i \in Declared(p) : \E j \in DOMAIN Image(p, i).refs : s = <<i, j>>
  <1>1. Declared(p) \subseteq Nat
    BY DEF Declared, Parcel
  <1>2. \A i \in Declared(p) : DOMAIN Image(p, i).refs \subseteq Nat
    BY DEF Parcel
  <1> QED BY <1>1, <1>2 DEF Slots

\* A reference under the reserved registry is the canonical alias of a managed
\* runtime (check_reserved_aliases).
LEMMA ReservedPasses ==
  ASSUME NEW p, NEW t, NEW r, Parcel(p, t, r)
  PROVE  CheckReservedAliases(p) = "ok" <=>
           \A i \in Declared(p) : \A j \in DOMAIN Image(p, i).refs :
              Image(p, i).refs[j].reserved => Image(p, i).refs[j].canonical /\ Image(p, i).managed
  <1> DEFINE bad == {s \in Slots(p) : ReservedFault(Image(p, s[1]), Ref(p, s)) # "ok"}
             s0 == CHOOSE s \in bad : \A u \in bad \ {s} : Before(s, u)
  <1>1. CheckReservedAliases(p) =
          IF bad = {} THEN "ok" ELSE ReservedFault(Image(p, s0[1]), Ref(p, s0))
    BY DEF CheckReservedAliases
  <1>2. bad \in SUBSET (Nat \X Nat)
    BY SlotsArePairs
  <1>3. bad # {} => s0 \in bad
    <2> SUFFICES ASSUME bad # {} PROVE s0 \in bad
      OBVIOUS
    <2> HIDE DEF bad
    <2>1. \E s \in bad : \A u \in bad \ {s} : Before(s, u)
      BY <1>2, FirstSlot
    <2> QED BY <2>1
  <1>4. CheckReservedAliases(p) = "ok" <=> bad = {}
    <2> HIDE DEF s0
    <2> QED BY <1>1, <1>3
  <1>5. bad = {} <=> \A s \in Slots(p) : ReservedFault(Image(p, s[1]), Ref(p, s)) = "ok"
    OBVIOUS
  <1>6. \A s \in Slots(p) : ReservedFault(Image(p, s[1]), Ref(p, s)) = "ok" <=>
           (Ref(p, s).reserved => Ref(p, s).canonical /\ Image(p, s[1]).managed)
    BY DEF ReservedFault
  <1> HIDE DEF bad
  <1>7. (\A s \in Slots(p) : Ref(p, s).reserved => Ref(p, s).canonical /\ Image(p, s[1]).managed) <=>
          \A i \in Declared(p) : \A j \in DOMAIN Image(p, i).refs :
             Image(p, i).refs[j].reserved => Image(p, i).refs[j].canonical /\ Image(p, i).managed
    <2>1. \A i, j : Ref(p, <<i, j>>) = Image(p, i).refs[j]
      BY DEF Ref
    <2>2. \A i \in Declared(p) : \A j \in DOMAIN Image(p, i).refs : <<i, j>> \in Slots(p)
      BY SlotsArePairs
    <2>3. \A s \in Slots(p) : \E i \in Declared(p) : \E j \in DOMAIN Image(p, i).refs : s = <<i, j>>
      BY SlotsArePairs
    <2>4. ASSUME \A s \in Slots(p) :
                    Ref(p, s).reserved => Ref(p, s).canonical /\ Image(p, s[1]).managed,
                 NEW i \in Declared(p), NEW j \in DOMAIN Image(p, i).refs, Image(p, i).refs[j].reserved
          PROVE  Image(p, i).refs[j].canonical /\ Image(p, i).managed
      <3>1. <<i, j>> \in Slots(p) /\ <<i, j>>[1] = i /\ Ref(p, <<i, j>>) = Image(p, i).refs[j]
        BY <2>1, <2>2
      <3> QED BY <2>4, <3>1
    <2>5. ASSUME \A i \in Declared(p) : \A j \in DOMAIN Image(p, i).refs :
                    Image(p, i).refs[j].reserved => Image(p, i).refs[j].canonical /\ Image(p, i).managed,
                 NEW s \in Slots(p), Ref(p, s).reserved
          PROVE  Ref(p, s).canonical /\ Image(p, s[1]).managed
      <3>1. PICK i \in Declared(p) : \E j \in DOMAIN Image(p, i).refs : s = <<i, j>>
        BY <2>3
      <3>2. PICK j \in DOMAIN Image(p, i).refs : s = <<i, j>>
        BY <3>1
      <3>3. s[1] = i /\ Ref(p, s) = Image(p, i).refs[j]
        BY <2>1, <3>2
      <3> QED BY <2>5, <3>3
    <2> QED BY <2>4, <2>5
  <1> QED BY <1>4, <1>5, <1>6, <1>7

\* Two declarations that assign one name assign one image, whichever of the
\* slots were compared (check_reference_conflicts).
LEMMA ReferencesAgree ==
  ASSUME NEW p, NEW t, NEW r, Parcel(p, t, r)
  PROVE  CheckReferenceConflicts(p) = "ok" <=>
           \A s, u \in Slots(p) : Ref(p, s).norm = Ref(p, u).norm =>
              ~ConflictBetween(Image(p, s[1]), Image(p, u[1]))
  <1> DEFINE slots == Slots(p)
             same == {q \in slots \X slots : Ref(p, q[1]).norm = Ref(p, q[2]).norm}
             first == {q \in same : \A w \in same : w[2] = q[2] => w[1] = q[1] \/ Before(q[1], w[1])}
  <1>1. CheckReferenceConflicts(p) = "ok" <=>
          \A q \in first : ~ConflictBetween(Image(p, q[1][1]), Image(p, q[2][1]))
    BY DEF CheckReferenceConflicts
  <1>2. slots \in SUBSET (Nat \X Nat)
    BY SlotsArePairs
  <1> HIDE DEF slots
  <1>3. ASSUME \A q \in first : ~ConflictBetween(Image(p, q[1][1]), Image(p, q[2][1])),
               NEW s \in slots, NEW u \in slots, Ref(p, s).norm = Ref(p, u).norm
        PROVE  ~ConflictBetween(Image(p, s[1]), Image(p, u[1]))
    <2> DEFINE named == {w \in slots : Ref(p, w).norm = Ref(p, s).norm}
    <2>1. named \in SUBSET (Nat \X Nat) /\ s \in named /\ u \in named
      BY <1>2, <1>3
    <2>2. PICK f \in named : \A w \in named \ {f} : Before(f, w)
      <3> HIDE DEF named
      <3> QED BY <2>1, FirstSlot
    <2>3. ASSUME NEW v \in named PROVE ~ConflictBetween(Image(p, f[1]), Image(p, v[1]))
      <3>1. <<f, v>> \in same
        BY <2>2, <2>3
      <3>2. ASSUME NEW w \in same, w[2] = v PROVE w[1] = f \/ Before(f, w[1])
        <4>1. w[1] \in named
          BY <3>2, <2>3
        <4> QED BY <2>2, <4>1
      <3>3. <<f, v>> \in first
        <4> HIDE DEF same
        <4>1. <<f, v>>[1] = f /\ <<f, v>>[2] = v
          OBVIOUS
        <4> QED BY <3>1, <3>2, <4>1
      <3>4. <<f, v>>[1] = f /\ <<f, v>>[2] = v
        OBVIOUS
      <3> HIDE DEF first
      <3> QED BY <1>3, <3>3, <3>4
    <2>4. ~ConflictBetween(Image(p, f[1]), Image(p, s[1])) /\ ~ConflictBetween(Image(p, f[1]), Image(p, u[1]))
      BY <2>1, <2>3
    <2> QED BY <2>4 DEF ConflictBetween
  <1>4. ASSUME \A s, u \in slots : Ref(p, s).norm = Ref(p, u).norm =>
                  ~ConflictBetween(Image(p, s[1]), Image(p, u[1])),
               NEW q \in first
        PROVE  ~ConflictBetween(Image(p, q[1][1]), Image(p, q[2][1]))
    <2>1. q[1] \in slots /\ q[2] \in slots /\ Ref(p, q[1]).norm = Ref(p, q[2]).norm
      OBVIOUS
    <2> QED BY <1>4, <2>1
  <1> HIDE DEF first
  <1> QED BY <1>1, <1>3, <1>4 DEF slots

\* The owner every declaration names is the one asked for (check_owners).
LEMMA OwnersPass ==
  ASSUME NEW p, NEW t, NEW r, Parcel(p, t, r)
  PROVE  CheckOwners(p, r) = "ok" <=>
           \A i \in Declared(p) : Image(p, i).owner = Owner(r.namespace, r.target)
  <1>1. \A i \in Declared(p) : Image(p, i).owner = Owner(r.namespace, r.target) <=>
           Image(p, i).owner.namespace = r.namespace /\ Image(p, i).owner.component = r.target
    <2>1. \A a, b : Owner(a, b).namespace = a /\ Owner(a, b).component = b
      BY DEF Owner
    <2> QED BY <2>1 DEF Parcel
  <1>2. \A i \in Declared(p) : Image(p, i).owner.namespace # "none"
    BY DEF Parcel
  <1>3. CheckOwners(p, r) = "ok" <=>
          \/ Declared(p) = {}
          \/ /\ r.namespace # "none"
             /\ \A i \in Declared(p) : Image(p, i).owner.namespace = r.namespace
             /\ \A i \in Declared(p) : Image(p, i).owner.component = r.target
    BY DEF CheckOwners
  <1> QED BY <1>1, <1>2, <1>3

\* The declarations of a package pass one by one and pair by pair
\* (check_images).
LEMMA ImagesPass ==
  ASSUME NEW p, NEW t, NEW r, Parcel(p, t, r)
  PROVE  CheckImages(p, r) = "ok" <=>
           /\ CheckDeclaredPlatforms(p) = "ok" /\ CheckReservedAliases(p) = "ok"
           /\ CheckReferenceConflicts(p) = "ok" /\ CheckOwners(p, r) = "ok"
  <1> DEFINE v == <<CheckDeclaredPlatforms(p), CheckReservedAliases(p),
                    CheckReferenceConflicts(p), CheckOwners(p, r)>>
  <1>1. DOMAIN v = 1..4
    OBVIOUS
  <1>2. /\ v[1] = CheckDeclaredPlatforms(p) /\ v[2] = CheckReservedAliases(p)
        /\ v[3] = CheckReferenceConflicts(p) /\ v[4] = CheckOwners(p, r)
    OBVIOUS
  <1>3. CheckImages(p, r) = FirstOf(v)
    BY DEF CheckImages
  <1> HIDE DEF v
  <1>4. FirstOf(v) = "ok" <=> \A i \in 1..4 : v[i] = "ok"
    BY <1>1, PassesIff
  <1> QED BY <1>2, <1>3, <1>4

\* The statements of an authenticated manifest (check_statements).
LEMMA StatementsPass ==
  ASSUME NEW p, NEW t, NEW r
  PROVE  CheckStatements(p, r, t) = "ok" <=>
           /\ CheckCompleteness(p) = "ok" /\ CheckIdentifiers(p) = "ok"
           /\ CheckWithdrawal(p, t) = "ok" /\ CheckTarget(p, r) = "ok"
           /\ CheckEpoch(r, t) = "ok" /\ CheckImages(p, r) = "ok"
  <1> DEFINE v == <<CheckCompleteness(p), CheckIdentifiers(p), CheckWithdrawal(p, t),
                    CheckTarget(p, r), CheckEpoch(r, t), CheckImages(p, r)>>
  <1>1. DOMAIN v = 1..6
    OBVIOUS
  <1>2. /\ v[1] = CheckCompleteness(p) /\ v[2] = CheckIdentifiers(p) /\ v[3] = CheckWithdrawal(p, t)
        /\ v[4] = CheckTarget(p, r) /\ v[5] = CheckEpoch(r, t) /\ v[6] = CheckImages(p, r)
    OBVIOUS
  <1>3. CheckStatements(p, r, t) = FirstOf(v)
    BY DEF CheckStatements
  <1> HIDE DEF v
  <1>4. FirstOf(v) = "ok" <=> \A i \in 1..6 : v[i] = "ok"
    BY <1>1, PassesIff
  <1> QED BY <1>2, <1>3, <1>4

\* What the declarations of an acceptable package are, slot by slot.
LEMMA DeclarationsPass ==
  ASSUME Parcel(pkg, trust, req)
  PROVE  CheckImages(pkg, req) = "ok" <=>
           /\ \A d \in Decls :
                 /\ d.native /\ d.owner = Owner(req.namespace, req.target)
                 /\ \A i \in DOMAIN d.refs : d.refs[i].reserved => d.refs[i].canonical /\ d.managed
           /\ \A d, e \in Decls : Names(d) \cap Names(e) # {} =>
                 /\ d.config = e.config /\ d.platform = e.platform
                 /\ d.owner = e.owner /\ d.managed = e.managed
  <1>1. Decls = {Image(pkg, i) : i \in Declared(pkg)}
    BY DEF Decls, Image, Declared
  <1>2. CheckDeclaredPlatforms(pkg) = "ok" <=> \A d \in Decls : d.native
    BY <1>1 DEF CheckDeclaredPlatforms
  <1>3. CheckReservedAliases(pkg) = "ok" <=>
          \A d \in Decls : \A i \in DOMAIN d.refs : d.refs[i].reserved => d.refs[i].canonical /\ d.managed
    <2>1. CheckReservedAliases(pkg) = "ok" <=>
            \A i \in Declared(pkg) : \A j \in DOMAIN Image(pkg, i).refs :
               Image(pkg, i).refs[j].reserved =>
                  Image(pkg, i).refs[j].canonical /\ Image(pkg, i).managed
      BY ReservedPasses
    <2> QED BY <1>1, <2>1
  <1>4. CheckOwners(pkg, req) = "ok" <=> \A d \in Decls : d.owner = Owner(req.namespace, req.target)
    <2>1. CheckOwners(pkg, req) = "ok" <=>
            \A i \in Declared(pkg) : Image(pkg, i).owner = Owner(req.namespace, req.target)
      BY OwnersPass
    <2> QED BY <1>1, <2>1
  <1>5. CheckReferenceConflicts(pkg) = "ok" <=>
          \A d, e \in Decls : Names(d) \cap Names(e) # {} => ~ConflictBetween(d, e)
    <2>1. CheckReferenceConflicts(pkg) = "ok" <=>
            \A s, u \in Slots(pkg) : Ref(pkg, s).norm = Ref(pkg, u).norm =>
               ~ConflictBetween(Image(pkg, s[1]), Image(pkg, u[1]))
      BY ReferencesAgree
    <2>2. ASSUME \A s, u \in Slots(pkg) : Ref(pkg, s).norm = Ref(pkg, u).norm =>
                    ~ConflictBetween(Image(pkg, s[1]), Image(pkg, u[1])),
                 NEW d \in Decls, NEW e \in Decls, Names(d) \cap Names(e) # {}
          PROVE  ~ConflictBetween(d, e)
      <3>1. PICK i \in Declared(pkg) : d = Image(pkg, i)
        BY <1>1
      <3>2. PICK k \in Declared(pkg) : e = Image(pkg, k)
        BY <1>1
      <3>3. PICK j \in DOMAIN d.refs : \E l \in DOMAIN e.refs : d.refs[j].norm = e.refs[l].norm
        BY <2>2 DEF Names
      <3>4. PICK l \in DOMAIN e.refs : d.refs[j].norm = e.refs[l].norm
        BY <3>3
      <3>5. <<i, j>> \in Slots(pkg) /\ <<k, l>> \in Slots(pkg)
        BY <3>1, <3>2, SlotsArePairs
      <3>6. Ref(pkg, <<i, j>>).norm = Ref(pkg, <<k, l>>).norm /\ <<i, j>>[1] = i /\ <<k, l>>[1] = k
        BY <3>1, <3>2, <3>4 DEF Ref
      <3> QED BY <2>2, <3>1, <3>2, <3>5, <3>6
    <2>3. ASSUME \A d, e \in Decls : Names(d) \cap Names(e) # {} => ~ConflictBetween(d, e),
                 NEW s \in Slots(pkg), NEW u \in Slots(pkg), Ref(pkg, s).norm = Ref(pkg, u).norm
          PROVE  ~ConflictBetween(Image(pkg, s[1]), Image(pkg, u[1]))
      <3>1. \A w \in Slots(pkg) : Image(pkg, w[1]) \in Decls /\ Ref(pkg, w).norm \in Names(Image(pkg, w[1]))
        <4>1. SUFFICES ASSUME NEW w \in Slots(pkg)
                       PROVE  Image(pkg, w[1]) \in Decls /\ Ref(pkg, w).norm \in Names(Image(pkg, w[1]))
          OBVIOUS
        <4>2. PICK i \in Declared(pkg) : \E j \in DOMAIN Image(pkg, i).refs : w = <<i, j>>
          BY SlotsArePairs
        <4>3. PICK j \in DOMAIN Image(pkg, i).refs : w = <<i, j>>
          BY <4>2
        <4> QED BY <1>1, <4>3 DEF Ref, Names
      <3> QED BY <2>3, <3>1
    <2> QED BY <2>1, <2>2, <2>3
  <1>6. \A d, e : ~ConflictBetween(d, e) <=>
           /\ d.config = e.config /\ d.platform = e.platform
           /\ d.owner = e.owner /\ d.managed = e.managed
    BY DEF ConflictBetween
  <1>7. CheckImages(pkg, req) = "ok" <=>
           /\ CheckDeclaredPlatforms(pkg) = "ok" /\ CheckReservedAliases(pkg) = "ok"
           /\ CheckReferenceConflicts(pkg) = "ok" /\ CheckOwners(pkg, req) = "ok"
    BY ImagesPass
  <1> QED BY <1>2, <1>3, <1>4, <1>5, <1>6, <1>7

\* The checks in order accept what the policy, which has no order, accepts.
LEMMA CheckedIsAcceptable ==
  ASSUME NoFormat \notin BuildFormats, Parcel(pkg, trust, req)
  PROVE  VerifyPackage(pkg, trust, req) = "ok" <=> Acceptable
  <1> DEFINE art == pkg.artifacts
             entries == /\ \A i \in DOMAIN art :
                              art[i].disposed /\ art[i].sound /\ art[i].path \notin UnsafePaths
                        /\ \A i, j \in DOMAIN art : art[j].path = art[i].path => i = j
             complete == /\ Len(pkg.members) = Len(art) /\ art # <<>>
                         /\ Distinct(pkg.members)
                         /\ \A i \in DOMAIN art : \E k \in DOMAIN pkg.members : pkg.members[k] = art[i].path
             named == \A i \in DOMAIN art : {art[i].component, art[i].version, art[i].commit} \cap UnsafeIds = {}
             asked == \A i \in DOMAIN art :
                        <<art[i].component, art[i].version, art[i].commit>>
                          = <<req.target, req.version, req.commit>>
             standing == <<req.target, req.version, req.commit>> \notin trust.withdrawn
             fresh == req.epoch # NoEpoch => req.epoch > trust.epoch
             images == /\ \A d \in Decls :
                            /\ d.native /\ d.owner = Owner(req.namespace, req.target)
                            /\ \A i \in DOMAIN d.refs :
                                  d.refs[i].reserved => d.refs[i].canonical /\ d.managed
                       /\ \A d, e \in Decls : Names(d) \cap Names(e) # {} =>
                            /\ d.config = e.config /\ d.platform = e.platform
                            /\ d.owner = e.owner /\ d.managed = e.managed
             endorsed == \A alg \in Algorithms : \E a \in trust.anchors :
                          a.alg = alg /\ ~a.revoked /\ a.key = pkg.sig[alg]
             read == /\ pkg.stage1 /\ pkg.decodes /\ pkg.format \in BuildFormats
                     /\ pkg.format >= trust.minFormat
  <1>1. Acceptable <=> /\ pkg.framed /\ read /\ endorsed /\ complete /\ entries /\ named /\ asked
                       /\ standing /\ fresh /\ images
    BY DEF Acceptable
  <1>2. VerifyPackage(pkg, trust, req) = "ok" <=>
          pkg.framed /\ AuthenticateManifest(pkg, trust) = "ok" /\ CheckStatements(pkg, req, trust) = "ok"
    BY DEF VerifyPackage
  <1>3. AuthenticateManifest(pkg, trust) = "ok" <=> endorsed /\ read /\ entries
    <2>1. AuthenticateManifest(pkg, trust) = "ok" <=>
            /\ \A alg \in Algorithms : VerifySignature(alg, pkg, trust) = "ok"
            /\ read
            /\ \A i \in DOMAIN art : EntryFault(art, i) = "ok"
      BY AuthenticPasses
    <2>2. (\A alg \in Algorithms : VerifySignature(alg, pkg, trust) = "ok") <=> endorsed
      BY SignaturePasses DEF Parcel
    <2>3. (\A i \in DOMAIN art : EntryFault(art, i) = "ok") <=> entries
      BY EntriesPass DEF Parcel
    <2> HIDE DEF read, entries, endorsed, art
    <2> QED BY <2>1, <2>2, <2>3
  <1>4. entries => (CheckCompleteness(pkg) = "ok" <=> complete)
    BY CompletenessPasses DEF Parcel
  <1>5. CheckIdentifiers(pkg) = "ok" <=> named
    BY DEF CheckIdentifiers, Identifiers
  <1>6. complete /\ asked => (CheckWithdrawal(pkg, trust) = "ok" <=> standing)
    <2> SUFFICES ASSUME complete, asked PROVE CheckWithdrawal(pkg, trust) = "ok" <=> standing
      OBVIOUS
    <2>1. 1 \in DOMAIN art
      BY DEF Parcel
    <2> QED BY <2>1 DEF CheckWithdrawal
  <1>7. CheckTarget(pkg, req) = "ok" <=> asked
    BY DEF CheckTarget
  <1>8. CheckEpoch(req, trust) = "ok" <=> fresh
    BY DEF CheckEpoch
  <1>9. CheckImages(pkg, req) = "ok" <=> images
    BY DeclarationsPass
  <1>10. CheckStatements(pkg, req, trust) = "ok" <=>
           /\ CheckCompleteness(pkg) = "ok" /\ CheckIdentifiers(pkg) = "ok"
           /\ CheckWithdrawal(pkg, trust) = "ok" /\ CheckTarget(pkg, req) = "ok"
           /\ CheckEpoch(req, trust) = "ok" /\ CheckImages(pkg, req) = "ok"
    BY StatementsPass
  <1> HIDE DEF art, entries, complete, named, asked, standing, fresh, images, endorsed, read
  <1> QED BY <1>1, <1>2, <1>3, <1>4, <1>5, <1>6, <1>7, <1>8, <1>9, <1>10
-----------------------------------------------------------------------------
(* The same bytes, delivered again *)

\* A hop may rewrite the unsigned hints, and nothing else of a package.
Rehinted(p, q) ==
    /\ q.framed = p.framed /\ q.sig = p.sig /\ q.stage1 = p.stage1 /\ q.format = p.format
    /\ q.decodes = p.decodes /\ q.members = p.members /\ q.artifacts = p.artifacts

\* Release operations revoke an anchor, withdraw a build, or raise a floor.
Tightened(t, u) ==
    /\ t.withdrawn \subseteq u.withdrawn
    /\ u.minFormat >= t.minFormat /\ u.epoch >= t.epoch
    /\ {a \in u.anchors : ~a.revoked} \subseteq {a \in t.anchors : ~a.revoked}

Unattributed == {"BadSignature", "UnknownKeyId"}

\* The first fault of a list is what it says.
LEMMA FirstFault ==
  ASSUME NEW v, DOMAIN v \subseteq Nat, NEW i \in DOMAIN v, v[i] # "ok",
         \A j \in DOMAIN v : j < i => v[j] = "ok"
  PROVE  FirstOf(v) = v[i]
  <1> DEFINE bad == {k \in DOMAIN v : v[k] # "ok"}
             least == CHOOSE k \in bad : \A j \in bad : k <= j
  <1>1. i \in bad /\ \A j \in bad : i <= j
    OBVIOUS
  <1>2. least \in bad /\ \A j \in bad : least <= j
    BY <1>1
  <1>3. least = i
    <2>1. least <= i /\ i <= least /\ least \in Nat /\ i \in Nat
      BY <1>1, <1>2
    <2> HIDE DEF least
    <2> QED BY <2>1
  <1>4. FirstOf(v) = v[least]
    BY <1>1 DEF FirstOf
  <1> HIDE DEF least
  <1> QED BY <1>3, <1>4

\* What a list says is "ok" or one of its faults.
LEMMA SaidByOne ==
  ASSUME NEW v, DOMAIN v \subseteq Nat, FirstOf(v) # "ok"
  PROVE  \E i \in DOMAIN v : v[i] = FirstOf(v) /\ v[i] # "ok" /\ \A j \in DOMAIN v : j < i => v[j] = "ok"
  <1> DEFINE bad == {k \in DOMAIN v : v[k] # "ok"}
  <1>1. bad \in SUBSET Nat /\ bad # {}
    BY DEF FirstOf
  <1>2. PICK i \in bad : \A j \in bad : i <= j
    <2> HIDE DEF bad
    <2> QED BY <1>1, LeastIndex
  <1>3. i \in DOMAIN v /\ v[i] # "ok" /\ \A j \in DOMAIN v : j < i => v[j] = "ok"
    BY <1>1, <1>2
  <1> QED BY <1>3, FirstFault

\* Another hint leaves a signature its verdict, or moves it between the two
\* names of one that nobody can attribute (verify_signature).
LEMMA HintMoves ==
  ASSUME NEW alg, NEW p, NEW q, NEW t, Rehinted(p, q), \A a \in t.anchors : a.key # "absent"
  PROVE  \/ VerifySignature(alg, q, t) = VerifySignature(alg, p, t)
         \/ VerifySignature(alg, p, t) \in Unattributed /\ VerifySignature(alg, q, t) \in Unattributed
  <1> DEFINE sig == p.sig[alg]
             live == {a \in Anchors(alg, t) : ~a.revoked}
             gone == Anchors(alg, t) \ live
  <1>1. q.sig[alg] = sig
    BY DEF Rehinted
  <1>2. CASE sig = "absent"
    BY <1>1, <1>2 DEF VerifySignature
  <1>3. CASE sig # "absent" /\ \E a \in live : Verifies(a, sig)
    BY <1>1, <1>3 DEF VerifySignature
  <1>4. CASE sig # "absent" /\ ~(\E a \in live : Verifies(a, sig)) /\ \E a \in gone : Verifies(a, sig)
    BY <1>1, <1>4 DEF VerifySignature
  <1>5. CASE sig # "absent" /\ ~(\E a \in live : Verifies(a, sig)) /\ ~(\E a \in gone : Verifies(a, sig))
    BY <1>1, <1>5 DEF VerifySignature, Unattributed
  <1> QED BY <1>2, <1>3, <1>4, <1>5

\* So it is with the authentication, whose first two checks the signatures are
\* (authenticate_manifest).
LEMMA AuthenticMoves ==
  ASSUME NEW p, NEW q, NEW t, Rehinted(p, q), \A a \in t.anchors : a.key # "absent"
  PROVE  \/ AuthenticateManifest(q, t) = AuthenticateManifest(p, t)
         \/ AuthenticateManifest(p, t) \in Unattributed /\ AuthenticateManifest(q, t) \in Unattributed
  <1> DEFINE stage(z) == IF z.stage1 THEN "ok" ELSE "Payload"
             floor(z) == IF z.format # NoFormat /\ z.format < t.minFormat
                         THEN "UnsupportedManifestFormat" ELSE "ok"
             list(z) == <<VerifySignature("ed25519", z, t), VerifySignature("mldsa87", z, t),
                          stage(z), floor(z), ParseManifest(z)>>
             v == list(p)
             w == list(q)
  <1>1. AuthenticateManifest(p, t) = FirstOf(v) /\ AuthenticateManifest(q, t) = FirstOf(w)
    BY DEF AuthenticateManifest
  <1>2. ParseManifest(q) = ParseManifest(p)
    BY DEF Rehinted, ParseManifest
  <1>3. stage(q) = stage(p) /\ floor(q) = floor(p)
    BY DEF Rehinted
  <1>4. /\ DOMAIN v = 1..5 /\ DOMAIN w = 1..5
        /\ v[1] = VerifySignature("ed25519", p, t) /\ v[2] = VerifySignature("mldsa87", p, t)
        /\ w[1] = VerifySignature("ed25519", q, t) /\ w[2] = VerifySignature("mldsa87", q, t)
    OBVIOUS
  <1>5. w[3] = v[3] /\ w[4] = v[4] /\ w[5] = v[5]
    BY <1>2, <1>3
  <1>6. v = <<v[1], v[2], v[3], v[4], v[5]>> /\ w = <<w[1], w[2], w[3], w[4], w[5]>>
    OBVIOUS
  <1> HIDE DEF v, w, list, stage, floor
  <1>7. /\ w[1] = v[1] \/ (v[1] \in Unattributed /\ w[1] \in Unattributed)
        /\ w[2] = v[2] \/ (v[2] \in Unattributed /\ w[2] \in Unattributed)
    BY <1>4, HintMoves
  <1>8. \A x \in Unattributed : x # "ok"
    BY DEF Unattributed
  <1>9. CASE v[1] # "ok"
    <2>1. w[1] # "ok"
      BY <1>7, <1>8, <1>9
    <2>2. FirstOf(v) = v[1] /\ FirstOf(w) = w[1]
      BY <1>4, <1>9, <2>1, FirstFault
    <2> QED BY <1>1, <1>7, <2>2
  <1>10. CASE v[1] = "ok" /\ v[2] # "ok"
    <2>1. w[1] = "ok" /\ w[2] # "ok"
      BY <1>7, <1>8, <1>10
    <2>2. FirstOf(v) = v[2] /\ FirstOf(w) = w[2]
      BY <1>4, <1>10, <2>1, FirstFault
    <2> QED BY <1>1, <1>7, <2>2
  <1>11. CASE v[1] = "ok" /\ v[2] = "ok"
    <2>1. w[1] = v[1] /\ w[2] = v[2]
      BY <1>7, <1>8, <1>11
    <2>2. w = v
      BY <1>5, <1>6, <2>1
    <2> QED BY <1>1, <2>2
  <1> QED BY <1>9, <1>10, <1>11

\* The statements are read from signed bytes only (check_statements).
LEMMA StatementsIgnoreHints ==
  ASSUME NEW p, NEW q, NEW t, NEW r, Rehinted(p, q)
  PROVE  CheckStatements(q, r, t) = CheckStatements(p, r, t)
  <1>1. q.artifacts = p.artifacts /\ q.members = p.members
    BY DEF Rehinted
  <1>2. Listed(q) = Listed(p) /\ Bound(q) = Bound(p) /\ Declared(q) = Declared(p)
    BY <1>1 DEF Listed, Bound, Declared
  <1>3. CheckCompleteness(q) = CheckCompleteness(p)
    BY <1>1, <1>2 DEF CheckCompleteness
  <1>4. /\ CheckIdentifiers(q) = CheckIdentifiers(p) /\ CheckWithdrawal(q, t) = CheckWithdrawal(p, t)
        /\ CheckTarget(q, r) = CheckTarget(p, r)
    BY <1>1 DEF CheckIdentifiers, CheckWithdrawal, CheckTarget
  <1>5. (\A i : Image(q, i) = Image(p, i)) /\ \A s : Ref(q, s) = Ref(p, s)
    BY <1>1 DEF Image, Ref
  <1>6. Slots(q) = Slots(p)
    BY <1>2, <1>5 DEF Slots
  <1>7. CheckDeclaredPlatforms(q) = CheckDeclaredPlatforms(p) /\ CheckOwners(q, r) = CheckOwners(p, r)
    BY <1>2, <1>5 DEF CheckDeclaredPlatforms, CheckOwners
  <1>8. CheckReservedAliases(q) = CheckReservedAliases(p)
    <2> DEFINE bad(z) == {s \in Slots(z) : ReservedFault(Image(z, s[1]), Ref(z, s)) # "ok"}
               said(z) == LET s == CHOOSE s \in bad(z) : \A u \in bad(z) \ {s} : Before(s, u)
                          IN ReservedFault(Image(z, s[1]), Ref(z, s))
    <2>1. bad(q) = bad(p)
      BY <1>5, <1>6
    <2>2. \A z : CheckReservedAliases(z) = IF bad(z) = {} THEN "ok" ELSE said(z)
      BY DEF CheckReservedAliases
    <2> HIDE DEF bad
    <2>3. said(q) = said(p)
      BY <1>5, <2>1
    <2> QED BY <2>1, <2>2, <2>3
  <1>9. CheckReferenceConflicts(q) = CheckReferenceConflicts(p)
    <2> DEFINE same(z) == {x \in Slots(z) \X Slots(z) : Ref(z, x[1]).norm = Ref(z, x[2]).norm}
               first(z) == {x \in same(z) : \A y \in same(z) :
                              y[2] = x[2] => y[1] = x[1] \/ Before(x[1], y[1])}
    <2>1. same(q) = same(p)
      BY <1>5, <1>6
    <2>2. \A z : CheckReferenceConflicts(z) =
             IF \E x \in first(z) : ConflictBetween(Image(z, x[1][1]), Image(z, x[2][1]))
             THEN "ConflictingReference" ELSE "ok"
      BY DEF CheckReferenceConflicts
    <2> HIDE DEF same
    <2>3. first(q) = first(p)
      BY <2>1
    <2> HIDE DEF first
    <2> QED BY <1>5, <2>2, <2>3
  <1>10. CheckImages(q, r) = CheckImages(p, r)
    BY <1>7, <1>8, <1>9 DEF CheckImages
  <1> QED BY <1>3, <1>4, <1>10 DEF CheckStatements

\* No check behind the withdrawn list has its name for a fault.
LEMMA LaterSaysOtherwise ==
  ASSUME NEW p, NEW t, NEW r
  PROVE  /\ CheckTarget(p, r) # "WithdrawnBuild" /\ CheckEpoch(r, t) # "WithdrawnBuild"
         /\ CheckImages(p, r) # "WithdrawnBuild"
  <1>1. CheckTarget(p, r) # "WithdrawnBuild" /\ CheckEpoch(r, t) # "WithdrawnBuild"
    BY DEF CheckTarget, CheckEpoch
  <1>2. \A a, b : ReservedFault(a, b) # "WithdrawnBuild"
    BY DEF ReservedFault
  <1>3. /\ CheckDeclaredPlatforms(p) # "WithdrawnBuild" /\ CheckReferenceConflicts(p) # "WithdrawnBuild"
        /\ CheckOwners(p, r) # "WithdrawnBuild"
    BY DEF CheckDeclaredPlatforms, CheckReferenceConflicts, CheckOwners
  <1>4. CheckReservedAliases(p) # "WithdrawnBuild"
    <2> DEFINE bad == {s \in Slots(p) : ReservedFault(Image(p, s[1]), Ref(p, s)) # "ok"}
               s0 == CHOOSE s \in bad : \A u \in bad \ {s} : Before(s, u)
    <2>1. CheckReservedAliases(p) = IF bad = {} THEN "ok" ELSE ReservedFault(Image(p, s0[1]), Ref(p, s0))
      BY DEF CheckReservedAliases
    <2> HIDE DEF bad, s0
    <2> QED BY <2>1, <1>2
  <1>5. CheckImages(p, r) # "WithdrawnBuild"
    <2> DEFINE v == <<CheckDeclaredPlatforms(p), CheckReservedAliases(p),
                      CheckReferenceConflicts(p), CheckOwners(p, r)>>
    <2>1. DOMAIN v = 1..4 /\ CheckImages(p, r) = FirstOf(v)
      BY DEF CheckImages
    <2>2. /\ v[1] = CheckDeclaredPlatforms(p) /\ v[2] = CheckReservedAliases(p)
          /\ v[3] = CheckReferenceConflicts(p) /\ v[4] = CheckOwners(p, r)
      OBVIOUS
    <2> HIDE DEF v
    <2>3. \A i \in DOMAIN v : v[i] # "WithdrawnBuild"
      BY <1>3, <1>4, <2>1, <2>2
    <2> QED BY <2>1, <2>3, SaidByOne
  <1> QED BY <1>1, <1>5

\* That a build is withdrawn is said whatever is asked (check_withdrawal).
LEMMA WithdrawnWhateverAsked ==
  ASSUME NEW p, NEW t, NEW r, NEW s, VerifyPackage(p, t, r) = "WithdrawnBuild"
  PROVE  VerifyPackage(p, t, s) = "WithdrawnBuild"
  <1> DEFINE list(z) == <<CheckCompleteness(p), CheckIdentifiers(p), CheckWithdrawal(p, t),
                          CheckTarget(p, z), CheckEpoch(z, t), CheckImages(p, z)>>
             v == list(r)
             w == list(s)
  <1>1. CASE AuthenticateManifest(p, t) # "ok"
    BY <1>1 DEF VerifyPackage
  <1>2. CASE AuthenticateManifest(p, t) = "ok"
    <2>1. p.framed /\ FirstOf(v) = "WithdrawnBuild" /\ CheckStatements(p, s, t) = FirstOf(w)
      BY <1>2 DEF VerifyPackage, CheckStatements
    <2>2. /\ DOMAIN v = 1..6 /\ DOMAIN w = 1..6
          /\ w[1] = v[1] /\ w[2] = v[2] /\ w[3] = v[3]
          /\ v[4] = CheckTarget(p, r) /\ v[5] = CheckEpoch(r, t) /\ v[6] = CheckImages(p, r)
      OBVIOUS
    <2> HIDE DEF v, w, list
    <2>3. PICK i \in 1..6 : v[i] = "WithdrawnBuild" /\ \A j \in 1..6 : j < i => v[j] = "ok"
      BY <2>1, <2>2, SaidByOne
    <2>4. i \in 1..3
      <3>1. v[4] # "WithdrawnBuild" /\ v[5] # "WithdrawnBuild" /\ v[6] # "WithdrawnBuild"
        BY <2>2, LaterSaysOtherwise
      <3> QED BY <2>3, <3>1
    <2>5. w[i] = "WithdrawnBuild" /\ \A j \in 1..6 : j < i => w[j] = "ok"
      BY <2>2, <2>3, <2>4
    <2>6. FirstOf(w) = "WithdrawnBuild"
      BY <2>2, <2>5, FirstFault
    <2> QED BY <1>2, <2>1, <2>6 DEF VerifyPackage
  <1> QED BY <1>1, <1>2

\* What passes under tighter trust passed before.
LEMMA TighterAdmitsLess ==
  ASSUME NoFormat \notin BuildFormats, NEW p, NEW t, NEW u, NEW r, Parcel(p, t, r), Parcel(p, u, r),
         Tightened(t, u), VerifyPackage(p, u, r) = "ok"
  PROVE  VerifyPackage(p, t, r) = "ok"
  <1>1. p.framed /\ AuthenticateManifest(p, u) = "ok" /\ CheckStatements(p, r, u) = "ok"
    BY DEF VerifyPackage
  <1>2. /\ \A alg \in Algorithms : VerifySignature(alg, p, u) = "ok"
        /\ p.stage1 /\ p.decodes /\ p.format \in BuildFormats /\ p.format >= u.minFormat
        /\ \A i \in DOMAIN p.artifacts : EntryFault(p.artifacts, i) = "ok"
    BY <1>1, AuthenticPasses
  <1>3. ASSUME NEW alg \in Algorithms PROVE VerifySignature(alg, p, t) = "ok"
    <2>1. \E a \in u.anchors : a.alg = alg /\ ~a.revoked /\ a.key = p.sig[alg]
      BY <1>2, SignaturePasses DEF Parcel
    <2>2. \E a \in t.anchors : a.alg = alg /\ ~a.revoked /\ a.key = p.sig[alg]
      BY <2>1 DEF Tightened
    <2> QED BY <2>2, SignaturePasses DEF Parcel
  <1>4. p.format >= t.minFormat
    BY <1>2 DEF Parcel, Tightened
  <1>5. AuthenticateManifest(p, t) = "ok"
    BY <1>2, <1>3, <1>4, AuthenticPasses
  <1>6. /\ CheckCompleteness(p) = "ok" /\ CheckIdentifiers(p) = "ok" /\ CheckWithdrawal(p, u) = "ok"
        /\ CheckTarget(p, r) = "ok" /\ CheckEpoch(r, u) = "ok" /\ CheckImages(p, r) = "ok"
    BY <1>1, StatementsPass
  <1>7. CheckWithdrawal(p, t) = "ok"
    BY <1>6 DEF CheckWithdrawal, Tightened
  <1>8. CheckEpoch(r, t) = "ok"
    BY <1>6 DEF CheckEpoch, Tightened, Parcel, NoEpoch
  <1>9. CheckStatements(p, r, t) = "ok"
    BY <1>6, <1>7, <1>8, StatementsPass
  <1> QED BY <1>1, <1>5, <1>9 DEF VerifyPackage

\* A package before the verifier, and its next delivery: MCPackageVerify's
\* specification for any packages, trust sets and requests.
DeliveryInit(packages, trusts, requests) ==
    /\ delivery = 1
    /\ pkg \in packages /\ trust \in trusts /\ req \in requests
    /\ returned = VerifyPackage(pkg, trust, req)

DeliveryNext(packages, trusts, requests) ==
    \/ \E p \in packages : Rehinted(pkg, p) /\ DeliverAgain(p, trust, req)
    \/ \E r \in requests : ChangeRequest(r)
    \/ \E t \in trusts : Tightened(trust, t) /\ DeliverAgain(pkg, t, req)

DeliverySpec(packages, trusts, requests) ==
    /\ DeliveryInit(packages, trusts, requests)
    /\ [][DeliveryNext(packages, trusts, requests)]_verifyVars

Verified(packages, trusts, requests) ==
    /\ pkg \in packages /\ trust \in trusts /\ req \in requests
    /\ returned = VerifyPackage(pkg, trust, req)

\* A verdict is always that of what was given with it.
LEMMA VerdictStays ==
  ASSUME NEW packages, NEW trusts, NEW requests,
         Verified(packages, trusts, requests),
         [DeliveryNext(packages, trusts, requests)]_verifyVars
  PROVE  Verified(packages, trusts, requests)'
  <1>1. CASE UNCHANGED verifyVars
    BY <1>1 DEF Verified, verifyVars
  <1>2. CASE DeliveryNext(packages, trusts, requests)
    BY <1>2 DEF DeliveryNext, DeliverAgain, ChangeRequest, Verified
  <1> QED BY <1>1, <1>2

\* For any packages, trust sets and requests, in the first delivery and in the
\* second, the ordered checks accept exactly what the policy accepts
\* (verify_package).
THEOREM VerdictSafety ==
  ASSUME NoFormat \notin BuildFormats, NEW packages, NEW trusts, NEW requests,
         \A p \in packages, t \in trusts, r \in requests : Parcel(p, t, r)
  PROVE  DeliverySpec(packages, trusts, requests) => []VerdictIsPolicy
  <1> DEFINE V == Verified(packages, trusts, requests)
             I == DeliveryInit(packages, trusts, requests)
             N == DeliveryNext(packages, trusts, requests)
  <1>1. I => V
    BY DEF DeliveryInit, Verified
  <1>2. V /\ [N]_verifyVars => V'
    BY VerdictStays
  <1>3. V => VerdictIsPolicy
    BY CheckedIsAcceptable DEF Verified, VerdictIsPolicy
  <1> HIDE DEF V, I, N
  <1>4. I /\ [][N]_verifyVars => []VerdictIsPolicy
    BY <1>1, <1>2, <1>3, PTL
  <1> QED BY <1>4 DEF DeliverySpec, I, N

\* For any packages, trust sets and requests, when the same signed bytes come
\* back: a rewritten hint turns no verdict, a withdrawn build stays withdrawn
\* whatever is asked, and tighter trust admits nothing new (verify_signature,
\* check_withdrawal).
THEOREM RedeliverySafety ==
  ASSUME NoFormat \notin BuildFormats, NEW packages, NEW trusts, NEW requests,
         \A p \in packages, t \in trusts, r \in requests : Parcel(p, t, r)
  PROVE  DeliverySpec(packages, trusts, requests) => RedeliveryIsSafe
  <1> DEFINE Safe == (delivery = 1 /\ delivery' = 2) =>
               /\ (trust' = trust /\ req' = req) =>
                     returned' = returned \/ {returned, returned'} = {"BadSignature", "UnknownKeyId"}
               /\ (trust' = trust /\ returned = "WithdrawnBuild") => returned' = "WithdrawnBuild"
               /\ (pkg' = pkg /\ req' = req /\ returned' = "ok") => returned = "ok"
             V == Verified(packages, trusts, requests)
             I == DeliveryInit(packages, trusts, requests)
             N == DeliveryNext(packages, trusts, requests)
  <1>0. I => V
    BY DEF DeliveryInit, Verified
  <1>1. V /\ [N]_verifyVars => V'
    BY VerdictStays
  <1>2. ASSUME V, N PROVE Safe
    <2>1. /\ Parcel(pkg, trust, req) /\ returned = VerifyPackage(pkg, trust, req)
          /\ Parcel(pkg', trust', req') /\ returned' = VerifyPackage(pkg', trust', req')
      BY <1>1, <1>2 DEF Verified
    <2>2. CASE Rehinted(pkg, pkg') /\ trust' = trust /\ req' = req
      <3>1. pkg.framed = pkg'.framed /\ \A a \in trust.anchors : a.key # "absent"
        BY <2>1, <2>2 DEF Parcel, Rehinted
      <3>2. \/ AuthenticateManifest(pkg', trust) = AuthenticateManifest(pkg, trust)
            \/ /\ AuthenticateManifest(pkg, trust) \in Unattributed
               /\ AuthenticateManifest(pkg', trust) \in Unattributed
        BY <2>2, <3>1, AuthenticMoves
      <3>3. CheckStatements(pkg', req, trust) = CheckStatements(pkg, req, trust)
        BY <2>2, StatementsIgnoreHints
      <3>4. returned' = returned \/ (returned \in Unattributed /\ returned' \in Unattributed)
        BY <2>1, <2>2, <3>1, <3>2, <3>3 DEF VerifyPackage, Unattributed
      <3>5. returned' = returned \/ {returned, returned'} = {"BadSignature", "UnknownKeyId"}
        BY <3>4 DEF Unattributed
      <3>6. returned = "WithdrawnBuild" => returned' = "WithdrawnBuild"
        BY <3>4 DEF Unattributed
      <3>7. returned' = "ok" => returned = "ok"
        BY <3>4 DEF Unattributed
      <3> QED BY <3>5, <3>6, <3>7
    <2>3. CASE pkg' = pkg /\ trust' = trust
      <3>1. returned = "WithdrawnBuild" => returned' = "WithdrawnBuild"
        BY <2>1, <2>3, WithdrawnWhateverAsked
      <3>2. req' = req => returned' = returned
        BY <2>1, <2>3
      <3> QED BY <3>1, <3>2
    <2>4. CASE Tightened(trust, trust') /\ pkg' = pkg /\ req' = req
      <3>1. returned' = "ok" => returned = "ok"
        BY <2>1, <2>4, TighterAdmitsLess
      <3>2. trust' = trust => returned' = returned
        BY <2>1, <2>4
      <3> QED BY <3>1, <3>2
    <2> QED BY <1>2, <2>2, <2>3, <2>4 DEF DeliveryNext, ChangeRequest, DeliverAgain
  <1>3. V /\ [N]_verifyVars => [Safe]_verifyVars
    BY <1>2
  <1> HIDE DEF Safe, V, I, N
  <1>4. I /\ [][N]_verifyVars => [][Safe]_verifyVars
    BY <1>0, <1>1, <1>3, PTL
  <1> QED BY <1>4 DEF DeliverySpec, I, N, RedeliveryIsSafe, Safe
-----------------------------------------------------------------------------
(* Sums *)

\* f adds up the first n lengths.
Adds(f, s, n) == f = [k \in 0..n |-> IF k = 0 THEN 0 ELSE f[k - 1] + s[k]]

\* There is such a function, and SumOf is its last value.
LEMMA SumExists ==
  ASSUME NEW s, NEW n \in Nat
  PROVE  \E f : Adds(f, s, n)
  <1> DEFINE bad == {m \in Nat : ~ \E f : Adds(f, s, m)}
  <1>1. SUFFICES ASSUME bad # {} PROVE FALSE
    OBVIOUS
  <1>2. PICK m \in bad : \A j \in bad : m <= j
    <2>1. bad \in SUBSET Nat
      OBVIOUS
    <2> HIDE DEF bad
    <2> QED BY <1>1, <2>1, LeastIndex
  <1>3. m # 0
    <2> DEFINE z == [k \in 0..0 |-> 0]
    <2>1. Adds(z, s, 0)
      BY DEF Adds
    <2> HIDE DEF z
    <2> QED BY <2>1
  <1>4. m - 1 \in Nat /\ m - 1 \notin bad
    BY <1>2, <1>3
  <1>5. PICK f : Adds(f, s, m - 1)
    BY <1>4
  <1> DEFINE g == [k \in 0..m |-> IF k = m THEN f[m - 1] + s[m] ELSE f[k]]
  <1>6. ASSUME NEW k \in 0..m PROVE g[k] = IF k = 0 THEN 0 ELSE g[k - 1] + s[k]
    <2>1. CASE k = m
      BY <1>4, <2>1
    <2>2. CASE k # m
      <3>1. k \in 0..(m - 1) /\ g[k] = f[k]
        BY <2>2
      <3>2. f[k] = IF k = 0 THEN 0 ELSE f[k - 1] + s[k]
        BY <1>5, <3>1 DEF Adds
      <3>3. k # 0 => k - 1 \in 0..m /\ k - 1 # m
        BY <3>1
      <3>4. k # 0 => g[k - 1] = f[k - 1]
        BY <3>3
      <3> QED BY <3>1, <3>2, <3>4
    <2> QED BY <2>1, <2>2
  <1>7. g = [k \in 0..m |-> g[k]]
    OBVIOUS
  <1> HIDE DEF g
  <1>8. g = [k \in 0..m |-> IF k = 0 THEN 0 ELSE g[k - 1] + s[k]]
    BY <1>6, <1>7
  <1>9. Adds(g, s, m)
    BY <1>8 DEF Adds
  <1> QED BY <1>2, <1>9

\* Two that add up the same lengths agree.
LEMMA SumsAgree ==
  ASSUME NEW s, NEW t, NEW m \in Nat, NEW n \in Nat, m <= n, \A k \in 1..m : s[k] = t[k],
         NEW f, NEW g, Adds(f, s, m), Adds(g, t, n)
  PROVE  \A k \in 0..m : f[k] = g[k]
  <1> DEFINE bad == {k \in 0..m : f[k] # g[k]}
  <1>1. SUFFICES ASSUME bad # {} PROVE FALSE
    OBVIOUS
  <1>2. PICK k \in bad : \A j \in bad : k <= j
    <2>1. bad \in SUBSET Nat
      OBVIOUS
    <2> HIDE DEF bad
    <2> QED BY <1>1, <2>1, LeastIndex
  <1>3. /\ f[k] = IF k = 0 THEN 0 ELSE f[k - 1] + s[k]
        /\ g[k] = IF k = 0 THEN 0 ELSE g[k - 1] + t[k]
    <2>1. k \in 0..m /\ k \in 0..n
      BY <1>2
    <2> QED BY <2>1 DEF Adds
  <1>4. k # 0
    BY <1>2, <1>3
  <1>5. k - 1 \in 0..m /\ k - 1 \notin bad /\ k \in 1..m
    BY <1>2, <1>4
  <1> QED BY <1>2, <1>3, <1>5

\* SumOf is what such a function ends with.
LEMMA SumIs ==
  ASSUME NEW s, Len(s) \in Nat, NEW f, Adds(f, s, Len(s))
  PROVE  SumOf(s) = f[Len(s)]
  <1> DEFINE c == CHOOSE g : Adds(g, s, Len(s))
  <1>1. Adds(c, s, Len(s))
    OBVIOUS
  <1>2. SumOf(s) = c[Len(s)]
    BY DEF SumOf, Adds
  <1> HIDE DEF c
  <1>3. \A k \in 0..Len(s) : c[k] = f[k]
    BY <1>1, SumsAgree
  <1> QED BY <1>2, <1>3

\* The sum of the first n of a list of lengths.
SumTo(x, n) == SumOf([j \in 1..n |-> x[j]])

\* A sum grows by the next length.
LEMMA SumSteps ==
  ASSUME NEW x
  PROVE  /\ SumTo(x, 0) = 0
         /\ \A n \in Nat : n # 0 => SumTo(x, n) = SumTo(x, n - 1) + x[n]
  <1>1. ASSUME NEW n \in Nat, NEW f, Adds(f, x, n) PROVE \A k \in 0..n : SumTo(x, k) = f[k]
    <2> TAKE k \in 0..n
    <2> DEFINE s == [j \in 1..k |-> x[j]]
    <2>1. Len(s) = k /\ \A j \in 1..k : s[j] = x[j]
      OBVIOUS
    <2> HIDE DEF s
    <2>2. PICK g : Adds(g, s, k)
      BY SumExists
    <2>3. SumOf(s) = g[k]
      BY <2>1, <2>2, SumIs
    <2>4. k \in Nat /\ k <= n /\ \A j \in 1..k : s[j] = x[j]
      BY <2>1
    <2>5. \A j \in 0..k : g[j] = f[j]
      BY <1>1, <2>2, <2>4, SumsAgree
    <2> QED BY <2>3, <2>4, <2>5 DEF SumTo, s
  <1>2. SumTo(x, 0) = 0
    <2>1. PICK f : Adds(f, x, 0)
      BY SumExists
    <2>2. f[0] = 0
      BY <2>1 DEF Adds
    <2> QED BY <1>1, <2>1, <2>2
  <1>3. ASSUME NEW n \in Nat, n # 0 PROVE SumTo(x, n) = SumTo(x, n - 1) + x[n]
    <2>1. PICK f : Adds(f, x, n)
      BY SumExists
    <2>2. f[n] = f[n - 1] + x[n]
      BY <1>3, <2>1 DEF Adds
    <2>3. n \in 0..n /\ n - 1 \in 0..n
      BY <1>3
    <2> QED BY <1>1, <2>1, <2>2, <2>3
  <1> QED BY <1>2, <1>3

\* A sum of naturals is one.
LEMMA SumIsNat ==
  ASSUME NEW x, NEW n \in Nat, \A k \in 1..n : x[k] \in Nat
  PROVE  \A k \in 0..n : SumTo(x, k) \in Nat
  <1> DEFINE bad == {k \in 0..n : SumTo(x, k) \notin Nat}
  <1>1. SUFFICES ASSUME bad # {} PROVE FALSE
    OBVIOUS
  <1>2. PICK k \in bad : \A j \in bad : k <= j
    <2>1. bad \in SUBSET Nat
      OBVIOUS
    <2> HIDE DEF bad
    <2> QED BY <1>1, <2>1, LeastIndex
  <1>3. k # 0
    BY <1>2, SumSteps
  <1>4. k - 1 \in 0..n /\ k - 1 \notin bad /\ k \in 1..n
    BY <1>2, <1>3
  <1>5. SumTo(x, k) = SumTo(x, k - 1) + x[k]
    BY <1>2, <1>3, SumSteps
  <1>6. x[k] \in Nat
    BY <1>4
  <1>7. SumTo(x, k - 1) \in Nat
    BY <1>4
  <1>8. SumTo(x, k) \notin Nat
    BY <1>2
  <1> DEFINE total == SumTo(x, k)
             before == SumTo(x, k - 1)
             last == x[k]
  <1>9. total = before + last /\ before \in Nat /\ last \in Nat /\ total \notin Nat
    BY <1>5, <1>6, <1>7, <1>8, Zenon
  <1> HIDE DEF total, before, last
  <1> QED BY ONLY <1>9

-----------------------------------------------------------------------------
(* Limits *)

\* What is copied under one limit, under two, and under three (remaining).
LEMMA PassOne ==
  ASSUME NEW n \in Int, NEW c, NEW x \in Int, c # "ok"
  PROVE  Pass(n, <<<<c, x>>>>) = IF n > x THEN c ELSE "ok"
  BY DEF Pass, FirstOf

\* Of two limits the tighter one refuses, the earlier of two that are equal.
LEMMA PassTwo ==
  ASSUME NEW n \in Int, NEW c, NEW d, NEW x \in Int, NEW y \in Int, c # "ok", d # "ok"
  PROVE  Pass(n, <<<<c, x>>, <<d, y>>>>) =
           IF n > x /\ x <= y THEN c ELSE IF n > y /\ y <= x THEN d ELSE "ok"
  <1> DEFINE cs == <<<<c, x>>, <<d, y>>>>
             v == [i \in DOMAIN cs |->
                     IF n > cs[i][2] /\ \A j \in DOMAIN cs : cs[i][2] <= cs[j][2] THEN cs[i][1] ELSE "ok"]
  <1>1. /\ DOMAIN v = 1..2 /\ v[1] = (IF n > x /\ x <= y THEN c ELSE "ok")
        /\ v[2] = (IF n > y /\ y <= x THEN d ELSE "ok")
    OBVIOUS
  <1>2. Pass(n, cs) = FirstOf(v)
    BY DEF Pass
  <1> HIDE DEF v
  <1>3. CASE v[1] # "ok"
    <2>1. FirstOf(v) = v[1]
      BY <1>1, <1>3, FirstFault
    <2> QED BY <1>1, <1>2, <1>3, <2>1
  <1>4. CASE v[1] = "ok" /\ v[2] # "ok"
    <2>1. FirstOf(v) = v[2]
      BY <1>1, <1>4, FirstFault
    <2> QED BY <1>1, <1>2, <1>4, <2>1
  <1>5. CASE v[1] = "ok" /\ v[2] = "ok"
    <2>1. FirstOf(v) = "ok"
      BY <1>1, <1>5, PassesIff
    <2> QED BY <1>1, <1>2, <1>5, <2>1
  <1> QED BY <1>3, <1>4, <1>5

\* What passes under three limits is within each.
LEMMA PassThree ==
  ASSUME NEW n \in Int, NEW c, NEW d, NEW e, NEW x \in Int, NEW y \in Int, NEW z \in Int,
         c # "ok", d # "ok", e # "ok", Pass(n, <<<<c, x>>, <<d, y>>, <<e, z>>>>) = "ok"
  PROVE  n <= x /\ n <= y /\ n <= z
  <1> DEFINE cs == <<<<c, x>>, <<d, y>>, <<e, z>>>>
             v == [i \in DOMAIN cs |->
                     IF n > cs[i][2] /\ \A j \in DOMAIN cs : cs[i][2] <= cs[j][2] THEN cs[i][1] ELSE "ok"]
  <1>1. /\ DOMAIN v = 1..3 /\ v[1] = (IF n > x /\ x <= y /\ x <= z THEN c ELSE "ok")
        /\ v[2] = (IF n > y /\ y <= x /\ y <= z THEN d ELSE "ok")
        /\ v[3] = (IF n > z /\ z <= x /\ z <= y THEN e ELSE "ok")
    OBVIOUS
  <1>2. FirstOf(v) = "ok"
    BY DEF Pass
  <1> HIDE DEF v
  <1>3. v[1] = "ok" /\ v[2] = "ok" /\ v[3] = "ok"
    BY <1>1, <1>2, PassesIff
  <1> QED BY <1>1, <1>3

\* A list that can only say one thing says that, or passes.
LEMMA SaysOnly ==
  ASSUME NEW v, NEW x, DOMAIN v \subseteq Nat, \A i \in DOMAIN v : v[i] \in {"ok", x}
  PROVE  FirstOf(v) \in {"ok", x}
  BY SaidByOne

\* So do two such lists, one after the other.
LEMMA BothSayOnly ==
  ASSUME NEW x, NEW v \in Seq({"ok", x}), NEW w \in Seq({"ok", x})
  PROVE  FirstOf(v \o w) \in {"ok", x}
  <1> DEFINE both == v \o w
  <1>1. both \in Seq({"ok", x})
    OBVIOUS
  <1> HIDE DEF both
  <1>2. DOMAIN both \subseteq Nat /\ \A i \in DOMAIN both : both[i] \in {"ok", x}
    BY <1>1
  <1>3. FirstOf(both) \in {"ok", x}
    BY <1>2, SaysOnly
  <1> QED BY <1>3 DEF both
-----------------------------------------------------------------------------
(* What an archive holds *)

Lens(a) == [i \in DOMAIN a.members |-> a.members[i].blob.len]
Packed(a) == [i \in DOMAIN a.members |-> a.members[i].blob.packed]
Weighed(a) ==
    /\ a.members \in Seq(Range(a.members))
    /\ \A i \in DOMAIN a.members : Weighs(a.members[i].blob)

\* An archive has a length, and so has each of its beginnings.
LEMMA Weighing ==
  ASSUME NEW a, Weighed(a)
  PROVE  /\ Len(a.members) \in Nat /\ DOMAIN a.members = 1..Len(a.members)
         /\ ArchiveLen(a) \in Nat
         /\ Unpacked(a) = SumTo(Lens(a), Len(a.members))
         /\ \A k \in 0..Len(a.members) : SumTo(Lens(a), k) \in Nat
         /\ \A k \in 1..Len(a.members) :
              /\ a.members[k].blob.len \in Nat
              /\ SumOf([j \in 1..(k - 1) |-> a.members[j].blob.len]) = SumTo(Lens(a), k - 1)
              /\ SumTo(Lens(a), k) = SumTo(Lens(a), k - 1) + a.members[k].blob.len
  <1> DEFINE n == Len(a.members)
  <1>1. n \in Nat /\ DOMAIN a.members = 1..n
    BY DEF Weighed
  <1> HIDE DEF n
  <1>2. \A k \in 1..n : /\ Lens(a)[k] = a.members[k].blob.len /\ Lens(a)[k] \in Nat
                        /\ Packed(a)[k] = a.members[k].blob.packed /\ Packed(a)[k] \in Nat
    BY <1>1 DEF Lens, Packed, Weighed, Weighs
  <1>3. /\ \A k \in 0..n : SumTo(Lens(a), k) \in Nat
        /\ SumTo(Packed(a), n) \in Nat
    <2>1. n \in Nat /\ n \in 0..n
      BY <1>1
    <2>2. \A k \in 0..n : SumTo(Lens(a), k) \in Nat
      BY <1>2, <2>1, SumIsNat
    <2>3. \A k \in 0..n : SumTo(Packed(a), k) \in Nat
      BY <1>2, <2>1, SumIsNat
    <2> QED BY <2>1, <2>2, <2>3
  <1>4. Unpacked(a) = SumTo(Lens(a), n)
    <2>1. [i \in DOMAIN a.members |-> a.members[i].blob.len] = [j \in 1..n |-> Lens(a)[j]]
      BY <1>1, <1>2
    <2> QED BY <2>1 DEF Unpacked, SumTo
  <1>5. ArchiveLen(a) \in Nat
    <2>1. [i \in DOMAIN a.members |-> a.members[i].blob.packed] = [j \in 1..n |-> Packed(a)[j]]
      BY <1>1, <1>2
    <2>2. SumOf([i \in DOMAIN a.members |-> a.members[i].blob.packed]) \in Nat
      BY <1>3, <2>1 DEF SumTo
    <2> QED BY <2>2 DEF ArchiveLen
  <1>6. ASSUME NEW k \in 1..n
        PROVE  /\ SumOf([j \in 1..(k - 1) |-> a.members[j].blob.len]) = SumTo(Lens(a), k - 1)
               /\ SumTo(Lens(a), k) = SumTo(Lens(a), k - 1) + a.members[k].blob.len
    <2>1. [j \in 1..(k - 1) |-> a.members[j].blob.len] = [j \in 1..(k - 1) |-> Lens(a)[j]]
      BY <1>1, <1>2
    <2>2. SumTo(Lens(a), k) = SumTo(Lens(a), k - 1) + Lens(a)[k]
      BY <1>1, SumSteps
    <2> QED BY <1>2, <2>1, <2>2 DEF SumTo
  <1> QED BY <1>1, <1>2, <1>3, <1>4, <1>5, <1>6 DEF n

\* What a member has to be whatever there is room for.
Admitted1(m, a, i, lim) ==
    LET e == a.members[i]
    IN /\ i <= lim.members /\ e.plain /\ e.path \notin UnsafePaths /\ e.path \in Listed(m)
       /\ ~ \E j \in 1..(i - 1) : a.members[j].path = e.path
       /\ e.blob = ArtifactAt(m, e.path).sha

\* A member passes when it is one of the archive's, and it and all before it
\* fit what a walk may unpack; one that may be there is refused for no other
\* reason than the room (walk_entries).
LEMMA MemberFits ==
  ASSUME NEW m, NEW a, Weighed(a), NEW i \in 1..Len(a.members), NEW lim, NEW room \in Int,
         lim.total \in Nat, lim.members \in Nat
  PROVE  /\ MemberVerdict(m, a, i, lim, room) = "ok" <=>
              /\ Admitted1(m, a, i, lim)
              /\ SumTo(Lens(a), i) <= lim.total /\ SumTo(Lens(a), i) <= room
         /\ (Admitted1(m, a, i, lim) /\ SumTo(Lens(a), i) <= lim.total) =>
              MemberVerdict(m, a, i, lim, room) \in {"ok", "RetainedDisk"}
  <1> DEFINE e == a.members[i]
             before == SumOf([j \in 1..(i - 1) |-> a.members[j].blob.len])
             sum == SumTo(Lens(a), i)
             copy == Pass(e.blob.len, <<<<"OuterUncompressedTotal", lim.total - before>>,
                                        <<"RetainedDisk", room - before>>>>)
             digest == IF e.blob = ArtifactAt(m, e.path).sha THEN "ok" ELSE "HashMismatch"
             v == <<copy, digest>>
  <1>1. /\ e.blob.len \in Nat /\ before \in Nat /\ sum = before + e.blob.len /\ i \in Nat
    <2>1. i \in Nat /\ i - 1 \in 0..Len(a.members)
      BY Weighing
    <2> QED BY <2>1, Weighing
  <1>2. MemberVerdict(m, a, i, lim, room) =
          IF i > lim.members THEN "OuterMembers"
          ELSE IF ~e.plain \/ e.path \in UnsafePaths THEN "MemberPath"
          ELSE IF e.path \notin Listed(m) THEN "MemberNotInManifest"
          ELSE IF \E j \in 1..(i - 1) : a.members[j].path = e.path THEN "DuplicateMember"
          ELSE FirstOf(v)
    BY DEF MemberVerdict
  <1>3. /\ copy = "ok" <=> (sum <= lim.total /\ sum <= room)
        /\ sum <= lim.total => copy \in {"ok", "RetainedDisk"}
    <2> HIDE DEF before, sum, e
    <2>1. copy = IF e.blob.len > lim.total - before /\ lim.total - before <= room - before
                 THEN "OuterUncompressedTotal"
                 ELSE IF e.blob.len > room - before /\ room - before <= lim.total - before
                 THEN "RetainedDisk" ELSE "ok"
      BY <1>1, PassTwo
    <2> DEFINE len == e.blob.len
    <2>2. /\ len \in Nat /\ before \in Nat /\ sum = before + len /\ lim.total \in Nat /\ room \in Int
          /\ copy = IF len > lim.total - before /\ lim.total - before <= room - before
                    THEN "OuterUncompressedTotal"
                    ELSE IF len > room - before /\ room - before <= lim.total - before
                    THEN "RetainedDisk" ELSE "ok"
      BY <1>1, <2>1
    <2> HIDE DEF len, copy
    <2> QED BY ONLY <2>2, SMT
  <1>4. Admitted1(m, a, i, lim) <=>
          /\ ~(i > lim.members) /\ e.plain /\ e.path \notin UnsafePaths /\ e.path \in Listed(m)
          /\ ~ \E j \in 1..(i - 1) : a.members[j].path = e.path
          /\ digest = "ok"
    BY <1>1 DEF Admitted1
  <1> HIDE DEF copy, digest, e, before, sum
  <1>5. DOMAIN v = 1..2 /\ v[1] = copy /\ v[2] = digest
    OBVIOUS
  <1> HIDE DEF v
  <1>6. FirstOf(v) = "ok" <=> copy = "ok" /\ digest = "ok"
    BY <1>5, PassesIff
  <1>7. (copy \in {"ok", "RetainedDisk"} /\ digest = "ok") => FirstOf(v) \in {"ok", "RetainedDisk"}
    BY <1>5, SaysOnly
  <1>8. MemberVerdict(m, a, i, lim, room) = "ok" <=>
              Admitted1(m, a, i, lim) /\ copy = "ok"
    BY <1>2, <1>4, <1>6
  <1>9. (Admitted1(m, a, i, lim) /\ copy \in {"ok", "RetainedDisk"}) =>
            MemberVerdict(m, a, i, lim, room) \in {"ok", "RetainedDisk"}
    BY <1>2, <1>4, <1>7
  <1> QED BY <1>3, <1>8, <1>9 DEF sum

\* A function on 1..n is a list.
LEMMA ListOf ==
  ASSUME NEW T, NEW n \in Nat, NEW f \in [1..n -> T]
  PROVE  f \in Seq(T) /\ Len(f) = n
  OBVIOUS

\* No beginning is longer than the whole.
LEMMA SumsGrow ==
  ASSUME NEW x, NEW n \in Nat, \A k \in 1..n : x[k] \in Nat, NEW i \in 0..n
  PROVE  SumTo(x, i) <= SumTo(x, n)
  <1> DEFINE bad == {k \in 0..n : i <= k /\ ~(SumTo(x, i) <= SumTo(x, k))}
  <1>1. \A k \in 0..n : SumTo(x, k) \in Nat
    BY SumIsNat
  <1>2. SUFFICES ASSUME bad # {} PROVE FALSE
    OBVIOUS
  <1>3. PICK k \in bad : \A j \in bad : k <= j
    <2>1. bad \in SUBSET Nat
      OBVIOUS
    <2> HIDE DEF bad
    <2> QED BY <1>2, <2>1, LeastIndex
  <1>4. k # i /\ k \in 1..n
    BY <1>1, <1>3
  <1>5. k - 1 \in 0..n /\ k - 1 \notin bad /\ i <= k - 1
    BY <1>3, <1>4
  <1>6. SumTo(x, k) = SumTo(x, k - 1) + x[k]
    BY <1>4, SumSteps
  <1>7. SumTo(x, i) <= SumTo(x, k - 1)
    BY <1>5
  <1> QED BY <1>1, <1>3, <1>4, <1>5, <1>6, <1>7

\* Under a limit that admits the members, a walk that had room for them needs
\* no more than they unpack to, and is refused elsewhere for the room alone.
LEMMA WalkWithin ==
  ASSUME NEW m, NEW a, Weighed(a), a.members # <<>>, NEW lim, NEW room \in Int,
         lim.total \in Nat, lim.members \in Nat, WalkOuter(m, a, lim, room) = "ok"
  PROVE  /\ Unpacked(a) \in Nat /\ Unpacked(a) <= room /\ Unpacked(a) <= lim.total
         /\ \A other \in Int :
              /\ WalkOuter(m, a, lim, other) \in {"ok", "RetainedDisk"}
              /\ Unpacked(a) <= other => WalkOuter(m, a, lim, other) = "ok"
  <1> DEFINE n == Len(a.members)
  <1>1. /\ n \in Nat \ {0} /\ DOMAIN a.members = 1..n /\ Unpacked(a) = SumTo(Lens(a), n)
        /\ \A k \in 0..n : SumTo(Lens(a), k) \in Nat
        /\ \A k \in 1..n : a.members[k].blob.len \in Nat
    <2>1. n # 0
      BY DEF Weighed
    <2> QED BY <2>1, Weighing
  <1>2. /\ \A i \in 1..n : MemberVerdict(m, a, i, lim, room) = "ok"
        /\ Listed(m) \subseteq {a.members[i].path : i \in DOMAIN a.members}
        /\ ~a.trailing /\ SameMembers(m, a)
    BY WalkPasses DEF Weighed
  <1>3. \A i \in 1..n : /\ Admitted1(m, a, i, lim)
                        /\ SumTo(Lens(a), i) <= lim.total /\ SumTo(Lens(a), i) <= room
    BY <1>2, MemberFits
  <1>4. \A i \in 1..n : SumTo(Lens(a), i) <= SumTo(Lens(a), n)
    <2>1. \A k \in 1..n : Lens(a)[k] \in Nat
      BY <1>1 DEF Lens
    <2>2. n \in Nat
      BY <1>1
    <2> HIDE DEF n
    <2>3. \A i \in 0..n : SumTo(Lens(a), i) <= SumTo(Lens(a), n)
      BY <2>1, <2>2, SumsGrow
    <2> QED BY <2>2, <2>3
  <1>5. /\ Unpacked(a) \in Nat /\ Unpacked(a) <= room /\ Unpacked(a) <= lim.total
    <2>1. n \in 1..n /\ n \in 0..n
      BY <1>1
    <2> HIDE DEF n
    <2> QED BY <1>1, <1>3, <2>1
  <1>6. ASSUME NEW other \in Int
        PROVE  /\ WalkOuter(m, a, lim, other) \in {"ok", "RetainedDisk"}
               /\ Unpacked(a) <= other => WalkOuter(m, a, lim, other) = "ok"
    <2> DEFINE each == [i \in DOMAIN a.members |-> MemberVerdict(m, a, i, lim, other)]
               rest == <<"ok", "ok", "ok">>
    <2>1. WalkOuter(m, a, lim, other) = FirstOf(each \o rest)
      BY <1>2 DEF WalkOuter
    <2>2. ASSUME NEW i \in 1..n PROVE each[i] \in {"ok", "RetainedDisk"}
      BY <1>1, <1>3, MemberFits
    <2>3. each \in Seq({"ok", "RetainedDisk"}) /\ Len(each) = n
      <3>1. n \in Nat /\ each \in [1..n -> {"ok", "RetainedDisk"}]
        BY <1>1, <2>2
      <3> HIDE DEF each, n
      <3> QED BY <3>1, ListOf
    <2>4. rest \in Seq({"ok", "RetainedDisk"}) /\ Len(rest) = 3 /\ \A i \in 1..3 : rest[i] = "ok"
      OBVIOUS
    <2>5. ASSUME Unpacked(a) <= other, NEW i \in 1..n PROVE each[i] = "ok"
      <3>1. SumTo(Lens(a), i) <= other
        <4>1. i \in 0..n /\ n \in 0..n
          BY <1>1
        <4>2. SumTo(Lens(a), i) \in Nat /\ SumTo(Lens(a), n) \in Nat
          BY <1>1, <4>1
        <4> HIDE DEF n
        <4> QED BY <1>1, <1>4, <2>5, <4>2
      <3> QED BY <1>1, <1>3, <3>1, MemberFits
    <2> HIDE DEF each, rest, n
    <2>6. WalkOuter(m, a, lim, other) \in {"ok", "RetainedDisk"}
      BY <2>1, <2>3, <2>4, BothSayOnly
    <2>7. Unpacked(a) <= other => WalkOuter(m, a, lim, other) = "ok"
      BY <2>1, <2>3, <2>4, <2>5, BothPassIff
    <2> QED BY <2>6, <2>7
  <1> QED BY <1>5, <1>6

\* The same of the contents as a whole (check_contents).
LEMMA ContentsWithin ==
  ASSUME NEW m, NEW a, Weighed(a), a.members # <<>>, NEW arch, NEW lim,
         NEW room \in Int, lim.total \in Nat, lim.members \in Nat,
         m.artifacts \in Seq(Range(m.artifacts)),
         CheckContents(m, a, arch, lim, room) = "ok"
  PROVE  /\ WalkOuter(m, a, lim, room) = "ok"
         /\ Unpacked(a) \in Nat /\ Unpacked(a) <= room /\ Unpacked(a) <= lim.total
         /\ \A other \in Int :
              /\ CheckContents(m, a, arch, lim, other) \in {"ok", "RetainedDisk"}
              /\ Unpacked(a) <= other => CheckContents(m, a, arch, lim, other) = "ok"
  <1> DEFINE size == IF ArchiveLen(a) > lim.archive THEN "CompressedArchive" ELSE "ok"
             native == IF \A i \in DOMAIN m.artifacts : m.artifacts[i].arch = arch THEN "ok"
                       ELSE "ArchitectureMismatch"
             evidence == IF \A i \in DOMAIN m.artifacts :
                              m.artifacts[i].kind = "image" => m.artifacts[i].image # NoImage
                         THEN "ok" ELSE "LegacyImageEvidence"
             head(w) == <<size, native, evidence, w>>
             images == [i \in DOMAIN m.artifacts |-> ImageVerdict(m, i, lim)]
             S == {"ok", "CompressedArchive", "ArchitectureMismatch", "LegacyImageEvidence",
                   WalkOuter(m, a, lim, room)} \cup Range(images)
             n == Len(m.artifacts)
  <1>1. \A other : CheckContents(m, a, arch, lim, other) =
                     FirstOf(head(WalkOuter(m, a, lim, other)) \o images)
    BY DEF CheckContents
  <1>2. n \in Nat /\ DOMAIN m.artifacts = 1..n
    OBVIOUS
  <1>3. images \in Seq(S) /\ Len(images) = n /\ DOMAIN images = 1..n
    BY <1>2 DEF Range
  <1>4. size \in S /\ native \in S /\ evidence \in S /\ WalkOuter(m, a, lim, room) \in S
    OBVIOUS
  <1> HIDE DEF size, native, evidence, images, S, n
  <1>5. /\ head(WalkOuter(m, a, lim, room)) \in Seq(S)
        /\ \A w : /\ Len(head(w)) = 4 /\ head(w)[1] = size /\ head(w)[2] = native
                  /\ head(w)[3] = evidence /\ head(w)[4] = w
    BY <1>4
  <1>6. /\ \A w, T : size \in T /\ native \in T /\ evidence \in T /\ w \in T => head(w) \in Seq(T)
    OBVIOUS
  <1> HIDE DEF head
  <1>7. /\ \A i \in 1..4 : head(WalkOuter(m, a, lim, room))[i] = "ok"
        /\ \A i \in 1..n : images[i] = "ok"
    <2>1. FirstOf(head(WalkOuter(m, a, lim, room)) \o images) = "ok"
      BY <1>1
    <2> QED BY <1>3, <1>5, <2>1, BothPassIff
  <1>8. size = "ok" /\ native = "ok" /\ evidence = "ok" /\ WalkOuter(m, a, lim, room) = "ok"
    BY <1>5, <1>7
  <1>9. /\ Unpacked(a) \in Nat /\ Unpacked(a) <= room /\ Unpacked(a) <= lim.total
        /\ \A other \in Int :
              /\ WalkOuter(m, a, lim, other) \in {"ok", "RetainedDisk"}
              /\ Unpacked(a) <= other => WalkOuter(m, a, lim, other) = "ok"
    BY <1>8, WalkWithin
  <1>10. ASSUME NEW other \in Int
         PROVE  /\ CheckContents(m, a, arch, lim, other) \in {"ok", "RetainedDisk"}
                /\ Unpacked(a) <= other => CheckContents(m, a, arch, lim, other) = "ok"
    <2> DEFINE w == WalkOuter(m, a, lim, other)
               T == {"ok", "RetainedDisk"}
    <2>1. w \in T /\ (Unpacked(a) <= other => w = "ok")
      BY <1>9
    <2>2. head(w) \in Seq(T)
      BY <1>6, <1>8, <2>1
    <2>3. images \in Seq(T)
      BY <1>3, <1>7
    <2>4. CheckContents(m, a, arch, lim, other) = FirstOf(head(w) \o images)
      BY <1>1
    <2>5. FirstOf(head(w) \o images) \in T
      BY <2>2, <2>3, BothSayOnly
    <2>6. ASSUME Unpacked(a) <= other PROVE FirstOf(head(w) \o images) = "ok"
      <3>1. w = "ok"
        BY <2>1, <2>6
      <3>2. \A i \in 1..4 : head(w)[i] = "ok"
        BY <1>5, <1>8, <3>1
      <3>3. Len(head(w)) = 4 /\ Len(images) = n
        BY <1>3, <1>5
      <3>4. \A i \in 1..Len(head(w)) : head(w)[i] = "ok"
        BY <3>2, <3>3
      <3>5. \A i \in 1..Len(images) : images[i] = "ok"
        BY <1>7, <3>3
      <3> HIDE DEF w, T
      <3> QED BY <2>2, <2>3, <3>4, <3>5, BothPassIff
    <2> QED BY <2>4, <2>5, <2>6
  <1> QED BY <1>8, <1>9, <1>10
-----------------------------------------------------------------------------
(* Lists of two, three, four and five verdicts *)

\* A list of two passes when both do, and says no more than they do.
LEMMA OfTwo ==
  ASSUME NEW a, NEW b
  PROVE  /\ FirstOf(<<a, b>>) = "ok" <=> a = "ok" /\ b = "ok"
         /\ \A x : a \in {"ok", x} /\ b \in {"ok", x} => FirstOf(<<a, b>>) \in {"ok", x}
  <1> DEFINE v == <<a, b>>
  <1>1. DOMAIN v = 1..2 /\ v[1] = a /\ v[2] = b
    OBVIOUS
  <1> HIDE DEF v
  <1>2. DOMAIN v \subseteq Nat /\ (FirstOf(v) = "ok" <=> a = "ok" /\ b = "ok")
    BY <1>1, PassesIff
  <1>3. ASSUME NEW x, a \in {"ok", x}, b \in {"ok", x} PROVE FirstOf(v) \in {"ok", x}
    <2>1. \A i \in DOMAIN v : v[i] \in {"ok", x}
      BY <1>1, <1>3
    <2> QED BY <1>2, <2>1, SaysOnly
  <1> QED BY <1>2, <1>3 DEF v

\* A list of three does.
LEMMA OfThree ==
  ASSUME NEW a, NEW b, NEW c
  PROVE  /\ FirstOf(<<a, b, c>>) = "ok" <=> a = "ok" /\ b = "ok" /\ c = "ok"
         /\ \A x : a \in {"ok", x} /\ b \in {"ok", x} /\ c \in {"ok", x} =>
                     FirstOf(<<a, b, c>>) \in {"ok", x}
  <1> DEFINE v == <<a, b, c>>
  <1>1. DOMAIN v = 1..3 /\ v[1] = a /\ v[2] = b /\ v[3] = c
    OBVIOUS
  <1> HIDE DEF v
  <1>2. DOMAIN v \subseteq Nat /\ (FirstOf(v) = "ok" <=> a = "ok" /\ b = "ok" /\ c = "ok")
    BY <1>1, PassesIff
  <1>3. ASSUME NEW x, a \in {"ok", x}, b \in {"ok", x}, c \in {"ok", x}
        PROVE  FirstOf(v) \in {"ok", x}
    <2>1. \A i \in DOMAIN v : v[i] \in {"ok", x}
      BY <1>1, <1>3
    <2> QED BY <1>2, <2>1, SaysOnly
  <1> QED BY <1>2, <1>3 DEF v

\* A list of four passes when each does.
LEMMA OfFour ==
  ASSUME NEW a, NEW b, NEW c, NEW d
  PROVE  /\ FirstOf(<<a, b, c, d>>) = "ok" <=> a = "ok" /\ b = "ok" /\ c = "ok" /\ d = "ok"
  <1> DEFINE v == <<a, b, c, d>>
  <1>1. DOMAIN v = 1..4 /\ v[1] = a /\ v[2] = b /\ v[3] = c /\ v[4] = d
    OBVIOUS
  <1> HIDE DEF v
  <1>2. FirstOf(v) = "ok" <=> a = "ok" /\ b = "ok" /\ c = "ok" /\ d = "ok"
    BY <1>1, PassesIff
  <1> QED BY <1>2 DEF v

\* A list of five does, and says no more than they do.
LEMMA OfFive ==
  ASSUME NEW a, NEW b, NEW c, NEW d, NEW e
  PROVE  /\ FirstOf(<<a, b, c, d, e>>) = "ok" <=> a = "ok" /\ b = "ok" /\ c = "ok" /\ d = "ok" /\ e = "ok"
         /\ \A x : a \in {"ok", x} /\ b \in {"ok", x} /\ c \in {"ok", x} /\ d \in {"ok", x} /\ e \in {"ok", x} =>
                     FirstOf(<<a, b, c, d, e>>) \in {"ok", x}
  <1> DEFINE v == <<a, b, c, d, e>>
  <1>1. DOMAIN v = 1..5 /\ v[1] = a /\ v[2] = b /\ v[3] = c /\ v[4] = d /\ v[5] = e
    OBVIOUS
  <1> HIDE DEF v
  <1>2. DOMAIN v \subseteq Nat /\ (FirstOf(v) = "ok" <=> a = "ok" /\ b = "ok" /\ c = "ok" /\ d = "ok" /\ e = "ok")
    BY <1>1, PassesIff
  <1>3. ASSUME NEW x, a \in {"ok", x}, b \in {"ok", x}, c \in {"ok", x}, d \in {"ok", x}, e \in {"ok", x}
        PROVE  FirstOf(v) \in {"ok", x}
    <2>1. \A i \in DOMAIN v : v[i] \in {"ok", x}
      BY <1>1, <1>3
    <2> QED BY <1>2, <2>1, SaysOnly
  <1> QED BY <1>2, <1>3 DEF v
-----------------------------------------------------------------------------
(* What a registry takes *)

\* A manifest of lists.
Listing(m) == m.artifacts \in Seq(Range(m.artifacts)) /\ m.members \in Seq(Range(m.members))

\* A manifest that lists nothing is refused (check_completeness).
LEMMA NothingListed ==
  ASSUME NEW p, NEW r, NEW t, p.members \in Seq(Range(p.members)), p.artifacts = <<>>
  PROVE  CheckStatements(p, r, t) # "ok"
  <1> DEFINE each == [i \in DOMAIN p.members |-> MemberFault(p.members, i)]
             rest == <<IF Bound(p) \subseteq Listed(p) THEN "ok" ELSE "UnlistedMember",
                       IF p.artifacts = <<>> THEN "MissingRequiredMember" ELSE "ok",
                       IF Listed(p) \subseteq Bound(p) THEN "ok" ELSE "MissingRequiredMember">>
             S == Range(each) \cup Range(rest)
  <1>1. SUFFICES ASSUME CheckCompleteness(p) = "ok" PROVE FALSE
    BY StatementsPass
  <1>2. FirstOf(each \o rest) = "ok"
    BY <1>1 DEF CheckCompleteness
  <1>3. each \in Seq(S)
    <2>1. Len(p.members) \in Nat /\ each \in [1..Len(p.members) -> S]
      BY SMTT(30) DEF Range
    <2> HIDE DEF each, S
    <2> QED BY <2>1, ListOf
  <1>4. rest \in Seq(S) /\ Len(rest) = 3 /\ rest[2] = "MissingRequiredMember"
    BY DEF Range
  <1> HIDE DEF each, rest, S
  <1>5. \A i \in 1..Len(rest) : rest[i] = "ok"
    BY <1>2, <1>3, <1>4, BothPass
  <1> QED BY <1>4, <1>5

\* Reserving the staging bound for what a package carries admits what the whole
\* limit would: the bound leaves no less than the members may unpack to
\* (upload_staging_bound, upload_contents).
LEMMA StagedIsWhole ==
  ASSUME NEW c, Weighed(c.archive), c.archive.members # <<>>, Listing(c.manifest),
         NEW trusted, NEW namespace, NEW lim, Limited(lim), NEW first, first = c.manifest.artifacts[1]
  PROVE  VerifyUpload(c, trusted, namespace, lim) = "ok" <=>
           /\ VerifyContents(c, trusted, DerivedRequest(first, namespace), first.arch, lim) = "ok"
           /\ first.component # TrustTarget
  <1> DEFINE len == ContainerLen(c)
             alen == ArchiveLen(c.archive)
             bound == UploadStagingBound(lim, len)
             request == DerivedRequest(first, namespace)
             auth == AuthenticateBounded(c, trusted, lim)
             states == CheckStatements(Envelope(c), request, trusted)
             read(b) == SnapshotSource(c, lim, b)
             after(room) == VerifyAuthenticated(c, first.arch, lim, room)
             inside(room) == CheckContents(c.manifest, c.archive, first.arch, lim, room)
  <1>1. /\ len \in Nat /\ alen \in Nat /\ alen <= len
    <2>1. alen \in Nat
      BY Weighing
    <2>2. ManifestLen(c.manifest) \in Nat
      BY DEF ManifestLen, Listing
    <2> HIDE DEF alen
    <2>3. len = ManifestLen(c.manifest) + alen + Overhead
      BY DEF ContainerLen, alen
    <2> QED BY <2>1, <2>2, <2>3, ContentsAssumption
  <1>2. lim.disk \in Nat /\ lim.total \in Nat /\ lim.package \in Nat /\ lim.members \in Nat
    BY DEF Limited
  <1>3. bound = IF 2 * len + lim.total < lim.disk THEN 2 * len + lim.total ELSE lim.disk
    BY DEF UploadStagingBound
  <1> HIDE DEF len, alen, bound
  <1>4. bound \in Nat /\ bound <= lim.disk /\ (len <= bound <=> len <= lim.disk)
    BY <1>1, <1>2, <1>3
  <1>5. ASSUME NEW b \in Int PROVE read(b) = "ok" <=> len <= lim.package /\ len <= b
    <2>1. read(b) = Pass(len, <<<<"Package", lim.package>>, <<"RetainedDisk", b>>>>)
      BY DEF SnapshotSource, len
    <2>2. read(b) = IF len > lim.package /\ lim.package <= b THEN "Package"
                    ELSE IF len > b /\ b <= lim.package THEN "RetainedDisk" ELSE "ok"
      BY <1>1, <1>2, <2>1, PassTwo
    <2> QED BY <1>1, <1>2, <2>2
  <1>6. ASSUME NEW room \in Int
        PROVE  after(room) = "ok" <=> alen <= room /\ inside(room - alen) = "ok"
    <2>1. after(room) = FirstOf(<<Pass(alen, <<<<"RetainedDisk", room>>>>), inside(room - alen)>>)
      BY DEF VerifyAuthenticated, alen
    <2>2. Pass(alen, <<<<"RetainedDisk", room>>>>) = IF alen > room THEN "RetainedDisk" ELSE "ok"
      BY <1>1, PassOne
    <2> HIDE DEF inside
    <2> QED BY <1>1, <2>1, <2>2, OfTwo
  <1>7. ASSUME len <= lim.disk
        PROVE  after(bound - len) = "ok" <=> after(lim.disk - len) = "ok"
    <2> DEFINE small == bound - len - alen
               wide == lim.disk - len - alen
    <2>1. small \in Int /\ wide \in Int /\ small <= wide /\ (small >= lim.total \/ small = wide)
      BY <1>1, <1>2, <1>3, <1>4, SMTT(30)
    <2>2. /\ after(bound - len) = "ok" <=> alen <= bound - len /\ inside(small) = "ok"
          /\ after(lim.disk - len) = "ok" <=> alen <= lim.disk - len /\ inside(wide) = "ok"
      BY <1>1, <1>2, <1>4, <1>6
    <2>3. alen <= bound - len <=> alen <= lim.disk - len
      BY <1>1, <1>2, <1>3
    <2> HIDE DEF small, wide
    <2>4. inside(small) = "ok" => inside(wide) = "ok"
      <3> SUFFICES ASSUME inside(small) = "ok" PROVE inside(wide) = "ok"
        OBVIOUS
      <3>1. /\ Unpacked(c.archive) \in Nat /\ Unpacked(c.archive) <= small
            /\ Unpacked(c.archive) <= wide => inside(wide) = "ok"
        BY <1>2, <2>1, ContentsWithin DEF Listing
      <3> QED BY <2>1, <3>1
    <2>5. inside(wide) = "ok" => inside(small) = "ok"
      <3> SUFFICES ASSUME inside(wide) = "ok" PROVE inside(small) = "ok"
        OBVIOUS
      <3>1. /\ Unpacked(c.archive) \in Nat /\ Unpacked(c.archive) <= wide
            /\ Unpacked(c.archive) <= lim.total
            /\ Unpacked(c.archive) <= small => inside(small) = "ok"
        BY <1>2, <2>1, ContentsWithin DEF Listing
      <3> QED BY <1>2, <2>1, <3>1
    <2> HIDE DEF after, inside
    <2> QED BY <2>2, <2>3, <2>4, <2>5
  <1>8. VerifyContents(c, trusted, request, first.arch, lim) = "ok" <=>
          len <= lim.package /\ len <= lim.disk /\ auth = "ok" /\ states = "ok" /\ after(lim.disk - len) = "ok"
    <2> DEFINE retained == VerifyRetained(c, trusted, request, first.arch, lim, lim.disk - len)
    <2>1. VerifyContents(c, trusted, request, first.arch, lim) = FirstOf(<<read(lim.disk), retained>>)
      BY DEF VerifyContents, len
    <2>2. retained = FirstOf(<<auth, states, after(lim.disk - len)>>)
      BY DEF VerifyRetained
    <2> HIDE DEF retained, auth, states, after, read
    <2> QED BY <1>2, <1>5, <2>1, <2>2, OfTwo, OfThree
  <1>9. ASSUME c.manifest.artifacts # <<>>, first.component # TrustTarget
        PROVE  VerifyUpload(c, trusted, namespace, lim) = "ok" <=>
                 len <= lim.package /\ len <= bound /\ auth = "ok" /\ states = "ok" /\ after(bound - len) = "ok"
    <2> DEFINE taken == FirstOf(<<read(bound), auth>>)
               judged == FirstOf(<<states, after(bound - len)>>)
    <2>1. VerifyUpload(c, trusted, namespace, lim) = IF taken # "ok" THEN taken ELSE judged
      BY <1>9 DEF VerifyUpload, len, bound
    <2>2. /\ taken = "ok" <=> read(bound) = "ok" /\ auth = "ok"
          /\ judged = "ok" <=> states = "ok" /\ after(bound - len) = "ok"
      BY OfTwo
    <2> HIDE DEF taken, judged, auth, states, after, read
    <2> QED BY <1>4, <1>5, <2>1, <2>2
  <1>10. ASSUME c.manifest.artifacts # <<>>, first.component = TrustTarget
         PROVE  VerifyUpload(c, trusted, namespace, lim) # "ok"
    BY <1>10 DEF VerifyUpload
  <1>11. ASSUME c.manifest.artifacts = <<>>
         PROVE  VerifyUpload(c, trusted, namespace, lim) # "ok" /\ states # "ok"
    <2>1. VerifyUpload(c, trusted, namespace, lim) # "ok"
      BY <1>11 DEF VerifyUpload
    <2>2. Envelope(c).artifacts = <<>> /\ Envelope(c).members \in Seq(Range(Envelope(c).members))
      BY <1>11 DEF Envelope, Listing
    <2>3. states # "ok"
      BY <2>2, NothingListed
    <2> QED BY <2>1, <2>3
  <1> HIDE DEF auth, states, after
  <1> QED BY <1>4, <1>7, <1>8, <1>9, <1>10, <1>11
-----------------------------------------------------------------------------
(* What a preparation makes *)

\* A manifest and an archive made of one snapshot per input of the job.
Made(m, a) ==
    \E blobs :
        /\ blobs \in Seq(Range(blobs)) /\ Len(blobs) = Len(case.inputs)
        /\ \A i \in DOMAIN blobs : Weighs(blobs[i])
        /\ m = DeriveManifest(case.inputs, blobs) /\ a = ArchiveOf(case.inputs, blobs)

\* Snapshots have a total length.
LEMMA SumOfLens ==
  ASSUME NEW blobs, blobs \in Seq(Range(blobs)), \A i \in DOMAIN blobs : Weighs(blobs[i])
  PROVE  SumOf(BlobLens(blobs)) \in Nat
  <1> DEFINE n == Len(blobs)
             x == BlobLens(blobs)
  <1>1. n \in Nat /\ DOMAIN blobs = 1..n
    OBVIOUS
  <1>2. x = [i \in 1..n |-> x[i]] /\ \A i \in 1..n : x[i] \in Nat
    BY <1>1 DEF BlobLens, Weighs
  <1> HIDE DEF n, x
  <1>3. n \in 0..n /\ SumOf(x) = SumTo(x, n)
    BY <1>1, <1>2 DEF SumTo
  <1>4. \A k \in 0..n : SumTo(x, k) \in Nat
    BY <1>1, <1>2, SumIsNat
  <1> QED BY <1>3, <1>4 DEF x

\* A function on 1..n is a list of what it takes.
LEMMA ListRange ==
  ASSUME NEW n \in Nat, NEW f, f = [i \in 1..n |-> f[i]]
  PROVE  f \in Seq(Range(f)) /\ Len(f) = n
  <1>1. f \in [1..n -> Range(f)]
    BY DEF Range
  <1> QED BY <1>1, ListOf

\* What was made of a job is a list of artifacts beside a list of members.
LEMMA MadeIs ==
  ASSUME case \in Cases, NEW m, NEW a, Made(m, a)
  PROVE  /\ Listing(m) /\ Weighed(a) /\ ManifestLen(m) \in Nat /\ ArchiveLen(a) \in Nat
         /\ m.artifacts # <<>> => a.members # <<>>
         /\ Len(a.members) = Len(case.inputs)
  <1>1. PICK blobs :
          /\ blobs \in Seq(Range(blobs)) /\ Len(blobs) = Len(case.inputs)
          /\ \A i \in DOMAIN blobs : Weighs(blobs[i])
          /\ m = DeriveManifest(case.inputs, blobs) /\ a = ArchiveOf(case.inputs, blobs)
    BY DEF Made
  <1> DEFINE n == Len(case.inputs)
  <1>2. n \in Nat /\ DOMAIN case.inputs = 1..n /\ DOMAIN blobs = 1..n
    BY <1>1, PipelineAssumption
  <1> HIDE DEF n
  <1>3. /\ m.artifacts = [i \in 1..n |-> m.artifacts[i]]
        /\ m.members = [i \in 1..n |-> m.members[i]]
    BY <1>1, <1>2 DEF DeriveManifest
  <1>4. /\ m.artifacts \in Seq(Range(m.artifacts)) /\ Len(m.artifacts) = n
        /\ m.members \in Seq(Range(m.members))
    BY <1>2, <1>3, ListRange
  <1>5. /\ a.members = [i \in 1..n |-> a.members[i]] /\ \A i \in 1..n : a.members[i].blob = blobs[i]
    BY <1>1, <1>2 DEF ArchiveOf
  <1>6. a.members \in Seq(Range(a.members)) /\ Len(a.members) = n
    BY <1>2, <1>5, ListRange
  <1>7. Weighed(a)
    BY <1>1, <1>2, <1>5, <1>6 DEF Weighed
  <1>8. ArchiveLen(a) \in Nat
    BY <1>7, Weighing
  <1>9. m.artifacts # <<>> => a.members # <<>>
    BY <1>4, <1>6
  <1> QED BY <1>2, <1>4, <1>6, <1>7, <1>8, <1>9 DEF Listing, ManifestLen, n

\* What passed a walk is described by the manifest it was walked with.
LEMMA WalkedIsDescribed ==
  ASSUME NEW m, NEW a, NEW lim, NEW room, a.members \in Seq(Range(a.members)),
         WalkOuter(m, a, lim, room) = "ok"
  PROVE  Describes(m, a)
  <1>1. DOMAIN a.members = 1..Len(a.members) /\ Len(a.members) \in Nat
    OBVIOUS
  <1>2. /\ Listed(m) \subseteq {a.members[i].path : i \in DOMAIN a.members}
        /\ ~a.trailing /\ SameMembers(m, a)
        /\ \A i \in DOMAIN a.members : MemberVerdict(m, a, i, lim, room) = "ok"
    BY <1>1, WalkPasses
  <1>3. ASSUME NEW i \in DOMAIN a.members
        PROVE  /\ a.members[i].plain /\ a.members[i].path \notin UnsafePaths
               /\ a.members[i].path \in Listed(m)
               /\ a.members[i].blob = ArtifactAt(m, a.members[i].path).sha
               /\ \A j \in 1..(i - 1) : a.members[j].path # a.members[i].path
    BY <1>2, <1>3, MemberPasses
  <1>4. ASSUME NEW i \in DOMAIN a.members, NEW j \in DOMAIN a.members, a.members[i].path = a.members[j].path
        PROVE  i = j
    <2>1. i \notin 1..(j - 1) /\ j \notin 1..(i - 1)
      BY <1>3, <1>4
    <2> QED BY <1>1, <2>1
  <1> QED BY <1>2, <1>3, <1>4 DEF Describes

\* What passes the validation of a preparation, and what is left open: the room.
LEMMA ValidIsDescribed ==
  ASSUME case \in Cases, NEW m, NEW a, Made(m, a), NEW request, NEW arch, NEW lim, Limited(lim), NEW room \in Int,
         Validate(m, a, request, arch, lim, room) = "ok"
  PROVE  /\ Describes(m, a) /\ a.members # <<>>
         /\ Unpacked(a) \in Nat /\ Unpacked(a) <= room
         /\ \A other \in Int : CheckContents(m, a, arch, lim, other) \in {"ok", "RetainedDisk"}
  <1>1. CheckStatements(m, request, NoTrust) = "ok" /\ CheckContents(m, a, arch, lim, room) = "ok"
    BY OfThree DEF Validate
  <1>2. Listing(m) /\ Weighed(a) /\ (m.artifacts # <<>> => a.members # <<>>)
    BY MadeIs
  <1>3. a.members # <<>>
    BY <1>1, <1>2, NothingListed DEF Listing
  <1>4. lim.total \in Nat /\ lim.members \in Nat
    BY DEF Limited
  <1>5. /\ WalkOuter(m, a, lim, room) = "ok"
        /\ Unpacked(a) \in Nat /\ Unpacked(a) <= room
        /\ \A other \in Int : CheckContents(m, a, arch, lim, other) \in {"ok", "RetainedDisk"}
    <2>1. /\ Weighed(a) /\ a.members # <<>> /\ room \in Int /\ lim.total \in Nat /\ lim.members \in Nat
          /\ m.artifacts \in Seq(Range(m.artifacts)) /\ CheckContents(m, a, arch, lim, room) = "ok"
      BY <1>1, <1>2, <1>3, <1>4 DEF Listing
    <2>2. /\ WalkOuter(m, a, lim, room) = "ok"
          /\ Unpacked(a) \in Nat /\ Unpacked(a) <= room /\ Unpacked(a) <= lim.total
          /\ \A other \in Int :
                /\ CheckContents(m, a, arch, lim, other) \in {"ok", "RetainedDisk"}
                /\ Unpacked(a) <= other => CheckContents(m, a, arch, lim, other) = "ok"
      BY ONLY <2>1, ContentsWithin
    <2> QED BY <2>2
  <1>6. Describes(m, a)
    BY <1>2, <1>5, WalkedIsDescribed DEF Weighed
  <1> QED BY <1>3, <1>5, <1>6

\* The other preparation is one too.
LEMMA OtherIsMade ==
  ASSUME case \in Cases, snaps \in Seq(Range(snaps)), Len(snaps) = Len(case.inputs)
  PROVE  Made(OtherManifest, OtherArchive)
  <1> DEFINE n == Len(snaps)
  <1>1. n \in Nat /\ DOMAIN snaps = 1..n
    OBVIOUS
  <1>2. ASSUME NEW i \in 1..n PROVE OtherBlobs[i] \in Blobs
    <2>1. \E b \in Blobs : b # snaps[i]
      BY PipelineAssumption
    <2>2. (CHOOSE b \in Blobs : b # snaps[i]) \in Blobs
      BY <2>1
    <2> QED BY <1>1, <2>2 DEF OtherBlobs
  <1>3. OtherBlobs = [i \in 1..n |-> OtherBlobs[i]]
    BY <1>1 DEF OtherBlobs
  <1>4. \A b \in Blobs : Weighs(b)
    BY PipelineAssumption
  <1> HIDE DEF n
  <1>5. OtherBlobs \in Seq(Range(OtherBlobs)) /\ Len(OtherBlobs) = n
    BY <1>1, <1>3, ListRange
  <1>6. \A i \in DOMAIN OtherBlobs : Weighs(OtherBlobs[i])
    BY <1>2, <1>3, <1>4
  <1>7. OtherManifest = DeriveManifest(case.inputs, OtherBlobs) /\ OtherArchive = ArchiveOf(case.inputs, OtherBlobs)
    BY DEF OtherManifest, OtherArchive
  <1> HIDE DEF OtherBlobs, OtherManifest, OtherArchive
  <1> QED BY <1>5, <1>6, <1>7 DEF Made, n
-----------------------------------------------------------------------------
(* Bindings and records *)

\* The eleven fields of a record, the schema first.
LEMMA EachField ==
  /\ DOMAIN Fields = 1..11 /\ Fields[1] = "schema"
  /\ \A i \in 1..11 : Fields[i] \in FieldNames
  BY DEF Fields, FieldNames

\* A record that is read says what was written (emit, parse_record).
LEMMA ReadsBack ==
  ASSUME NEW b, NEW lim, lim.record \in Nat, RecordLen <= lim.record
  PROVE  ParseRecord(Emit(b), lim) = "ok" /\ FirstDifference(Recorded(Emit(b)), b) = "ok"
  <1> DEFINE r == Emit(b)
  <1>1. /\ r.len = RecordLen /\ r.shape = "object" /\ DOMAIN r.fields = FieldNames
        /\ \A f \in FieldNames : /\ r.fields[f].type = IF Absent(b, f) THEN "null" ELSE FieldType[f]
                                 /\ r.fields[f].sound = TRUE /\ r.fields[f].value = b[f]
    BY DEF Emit
  <1>2. \A f \in FieldNames : Absent(b, f) => f \in Nullable
    BY DEF Absent, Nullable
  <1> HIDE DEF r
  <1>3. \A f \in FieldNames : FieldFault(r.fields, f) = "ok"
    BY <1>1, <1>2 DEF FieldFault
  <1> DEFINE size == IF r.len > lim.record THEN "PreparationRecord" ELSE "ok"
             shape == CASE r.shape = "object" -> "ok" [] r.shape = "duplicate" -> "DuplicateKey"
                        [] r.shape = "other" -> "NotObject" [] OTHER -> "Malformed"
             schema == IF FieldFault(r.fields, "schema") = "InvalidField" THEN "UnsupportedSchema"
                       ELSE FieldFault(r.fields, "schema")
             known == IF DOMAIN r.fields \subseteq FieldNames THEN "ok" ELSE "UnknownField"
             head == <<size, shape, schema, known>>
             each == [i \in DOMAIN Fields |-> FieldFault(r.fields, Fields[i])]
  <1>4. size = "ok" /\ shape = "ok" /\ schema = "ok" /\ known = "ok"
    <2>1. size = "ok"
      BY <1>1, ContentsAssumption
    <2>2. shape = "ok"
      BY <1>1
    <2>3. FieldFault(r.fields, "schema") = "ok"
      BY <1>3, EachField
    <2> QED BY <1>1, <2>1, <2>2, <2>3
  <1>5. ParseRecord(r, lim) = FirstOf(head \o each)
    BY DEF ParseRecord
  <1>6. each \in Seq({"ok"}) /\ Len(each) = 11 /\ \A i \in 1..11 : each[i] = "ok"
    <2>1. \A i \in 1..11 : each[i] = "ok"
      BY <1>3, EachField
    <2>2. each \in [1..11 -> {"ok"}]
      BY <2>1, EachField
    <2> HIDE DEF each
    <2>3. each \in Seq({"ok"}) /\ Len(each) = 11
      BY <2>2, ListOf
    <2> QED BY <2>1, <2>3
  <1> HIDE DEF size, shape, schema, known, each
  <1>7. head \in Seq({"ok"}) /\ Len(head) = 4 /\ \A i \in 1..4 : head[i] = "ok"
    BY <1>4
  <1> HIDE DEF head
  <1>8. FirstOf(head \o each) = "ok"
    BY <1>6, <1>7, BothPassIff
  <1> DEFINE same == [i \in DOMAIN Fields |-> IF Recorded(r)[Fields[i]] = b[Fields[i]] THEN "ok" ELSE Fields[i]]
  <1>9. DOMAIN same \subseteq Nat /\ \A i \in DOMAIN same : same[i] = "ok"
    <2>1. \A f \in FieldNames : Recorded(r)[f] = b[f]
      BY <1>1 DEF Recorded
    <2> QED BY <2>1, EachField
  <1>10. FirstDifference(Recorded(r), b) = FirstOf(same)
    BY DEF FirstDifference
  <1> HIDE DEF same
  <1>11. FirstOf(same) = "ok"
    BY <1>9, PassesIff
  <1> QED BY <1>5, <1>8, <1>10, <1>11 DEF r

\* A binding does not differ from itself.
LEMMA NoDifference ==
  ASSUME NEW b
  PROVE  FirstDifference(b, b) = "ok"
  <1> DEFINE same == [i \in DOMAIN Fields |-> IF b[Fields[i]] = b[Fields[i]] THEN "ok" ELSE Fields[i]]
  <1>1. DOMAIN same \subseteq Nat /\ \A i \in DOMAIN same : same[i] = "ok"
    BY EachField
  <1>2. FirstDifference(b, b) = FirstOf(same)
    BY DEF FirstDifference
  <1> HIDE DEF same
  <1> QED BY <1>1, <1>2, PassesIff

\* A binding answers the request it was made for.
LEMMA AnswersItsRequest ==
  ASSUME NEW m, NEW a, NEW request, NEW arch
  PROVE  RequestDifference(Binding(m, a, request, arch), request, arch) = "ok"
  <1> DEFINE v == <<"ok", "ok", "ok", "ok", "ok", "ok">>
  <1>1. RequestDifference(Binding(m, a, request, arch), request, arch) = FirstOf(v)
    BY DEF RequestDifference, Binding
  <1>2. DOMAIN v \subseteq Nat /\ \A i \in DOMAIN v : v[i] = "ok"
    OBVIOUS
  <1> HIDE DEF v
  <1> QED BY <1>1, <1>2, PassesIff

\* A rehash passes for what a binding binds, and only for that.
LEMMA RehashedIsBound ==
  ASSUME NEW h, NEW b
  PROVE  Rehash(h, b) = "ok" <=>
           /\ h.man = b.manifest_sha256 /\ ManifestLen(h.man) = b.manifest_length
           /\ h.arc = b.archive_sha256 /\ ArchiveLen(h.arc) = b.archive_length
  <1> DEFINE w == IF h.man = b.manifest_sha256 THEN "ok" ELSE "manifest_sha256"
             x == IF ManifestLen(h.man) = b.manifest_length THEN "ok" ELSE "manifest_length"
             y == IF h.arc = b.archive_sha256 THEN "ok" ELSE "archive_sha256"
             z == IF ArchiveLen(h.arc) = b.archive_length THEN "ok" ELSE "archive_length"
             v == <<w, x, y, z>>
  <1>1. DOMAIN v = 1..4 /\ v[1] = w /\ v[2] = x /\ v[3] = y /\ v[4] = z
    OBVIOUS
  <1>2. Rehash(h, b) = FirstOf(v)
    BY DEF Rehash
  <1>3. /\ w = "ok" <=> h.man = b.manifest_sha256
        /\ x = "ok" <=> ManifestLen(h.man) = b.manifest_length
        /\ y = "ok" <=> h.arc = b.archive_sha256
        /\ z = "ok" <=> ArchiveLen(h.arc) = b.archive_length
    OBVIOUS
  <1> HIDE DEF w, x, y, z
  <1> HIDE DEF v
  <1>4. FirstOf(v) = "ok" <=> w = "ok" /\ x = "ok" /\ y = "ok" /\ z = "ok"
    BY <1>1, PassesIff
  <1> QED BY <1>2, <1>3, <1>4
-----------------------------------------------------------------------------
(* The inductive invariant of a package's making *)

Making == {"start", "stage", "manifest", "validate"}
Copying == {"record", "copyM", "copyA"}
Holding == {"prepared", "persisted", "signed", "finalized", "published"}

\* Which step of which job comes when.
PhaseAndStep ==
    \/ phase = "prepare" /\ pc \in Making \cup {"prepared", "refused"}
    \/ phase = "persist" /\ pc \in {"persisted", "refused"}
    \/ phase = "reopen" /\ pc \in {"request", "directory", "files", "revalidate", "prepared", "refused"} \cup Copying
    \/ phase = "finalize" /\ pc \in {"signed", "finalized", "refused"}
    \/ phase = "publish" /\ pc \in {"published", "refused"}

Underway ==
    /\ case \in Cases /\ edits \in 0..MaxEdits /\ touched \in BOOLEAN
    /\ PhaseAndStep

\* The disk a call holds.
DiskHeld == used.n \in Nat /\ used.limit \in Nat /\ used.n <= used.limit

\* What was read of the sources, what was derived of that, an archive that fits
\* every limit with the envelope that is still to come, and what binds both.
Snapped ==
    /\ snaps \in Seq(Range(snaps)) /\ Len(snaps) <= Len(case.inputs)
    /\ \A i \in DOMAIN snaps : Weighs(snaps[i])
Derived ==
    /\ Len(snaps) = Len(case.inputs)
    /\ man = DeriveManifest(case.inputs, snaps) /\ ManifestLen(man) <= lim1.manifest
Archived ==
    /\ arc = ArchiveOf(case.inputs, snaps)
    /\ ArchiveLen(arc) <= lim1.archive /\ ArchiveLen(arc) <= lim1.disk
    /\ ManifestLen(man) + ArchiveLen(arc) + Overhead <= lim1.package
BoundTo ==
    /\ PreparedVerdict(man, arc, case) = "ok"
    /\ binding = Binding(man, arc, case.req, case.arch)

Preparation ==
    /\ pc \in Making =>
         DOMAIN source = 1..Len(case.inputs) /\ \A i \in DOMAIN source : Weighs(source[i])
    /\ Snapped
    /\ pc \notin {"start", "stage"} => Derived
    /\ pc \notin {"start", "stage", "manifest"} => Archived
    /\ pc \notin Making => BoundTo

\* What is held is what its binding names, and that is job one's or the one
\* that was expected.
Held ==
    /\ pc \in Holding =>
         /\ handle.man = handle.binding.manifest_sha256 /\ handle.arc = handle.binding.archive_sha256
         /\ handle.binding \in {binding, Expected} /\ Describes(handle.man, handle.arc)
    /\ (phase \in {"prepare", "persist"} /\ pc \in Holding) => handle.binding = binding
    /\ pc = "copyA" => handle = [man |-> Expected.manifest_sha256, arc |-> Nothing, binding |-> Expected]
    /\ pc = "revalidate" =>
         handle = [man |-> Expected.manifest_sha256, arc |-> Expected.archive_sha256, binding |-> Expected]
    /\ pc = "signed" => DOMAIN signed = Algorithms
    /\ pc \in {"finalized", "published"} =>
         /\ final = Container(handle, signed)
         /\ handle.man = Expected.manifest_sha256 /\ handle.arc = Expected.archive_sha256
         /\ RequestDifference(Expected, ask.req, ask.arch) = "ok"
    /\ pc = "published" => published = final

\* The inodes of the preparation directory: each is one file's, and the ones
\* nobody made yet are the last.
Slot == [manifest |-> 1, archive |-> 2, record |-> 3]
Sized(f, entry) == entry.kind \in {"regular", "symlink", "other"} /\ FileLen(f, entry.bytes) \in Nat
MayName(f) == {Slot[f]} \cup 4..(3 + edits)

FilesApart ==
    phase = "reopen" =>
        /\ names \in [FileNames -> 0..(3 + edits)] /\ opened \in [FileNames -> 0..(3 + edits)]
        /\ DOMAIN inode = Inodes
        /\ \A i \in Inodes : i <= 3 => inode[i].kind # "none"
        /\ \A i \in Inodes : i > 3 + edits => inode[i].kind = "none"
        /\ \A f \in FileNames : \A i \in {names[f], opened[f]} \ {0} : i \in MayName(f) /\ Sized(f, inode[i])
        /\ \A f, g \in FileNames : f # g => {names[f], opened[f]} \cap {names[g], opened[g]} \subseteq {0}

\* How far reopen_prepared has come through the three files.
Opening ==
    /\ (phase \in {"prepare", "persist"} \/ pc \in {"request", "directory"}) =>
         seen = 0 /\ opened = [f \in FileNames |-> 0]
    /\ pc = "files" => opened["record"] = 0 /\ (opened["archive"] # 0 => opened["manifest"] # 0)
    /\ pc \in Copying => \A f \in FileNames : opened[f] # 0

\* A directory that nobody altered is what was persisted.
AsWritten ==
    [i \in Inodes |-> CASE i = 1 -> File(man) [] i = 2 -> File(arc)
                        [] i = 3 -> File(Emit(binding)) [] OTHER -> Empty]
Persisted ==
    /\ phase = "prepare" => inode = [i \in Inodes |-> Empty]
    /\ phase \in {"prepare", "persist"} => ~touched
    /\ (pc = "persisted" \/ phase = "reopen") =>
         2 * (ManifestLen(man) + ArchiveLen(arc) + RecordLen) <= lim1.disk
    /\ (pc = "persisted" \/ (phase = "reopen" /\ ~touched)) =>
         /\ names = Slot /\ place = "safe"
         /\ inode = AsWritten
         /\ \A f \in FileNames : opened[f] \in {0, Slot[f]}
         /\ pc = "files" => seen \in {0, Slot[NextFile]}

\* What a refusal says where nothing changed on the way.
LateRefusals ==
    (pc = "refused" /\ phase # "prepare" /\ Honest) => (verdict = "RetainedDisk" /\ phase # "reopen")

JInv ==
    /\ Underway /\ DiskHeld /\ LateRefusals /\ UploadAgrees
    /\ pc # "refused" => Preparation /\ Held /\ FilesApart /\ Opening /\ Persisted
-----------------------------------------------------------------------------
(* Preparing *)

\* What is assumed of a job, of this one.
LEMMA CaseFacts ==
  ASSUME case \in Cases
  PROVE  /\ Limited(lim1) /\ Limited(ask.lim)
         /\ case.inputs \in Seq(Range(case.inputs)) /\ case.source \in Seq(Range(case.source))
         /\ Len(case.source) = Len(case.inputs) /\ \A i \in DOMAIN case.source : Weighs(case.source[i])
  BY PipelineAssumption DEF lim1, ask

\* What was derived is what the snapshots make.
LEMMA JobIsMade ==
  ASSUME Snapped, Derived
  PROVE  Made(man, ArchiveOf(case.inputs, snaps))
  BY DEF Snapped, Derived, Made

\* Both preparations there may be are made.
LEMMA BothAreMade ==
  ASSUME case \in Cases, Snapped, Derived, Archived
  PROVE  Made(man, arc) /\ Made(OtherManifest, OtherArchive)
  BY JobIsMade, OtherIsMade DEF Snapped, Derived, Archived

\* What is held within the limit leaves the most held within it.
LEMMA HoldsWithin ==
  ASSUME DiskHeld, NEW n \in Nat, n <= Lim.disk, Lim.disk \in Nat, Holds(n)
  PROVE  DiskHeld'
  <1>1. /\ used'.n = (IF used.limit = Lim.disk /\ used.n > n THEN used.n ELSE n)
        /\ used'.limit = Lim.disk
    BY DEF Holds
  <1>2. used.n \in Nat /\ used.limit \in Nat /\ used.n <= used.limit
    BY DEF DiskHeld
  <1>3. used'.n \in Nat /\ used'.n <= Lim.disk
    BY <1>1, <1>2
  <1> QED BY <1>1, <1>3 DEF DiskHeld

\* A call that is refused leaves only its refusal to be explained.
LEMMA Refusing ==
  ASSUME JInv, pc' = "refused", Underway', DiskHeld', LateRefusals', delivered' = delivered
  PROVE  JInv'
  <1>1. UploadAgrees'
    BY DEF JInv, UploadAgrees
  <1> QED BY <1>1 DEF JInv

\* A refusal while the package is made has nothing to explain.
LEMMA MakingRefused ==
  ASSUME JInv, pc \in Making, pc' = "refused",
         UNCHANGED <<case, phase, edits, touched, used, delivered>>
  PROVE  JInv'
  <1>1. phase = "prepare" /\ Underway /\ DiskHeld
    BY DEF JInv, Underway, PhaseAndStep, Making, Copying
  <1>2. Underway' /\ DiskHeld' /\ LateRefusals'
    BY <1>1 DEF Underway, PhaseAndStep, DiskHeld, LateRefusals
  <1> QED BY <1>2, Refusing

\* A step that leaves a package in the making.
LEMMA StillMaking ==
  ASSUME JInv, pc \in Making, pc' \in Making, DiskHeld', Preparation', edits' \in 0..MaxEdits,
         UNCHANGED <<case, phase, directory, reading, touched, delivered>>
  PROVE  JInv'
  <1>1. phase = "prepare" /\ Underway /\ Opening /\ Persisted /\ UploadAgrees
    BY DEF JInv, Underway, PhaseAndStep, Making, Copying
  <1>2. Underway'
    BY <1>1 DEF Underway, PhaseAndStep
  <1>3. LateRefusals' /\ UploadAgrees'
    BY <1>1 DEF LateRefusals, UploadAgrees
  <1>4. Held'
    BY <1>1 DEF Held, Making, Holding
  <1>5. FilesApart'
    BY <1>1 DEF FilesApart
  <1>6. Opening'
    BY <1>1 DEF Opening, Making, Copying, reading
  <1>7. Persisted'
    BY <1>1 DEF Persisted, Making, directory
  <1> QED BY <1>2, <1>3, <1>4, <1>5, <1>6, <1>7 DEF JInv

\* prepare_package counts the inputs.
LEMMA BeginHolds ==
  ASSUME JInv, Begin
  PROVE  JInv'
  <1>1. pc = "start" /\ pc \in Making /\ Preparation /\ Underway /\ DiskHeld
    BY DEF Begin, JInv, Making
  <1>2. CASE pc' = "refused"
    BY <1>1, <1>2, MakingRefused DEF Begin, outcome
  <1>3. CASE pc' # "refused"
    <2>1. pc' = "stage" /\ UNCHANGED <<case, phase, job1, directory, reading, used, edits, touched, delivered>>
      BY <1>3 DEF Begin, Continue, Refuse, outcome
    <2>2. Preparation'
      BY <1>1, <2>1 DEF Preparation, Snapped, Making, job1
    <2>3. DiskHeld' /\ edits' \in 0..MaxEdits /\ pc' \in Making
      BY <1>1, <2>1 DEF DiskHeld, Underway, Making
    <2> QED BY <1>1, <2>1, <2>2, <2>3, StillMaking
  <1> QED BY <1>2, <1>3

\* A list with one element more is a list.
LEMMA AppendsToRange ==
  ASSUME NEW s, s \in Seq(Range(s)), NEW b
  PROVE  LET t == Append(s, b)
         IN /\ t \in Seq(Range(t)) /\ Len(t) = Len(s) + 1 /\ DOMAIN t = 1..(Len(s) + 1)
            /\ t[Len(s) + 1] = b /\ \A i \in DOMAIN s : t[i] = s[i]
  <1> DEFINE S == Range(s) \cup {b}
             t == Append(s, b)
             n == Len(s) + 1
  <1>1. s \in Seq(S)
    OBVIOUS
  <1>2. /\ Len(t) = n /\ DOMAIN t = 1..n /\ t[n] = b /\ \A i \in DOMAIN s : t[i] = s[i]
        /\ n \in Nat /\ t \in Seq(S)
    BY <1>1
  <1> HIDE DEF t, n
  <1>3. t = [i \in 1..n |-> t[i]]
    BY <1>2
  <1>4. t \in Seq(Range(t))
    BY <1>2, <1>3, ListRange
  <1> QED BY <1>2, <1>4 DEF t, n

\* stage_inputs leaves a total within the limit.
LEMMA StageInputHolds ==
  ASSUME JInv, StageInput
  PROVE  JInv'
  <1> DEFINE n == Len(snaps) + 1
             b == source[n]
             before == SumOf(BlobLens(snaps))
             v == Pass(b.len, <<<<"OuterUncompressedTotal", lim1.total - before>>,
                                <<"RetainedDisk", lim1.disk - before>>>>)
  <1>1. pc = "stage" /\ pc \in Making /\ Preparation /\ Underway /\ DiskHeld /\ phase = "prepare"
    BY DEF StageInput, JInv, Underway, PhaseAndStep, Making, Copying
  <1>2. /\ Snapped /\ DOMAIN source = 1..Len(case.inputs) /\ \A i \in DOMAIN source : Weighs(source[i])
    BY <1>1 DEF Preparation
  <1>3. /\ n \in DOMAIN source /\ Len(snaps) < Len(case.inputs)
        /\ snaps' = Append(snaps, b) /\ Continue(v, "stage")
        /\ v = "ok" => Holds(before + b.len)
        /\ v # "ok" => UNCHANGED used
        /\ UNCHANGED <<case, phase, source, man, arc, binding, directory, reading, delivered, edits, touched>>
    <2>1. Len(snaps) \in Nat /\ Len(case.inputs) \in Nat
      BY <1>1, <1>2, CaseFacts DEF Snapped, Underway
    <2> QED BY <1>2, <2>1 DEF StageInput, outcome
  <1>4. b.len \in Nat /\ before \in Nat /\ lim1.total \in Nat /\ lim1.disk \in Nat
    <2>1. before \in Nat
      BY <1>2, SumOfLens DEF Snapped
    <2>2. case \in Cases
      BY <1>1 DEF Underway
    <2>3. Weighs(b)
      BY <1>2, <1>3
    <2> QED BY <2>1, <2>2, <2>3, CaseFacts DEF Weighs, Limited
  <1> HIDE DEF v, before
  <1>5. CASE v # "ok"
    <2>1. pc' = "refused"
      BY <1>3, <1>5 DEF Continue, Refuse
    <2> QED BY <1>1, <1>3, <1>5, <2>1, MakingRefused
  <1>6. CASE v = "ok"
    <2>1. pc' = "stage"
      BY <1>3, <1>6 DEF Continue
    <2>2. before + b.len <= lim1.disk
      <3> HIDE DEF b
      <3>1. v = IF b.len > lim1.total - before /\ lim1.total - before <= lim1.disk - before
                THEN "OuterUncompressedTotal"
                ELSE IF b.len > lim1.disk - before /\ lim1.disk - before <= lim1.total - before
                THEN "RetainedDisk" ELSE "ok"
        BY <1>4, PassTwo DEF v
      <3> QED BY <1>4, <1>6, <3>1
    <2>3. DiskHeld'
      <3>1. Lim = lim1
        BY <1>1 DEF Lim, lim1
      <3>2. Holds(before + b.len)
        BY <1>3, <1>6
      <3> HIDE DEF b
      <3>3. before + b.len \in Nat
        BY <1>4
      <3> QED BY <1>1, <1>4, <2>2, <3>1, <3>2, <3>3, HoldsWithin
    <2>4. Snapped'
      <3>1. Weighs(b)
        BY <1>2, <1>3
      <3> HIDE DEF b
      <3>2. /\ snaps' \in Seq(Range(snaps')) /\ Len(snaps') = Len(snaps) + 1
            /\ DOMAIN snaps' = 1..(Len(snaps) + 1)
            /\ snaps'[Len(snaps) + 1] = b /\ \A i \in DOMAIN snaps : snaps'[i] = snaps[i]
        BY <1>2, <1>3, AppendsToRange DEF Snapped
      <3>3. Len(snaps) \in Nat /\ Len(case.inputs) \in Nat /\ DOMAIN snaps = 1..Len(snaps)
        BY <1>1, <1>2, CaseFacts DEF Snapped, Underway
      <3>4. \A i \in DOMAIN snaps' : Weighs(snaps'[i])
        BY <1>2, <3>1, <3>2, <3>3 DEF Snapped
      <3> QED BY <1>3, <3>2, <3>3, <3>4 DEF Snapped
    <2>5. Preparation'
      BY <1>1, <1>2, <1>3, <2>1, <2>4 DEF Preparation, Making
    <2>6. edits' \in 0..MaxEdits /\ pc' \in Making
      BY <1>1, <1>3, <2>1 DEF Underway, Making
    <2> QED BY <1>1, <1>3, <2>3, <2>5, <2>6, StillMaking
  <1> QED BY <1>5, <1>6

\* A source edited is another source.
LEMMA EditSourceHolds ==
  ASSUME JInv, NEW i \in DOMAIN source, NEW b \in Blobs, EditSource(i, b)
  PROVE  JInv'
  <1>1. pc \in Making /\ Preparation /\ Underway /\ DiskHeld
    BY DEF EditSource, JInv, Making
  <1>2. /\ source' = [source EXCEPT ![i] = b] /\ edits' = edits + 1 /\ edits < MaxEdits
        /\ UNCHANGED <<case, pc, phase, snaps, man, arc, binding, directory, reading, used, touched, delivered>>
    BY DEF EditSource, outcome
  <1>3. /\ DOMAIN source = 1..Len(case.inputs) /\ \A j \in DOMAIN source : Weighs(source[j])
    BY <1>1 DEF Preparation
  <1>4. Weighs(b)
    BY PipelineAssumption
  <1>5. DOMAIN source' = 1..Len(case.inputs) /\ \A j \in DOMAIN source' : Weighs(source'[j])
    BY <1>2, <1>3, <1>4
  <1>6. Preparation'
    BY <1>1, <1>2, <1>5 DEF Preparation, Snapped, Derived, Archived, BoundTo, lim1
  <1>7. DiskHeld' /\ edits' \in 0..MaxEdits /\ pc' \in Making
    BY <1>1, <1>2, PipelineAssumption DEF DiskHeld, Underway
  <1> QED BY <1>1, <1>2, <1>6, <1>7, StillMaking

\* build_manifest leaves room for the envelope.
LEMMA BuildManifestHolds ==
  ASSUME JInv, BuildManifest
  PROVE  JInv'
  <1> DEFINE m == DeriveManifest(case.inputs, snaps)
             bare == IF lim1.package < Overhead THEN "Package" ELSE "ok"
             len == Pass(ManifestLen(m), <<<<"RawManifest", lim1.manifest>>,
                                           <<"Package", lim1.package - Overhead>>>>)
             v == FirstOf(<<bare, ParseManifest(m), len>>)
  <1>1. pc = "stage" /\ pc \in Making /\ Preparation /\ Snapped /\ Underway /\ DiskHeld /\ case \in Cases
    BY DEF BuildManifest, JInv, Underway, Making, Preparation
  <1>2. /\ Len(snaps) = Len(case.inputs) /\ man' = m /\ Continue(v, "manifest")
        /\ UNCHANGED <<case, phase, source, snaps, arc, binding, directory, reading, delivered,
                       used, edits, touched>>
    BY DEF BuildManifest, outcome
  <1>3. ManifestLen(m) \in Nat
    <2>1. Made(m, ArchiveOf(case.inputs, snaps))
      BY <1>1, <1>2 DEF Made, Snapped
    <2> QED BY <1>1, <2>1, MadeIs
  <1>4. lim1.manifest \in Nat /\ lim1.package \in Nat
    BY <1>1, CaseFacts DEF Limited
  <1> HIDE DEF m
  <1>5. CASE v # "ok"
    <2>1. pc' = "refused"
      BY <1>2, <1>5 DEF Continue, Refuse
    <2> QED BY <1>1, <1>2, <2>1, MakingRefused
  <1>6. CASE v = "ok"
    <2>1. pc' = "manifest"
      BY <1>2, <1>6 DEF Continue
    <2>2. len = "ok"
      <3> HIDE DEF len, bare
      <3> QED BY <1>6, OfThree
    <2>3. ManifestLen(m) <= lim1.manifest
      <3> DEFINE ceiling == lim1.package - Overhead
      <3>1. ceiling \in Int
        BY <1>4, ContentsAssumption
      <3> HIDE DEF ceiling
      <3>2. len = IF ManifestLen(m) > lim1.manifest /\ lim1.manifest <= ceiling THEN "RawManifest"
                  ELSE IF ManifestLen(m) > ceiling /\ ceiling <= lim1.manifest THEN "Package" ELSE "ok"
        BY <1>3, <1>4, <3>1, PassTwo DEF ceiling
      <3> QED BY <1>3, <1>4, <2>2, <3>1, <3>2
    <2>4. Preparation'
      BY <1>1, <1>2, <2>1, <2>3 DEF Preparation, Snapped, Derived, Making, m, lim1
    <2>5. DiskHeld' /\ edits' \in 0..MaxEdits /\ pc' \in Making
      BY <1>1, <1>2, <2>1 DEF DiskHeld, Underway, Making
    <2> QED BY <1>1, <1>2, <2>4, <2>5, StillMaking
  <1> QED BY <1>5, <1>6

\* build_archive leaves an archive within each of its limits.
LEMMA BuildArchiveHolds ==
  ASSUME JInv, BuildArchive
  PROVE  JInv'
  <1> DEFINE a == ArchiveOf(case.inputs, snaps)
             made == SumOf(BlobLens(snaps))
             n == ArchiveLen(a)
             v == Pass(n, <<<<"CompressedArchive", lim1.archive>>, <<"Package", PackageAllowance(man, lim1)>>,
                            <<"RetainedDisk", lim1.disk - made>>>>)
  <1>1. /\ pc = "manifest" /\ pc \in Making /\ Preparation /\ Snapped /\ Derived /\ Underway /\ DiskHeld
        /\ case \in Cases /\ phase = "prepare"
    BY DEF BuildArchive, JInv, Underway, PhaseAndStep, Making, Copying, Preparation
  <1>2. /\ arc' = a /\ Continue(v, "validate")
        /\ v = "ok" => Holds(made + n)
        /\ v # "ok" => UNCHANGED used
        /\ UNCHANGED <<case, phase, source, snaps, man, binding, directory, reading, delivered, edits, touched>>
    BY DEF BuildArchive, outcome
  <1>3. n \in Nat /\ ManifestLen(man) \in Nat /\ made \in Nat
    <2>1. Made(man, a)
      BY <1>1, JobIsMade
    <2>2. n \in Nat /\ ManifestLen(man) \in Nat
      BY <1>1, <2>1, MadeIs
    <2> QED BY <1>1, <2>2, SumOfLens DEF Snapped
  <1>4. lim1.archive \in Nat /\ lim1.package \in Nat /\ lim1.disk \in Nat
    BY <1>1, CaseFacts DEF Limited
  <1>5. CASE v # "ok"
    <2>1. pc' = "refused"
      BY <1>2, <1>5 DEF Continue, Refuse
    <2> QED BY <1>1, <1>2, <1>5, <2>1, MakingRefused
  <1>6. CASE v = "ok"
    <2>1. pc' = "validate"
      BY <1>2, <1>6 DEF Continue
    <2>2. n <= lim1.archive /\ ManifestLen(man) + n + Overhead <= lim1.package /\ made + n <= lim1.disk
      <3> DEFINE allowed == PackageAllowance(man, lim1)
      <3>1. allowed = lim1.package - ManifestLen(man) - Overhead
        BY DEF PackageAllowance
      <3> HIDE DEF n, made, allowed
      <3>2. allowed \in Int /\ lim1.disk - made \in Int
        BY <1>3, <1>4, <3>1, ContentsAssumption
      <3>3. n <= lim1.archive /\ n <= allowed /\ n <= lim1.disk - made
        BY <1>3, <1>4, <1>6, <3>2, PassThree DEF allowed
      <3> QED BY <1>3, <1>4, <3>1, <3>3, ContentsAssumption
    <2>3. DiskHeld'
      <3>1. Lim = lim1
        BY <1>1 DEF Lim, lim1
      <3>2. Holds(made + n)
        BY <1>2, <1>6
      <3> HIDE DEF n, made
      <3> QED BY <1>1, <1>3, <1>4, <2>2, <3>1, <3>2, HoldsWithin
    <2>4. n <= lim1.disk
      <3> HIDE DEF n, made
      <3> QED BY <1>3, <1>4, <2>2
    <2>5. Archived'
      BY <1>2, <2>2, <2>4 DEF Archived, lim1
    <2>6. Preparation'
      BY <1>1, <1>2, <2>1, <2>5 DEF Preparation, Snapped, Derived, Making, lim1
    <2>7. edits' \in 0..MaxEdits /\ pc' \in Making
      BY <1>1, <1>2, <2>1 DEF Underway, Making
    <2> QED BY <1>1, <1>2, <2>3, <2>6, <2>7, StillMaking
  <1> QED BY <1>5, <1>6

\* What a preparation that passed has shown.
LEMMA PreparedPasses ==
  ASSUME case \in Cases, NEW m, NEW a, PreparedVerdict(m, a, case) = "ok"
  PROVE  /\ Validate(m, a, case.req, case.arch, lim1, lim1.disk - ArchiveLen(a)) = "ok"
         /\ RecordLen <= lim1.record
  <1> DEFINE valid == Validate(m, a, case.req, case.arch, lim1, lim1.disk - ArchiveLen(a))
             ids == ValidateIdentifiers(Binding(m, a, case.req, case.arch))
             size == IF RecordLen > lim1.record THEN "PreparationRecord" ELSE "ok"
  <1>1. FirstOf(<<valid, ids, size>>) = "ok"
    BY DEF PreparedVerdict, lim1
  <1>2. size = "ok" => ~(RecordLen > lim1.record)
    OBVIOUS
  <1>3. lim1.record \in Nat
    BY CaseFacts DEF Limited
  <1> HIDE DEF valid, ids, size
  <1>4. valid = "ok" /\ size = "ok"
    BY <1>1, OfThree
  <1> QED BY <1>2, <1>3, <1>4, ContentsAssumption DEF valid

\* bind names what was validated, and validated means described.
LEMMA BindHolds ==
  ASSUME JInv, Bind
  PROVE  JInv'
  <1> DEFINE v == PreparedVerdict(man, arc, case)
             b == Binding(man, arc, case.req, case.arch)
  <1>1. /\ pc = "validate" /\ pc \in Making /\ Preparation /\ Snapped /\ Derived /\ Archived
        /\ Underway /\ DiskHeld /\ Opening /\ Persisted /\ UploadAgrees
        /\ case \in Cases /\ phase = "prepare"
    BY DEF Bind, JInv, Underway, PhaseAndStep, Making, Copying, Preparation
  <1>2. /\ Continue(v, "prepared")
        /\ v = "ok" => /\ binding' = b /\ handle' = [man |-> man, arc |-> arc, binding |-> b]
                       /\ Holds(ArchiveLen(arc) + Unpacked(arc))
        /\ v # "ok" => UNCHANGED used
        /\ UNCHANGED <<case, phase, source, snaps, man, arc, directory, reading, delivered, edits, touched>>
    BY DEF Bind, outcome
  <1> HIDE DEF b
  <1>3. CASE v # "ok"
    <2>1. pc' = "refused"
      BY <1>2, <1>3 DEF Continue, Refuse
    <2> QED BY <1>1, <1>2, <1>3, <2>1, MakingRefused
  <1>4. CASE v = "ok"
    <2>1. /\ pc' = "prepared" /\ binding' = b /\ handle' = [man |-> man, arc |-> arc, binding |-> b]
          /\ Holds(ArchiveLen(arc) + Unpacked(arc))
      BY <1>2, <1>4 DEF Continue
    <2>2. Made(man, arc) /\ ArchiveLen(arc) \in Nat
      BY <1>1, BothAreMade, MadeIs
    <2>3. Limited(lim1) /\ lim1.disk \in Nat
      BY <1>1, CaseFacts DEF Limited
    <2>4. /\ Describes(man, arc) /\ Unpacked(arc) \in Nat /\ Unpacked(arc) <= lim1.disk - ArchiveLen(arc)
      <3>1. lim1.disk - ArchiveLen(arc) \in Int
        BY <2>2, <2>3
      <3> QED BY <1>1, <1>4, <2>2, <2>3, <3>1, PreparedPasses, ValidIsDescribed
    <2>5. DiskHeld'
      <3>1. Lim = lim1
        BY <1>1 DEF Lim, lim1
      <3>2. ArchiveLen(arc) + Unpacked(arc) \in Nat /\ ArchiveLen(arc) + Unpacked(arc) <= lim1.disk
        BY <2>2, <2>3, <2>4
      <3> QED BY <1>1, <2>1, <2>3, <3>1, <3>2, HoldsWithin
    <2>6. Underway'
      BY <1>1, <1>2, <2>1 DEF Underway, PhaseAndStep
    <2>7. Preparation'
      BY <1>1, <1>2, <1>4, <2>1 DEF Preparation, Snapped, Derived, Archived, BoundTo, Making, lim1, b
    <2>8. Held'
      <3>1. b.manifest_sha256 = man /\ b.archive_sha256 = arc
        BY DEF b, Binding
      <3>2. /\ handle'.man = man /\ handle'.arc = arc /\ handle'.binding = b
        BY <2>1
      <3> QED BY <1>1, <1>2, <2>1, <2>4, <3>1, <3>2 DEF Held, Holding
    <2>9. Opening' /\ FilesApart'
      BY <1>1, <1>2, <2>1 DEF Opening, FilesApart, Copying, reading
    <2>10. Persisted'
      BY <1>1, <1>2, <2>1 DEF Persisted, directory
    <2>11. LateRefusals' /\ UploadAgrees'
      BY <1>1, <1>2, <2>1 DEF LateRefusals, UploadAgrees
    <2> QED BY <2>5, <2>6, <2>7, <2>8, <2>9, <2>10, <2>11 DEF JInv
  <1> QED BY <1>3, <1>4
-----------------------------------------------------------------------------
(* After the preparation *)

\* What job one made stays what it is.
LEMMA PreparationStays ==
  ASSUME Preparation, pc \notin Making, pc' \notin Making, UNCHANGED <<case, job1>>
  PROVE  Preparation' /\ Expected' = Expected
  <1>1. Preparation'
    BY DEF Preparation, Snapped, Derived, Archived, BoundTo, Making, lim1, job1
  <1>2. Expected' = Expected
    BY DEF Expected, OtherBinding, OtherManifest, OtherArchive, OtherBlobs, ask, job1
  <1> QED BY <1>1, <1>2

\* What there is once job one is done.
LEMMA Afterwards ==
  ASSUME JInv, pc \notin Making \cup {"refused"}
  PROVE  /\ case \in Cases /\ Limited(lim1) /\ Limited(ask.lim)
         /\ Preparation /\ Snapped /\ Derived /\ Archived /\ BoundTo
         /\ Made(man, arc) /\ Made(OtherManifest, OtherArchive)
         /\ Len(case.inputs) # 0
  <1>1. /\ case \in Cases /\ Preparation
    BY DEF JInv, Underway
  <1>2. Snapped /\ Derived /\ Archived /\ BoundTo
    BY <1>1 DEF Preparation, Making
  <1>3. Limited(lim1) /\ Limited(ask.lim)
    BY <1>1, CaseFacts
  <1>4. Made(man, arc) /\ Made(OtherManifest, OtherArchive)
    BY <1>1, <1>2, BothAreMade
  <1>5. ArchiveLen(arc) \in Nat /\ Len(arc.members) = Len(case.inputs)
    BY <1>1, <1>4, MadeIs
  <1>6. arc.members # <<>>
    <2>1. Validate(man, arc, case.req, case.arch, lim1, lim1.disk - ArchiveLen(arc)) = "ok"
      BY <1>1, <1>2, PreparedPasses DEF BoundTo
    <2>2. lim1.disk - ArchiveLen(arc) \in Int
      BY <1>3, <1>5 DEF Limited
    <2> QED BY <1>1, <1>3, <1>4, <2>1, <2>2, ValidIsDescribed
  <1>7. Len(case.inputs) # 0
    <2>1. Weighed(arc)
      BY <1>1, <1>4, MadeIs
    <2>2. arc.members \in Seq(Range(arc.members))
      BY <2>1 DEF Weighed
    <2> QED BY <1>5, <1>6, <2>2
  <1> QED BY <1>1, <1>2, <1>3, <1>4, <1>7

\* Whatever was made weighs, and holds something.
LEMMA MadeWeighs ==
  ASSUME case \in Cases, Len(case.inputs) # 0, NEW m, NEW a, Made(m, a)
  PROVE  /\ Listing(m) /\ Weighed(a) /\ a.members # <<>>
         /\ ManifestLen(m) \in Nat /\ ArchiveLen(a) \in Nat
  <1>1. /\ Listing(m) /\ Weighed(a) /\ ManifestLen(m) \in Nat /\ ArchiveLen(a) \in Nat
        /\ Len(a.members) = Len(case.inputs)
    BY MadeIs
  <1>2. a.members # <<>>
    BY <1>1
  <1> QED BY <1>1, <1>2

\* The two bindings there are bind what was made.
LEMMA BindingsBind ==
  ASSUME JInv, pc \notin Making \cup {"refused"}, NEW b \in {binding, Expected}
  PROVE  /\ Made(b.manifest_sha256, b.archive_sha256)
         /\ b = Binding(b.manifest_sha256, b.archive_sha256, case.req, case.arch)
         /\ b.manifest_length = ManifestLen(b.manifest_sha256)
         /\ b.archive_length = ArchiveLen(b.archive_sha256)
  <1>1. b = binding \/ b = OtherBinding
    BY DEF Expected
  <1>2. /\ Made(man, arc) /\ Made(OtherManifest, OtherArchive)
        /\ binding = Binding(man, arc, case.req, case.arch)
    BY Afterwards DEF BoundTo
  <1>3. \A m, a : LET x == Binding(m, a, case.req, case.arch)
                  IN /\ x.manifest_sha256 = m /\ x.archive_sha256 = a
                     /\ x.manifest_length = ManifestLen(m) /\ x.archive_length = ArchiveLen(a)
    BY DEF Binding
  <1>4. CASE b = binding
    BY <1>2, <1>3, <1>4
  <1>5. CASE b = OtherBinding
    <2>1. b = Binding(OtherManifest, OtherArchive, case.req, case.arch)
      BY <1>5 DEF OtherBinding
    <2> QED BY <1>2, <1>3, <2>1
  <1> QED BY <1>1, <1>4, <1>5

\* The first job's binding names its manifest and its archive.
LEMMA JobOnesBinding ==
  ASSUME JInv, pc \notin Making \cup {"refused"}
  PROVE  binding.manifest_sha256 = man /\ binding.archive_sha256 = arc
  <1>1. binding = Binding(man, arc, case.req, case.arch)
    BY Afterwards DEF BoundTo
  <1> QED BY <1>1 DEF Binding

\* What persist refuses, it refuses for the disk; and it holds everything twice.
LEMMA PersistNeeds ==
  ASSUME JInv, pc = "prepared", phase = "prepare", NEW v, v = PersistVerdict(handle, lim1)
  PROVE  /\ handle.man = man /\ handle.arc = arc /\ handle.binding = binding
         /\ v \in {"ok", "RetainedDisk"}
         /\ LET all == 2 * (ArchiveLen(arc) + ManifestLen(man) + RecordLen)
            IN all \in Nat /\ (v = "ok" => all <= lim1.disk)
  <1> DEFINE a == ArchiveLen(arc)
             m == ManifestLen(man)
             room == lim1.disk - a
             p == Pass(RecordLen, <<<<"PreparationRecord", lim1.record>>, <<"RetainedDisk", room>>>>)
             q == Pass(m, <<<<"RawManifest", lim1.manifest>>, <<"RetainedDisk", room - RecordLen>>>>)
             r == Pass(m + a + RecordLen, <<<<"RetainedDisk", room - RecordLen - m>>>>)
  <1>1. /\ pc \notin Making \cup {"refused"} /\ pc \in Holding /\ Held
    BY DEF JInv, Making, Holding
  <1>2. handle.man = man /\ handle.arc = arc /\ handle.binding = binding
    BY <1>1, JobOnesBinding DEF Held
  <1>3. /\ a \in Nat /\ m \in Nat /\ RecordLen \in Nat /\ m <= lim1.manifest /\ RecordLen <= lim1.record
    <2>1. /\ case \in Cases /\ Len(case.inputs) # 0 /\ Made(man, arc) /\ Derived /\ BoundTo
      BY <1>1, Afterwards
    <2>2. a \in Nat /\ m \in Nat
      BY <2>1, MadeWeighs
    <2>3. RecordLen <= lim1.record
      BY <2>1, PreparedPasses DEF BoundTo
    <2> QED BY <2>1, <2>2, <2>3, ContentsAssumption DEF Derived
  <1>4. lim1.disk \in Nat /\ lim1.record \in Nat /\ lim1.manifest \in Nat
    BY <1>1, Afterwards DEF Limited
  <1>5. v = FirstOf(<<p, q, r>>)
    BY <1>2 DEF PersistVerdict
  <1> HIDE DEF a, m
  <1>6. p \in {"ok", "RetainedDisk"}
    <2>1. p = IF RecordLen > lim1.record /\ lim1.record <= room THEN "PreparationRecord"
              ELSE IF RecordLen > room /\ room <= lim1.record THEN "RetainedDisk" ELSE "ok"
      BY <1>3, <1>4, PassTwo
    <2> QED BY <1>3, <1>4, <2>1
  <1>7. q \in {"ok", "RetainedDisk"}
    <2> DEFINE left == room - RecordLen
    <2>1. left \in Int
      BY <1>3, <1>4
    <2> HIDE DEF left
    <2>2. q = IF m > lim1.manifest /\ lim1.manifest <= left THEN "RawManifest"
              ELSE IF m > left /\ left <= lim1.manifest THEN "RetainedDisk" ELSE "ok"
      BY <1>3, <1>4, <2>1, PassTwo DEF left
    <2> QED BY <1>3, <1>4, <2>1, <2>2
  <1>8. r = IF m + a + RecordLen > room - RecordLen - m THEN "RetainedDisk" ELSE "ok"
    <2>1. m + a + RecordLen \in Int /\ room - RecordLen - m \in Int
      BY <1>3, <1>4
    <2> QED BY <2>1, PassOne
  <1> HIDE DEF p, q, r
  <1>9. v \in {"ok", "RetainedDisk"} /\ (v = "ok" => r = "ok")
    BY <1>5, <1>6, <1>7, <1>8, OfThree
  <1>10. r = "ok" => 2 * (a + m + RecordLen) <= lim1.disk
    BY <1>3, <1>4, <1>8
  <1>11. 2 * (a + m + RecordLen) \in Nat
    BY <1>3
  <1> QED BY <1>2, <1>9, <1>10, <1>11 DEF a, m

\* persist writes what it holds, and needs twice that.
LEMMA PersistHolds ==
  ASSUME JInv, Persist
  PROVE  JInv'
  <1> DEFINE v == PersistVerdict(handle, lim1)
             all == 2 * (ArchiveLen(arc) + ManifestLen(man) + RecordLen)
  <1>1. /\ pc = "prepared" /\ phase = "prepare" /\ phase' = "persist"
        /\ pc \notin Making \cup {"refused"}
        /\ Continue(v, "persisted")
        /\ UNCHANGED <<case, job1, handle, reading, delivered, edits, touched>>
    BY DEF Persist, outcome, Making
  <1>2. /\ Underway /\ DiskHeld /\ Held /\ Opening /\ Persisted /\ Preparation /\ UploadAgrees
    BY <1>1 DEF JInv
  <1>3. /\ handle.man = man /\ handle.arc = arc /\ handle.binding = binding
        /\ v \in {"ok", "RetainedDisk"} /\ all \in Nat /\ (v = "ok" => all <= lim1.disk)
    BY <1>1, PersistNeeds
  <1>4. CASE v # "ok"
    <2>1. pc' = "refused" /\ verdict' = "RetainedDisk" /\ UNCHANGED used
      BY <1>1, <1>3, <1>4 DEF Persist, Continue, Refuse
    <2>2. Underway' /\ DiskHeld' /\ LateRefusals' /\ delivered' = delivered
      BY <1>1, <1>2, <2>1 DEF Underway, PhaseAndStep, DiskHeld, LateRefusals
    <2> QED BY <2>1, <2>2, Refusing
  <1>5. CASE v = "ok"
    <2>1. /\ pc' = "persisted" /\ Holds(all) /\ names' = Slot /\ place' = "safe"
          /\ inode' = [inode EXCEPT ![1] = File(man), ![2] = File(arc), ![3] = File(Emit(binding))]
      BY <1>1, <1>3, <1>5 DEF Persist, Continue, Slot
    <2>2. DiskHeld'
      <3>1. Lim = lim1 /\ lim1.disk \in Nat
        BY <1>1, Afterwards DEF Lim, lim1, Limited
      <3> HIDE DEF all
      <3> QED BY <1>2, <1>3, <1>5, <2>1, <3>1, HoldsWithin
    <2>3. Underway'
      BY <1>1, <1>2, <2>1 DEF Underway, PhaseAndStep
    <2>4. Preparation' /\ Expected' = Expected
      BY <1>1, <1>2, <2>1, PreparationStays DEF Making
    <2>5. Held'
      BY <1>1, <1>2, <2>1, <2>4 DEF Held, Holding, job1
    <2>6. Opening' /\ FilesApart' /\ LateRefusals' /\ UploadAgrees'
      BY <1>1, <1>2, <2>1 DEF Opening, FilesApart, LateRefusals, UploadAgrees, Copying, reading
    <2>7. inode' = AsWritten'
      <3>1. inode = [i \in Inodes |-> Empty]
        BY <1>1, <1>2 DEF Persisted
      <3>2. inode' = AsWritten
        BY <2>1, <3>1 DEF AsWritten
      <3>3. AsWritten' = AsWritten
        BY <1>1 DEF AsWritten, job1
      <3> QED BY <3>2, <3>3
    <2>8. Persisted'
      <3>1. 2 * (ManifestLen(man) + ArchiveLen(arc) + RecordLen) <= lim1.disk
        <4>1. /\ case \in Cases /\ Len(case.inputs) # 0 /\ Made(man, arc)
          BY <1>1, Afterwards
        <4>2. ManifestLen(man) \in Nat /\ ArchiveLen(arc) \in Nat /\ RecordLen \in Nat
          BY <4>1, MadeWeighs, ContentsAssumption
        <4> QED BY <1>3, <1>5, <4>2
      <3>2. opened = [f \in FileNames |-> 0] /\ ~touched
        BY <1>1, <1>2 DEF Opening, Persisted
      <3>3. \A f \in FileNames : opened[f] \in {0, Slot[f]}
        BY <3>2
      <3> QED BY <1>1, <2>1, <2>7, <3>1, <3>2, <3>3 DEF Persisted, job1, reading, lim1
    <2> QED BY <2>2, <2>3, <2>4, <2>5, <2>6, <2>8 DEF JInv
  <1> QED BY <1>4, <1>5

\* The three files weigh.
LEMMA WrittenIsSized ==
  ASSUME JInv, pc \notin Making \cup {"refused"}, NEW f \in FileNames
  PROVE  /\ Slot[f] \in Inodes /\ AsWritten[Slot[f]] = File(Original(f))
         /\ Sized(f, AsWritten[Slot[f]])
  <1>1. Slot[f] \in 1..3 /\ 1 \in Inodes /\ 2 \in Inodes /\ 3 \in Inodes
    BY PipelineAssumption DEF Slot, FileNames, Inodes
  <1>2. AsWritten[Slot[f]] = File(Original(f))
    BY <1>1 DEF AsWritten, Slot, FileNames, Original
  <1>3. FileLen(f, Original(f)) \in Nat
    <2>1. /\ case \in Cases /\ Len(case.inputs) # 0 /\ Made(man, arc)
      BY Afterwards
    <2>2. ManifestLen(man) \in Nat /\ ArchiveLen(arc) \in Nat
      BY <2>1, MadeWeighs
    <2>3. Emit(binding).len \in Nat
      BY ContentsAssumption DEF Emit
    <2> QED BY <2>2, <2>3 DEF FileLen, Original, FileNames
  <1>4. Slot[f] \in Inodes
    BY <1>1 DEF Slot, FileNames
  <1> QED BY <1>2, <1>3, <1>4 DEF Sized, File

\* The first job ends and leaves its directory.
LEMMA ForgetHolds ==
  ASSUME JInv, Forget
  PROVE  JInv'
  <1>1. /\ pc = "persisted" /\ phase = "persist" /\ pc' = "request" /\ phase' = "reopen"
        /\ used' = [n |-> 0, limit |-> ask.lim.disk]
        /\ pc \notin Making \cup {"refused"}
        /\ UNCHANGED <<case, job1, directory, reading, delivered, edits, touched>>
    BY DEF Forget, outcome, Making
  <1>2. /\ Underway /\ Held /\ Opening /\ Persisted /\ Preparation /\ UploadAgrees
    BY <1>1 DEF JInv
  <1>3. Underway'
    BY <1>1, <1>2 DEF Underway, PhaseAndStep, Copying
  <1>4. DiskHeld'
    BY <1>1, Afterwards DEF DiskHeld, Limited
  <1>5. Preparation' /\ Expected' = Expected
    BY <1>1, <1>2, PreparationStays DEF Making
  <1>6. Held'
    BY <1>1 DEF Held, Holding
  <1>7. /\ seen = 0 /\ opened = [f \in FileNames |-> 0] /\ names = Slot /\ inode = AsWritten
        /\ place = "safe" /\ ~touched
    BY <1>1, <1>2 DEF Opening, Persisted
  <1>8. Opening'
    BY <1>1, <1>7 DEF Opening, reading, Copying
  <1>9. Persisted'
    <2>1. AsWritten' = AsWritten
      BY <1>1 DEF AsWritten, job1
    <2>2. \A f \in FileNames : opened[f] \in {0, Slot[f]}
      BY <1>7
    <2> QED BY <1>1, <1>2, <1>7, <2>1, <2>2 DEF Persisted, directory, reading, job1, lim1
  <1>10. FilesApart'
    <2>1. edits \in Nat /\ edits <= MaxEdits /\ MaxEdits \in Nat
      BY <1>2, PipelineAssumption DEF Underway
    <2>2. names \in [FileNames -> 0..(3 + edits)] /\ opened \in [FileNames -> 0..(3 + edits)]
      BY <1>7, <2>1 DEF Slot, FileNames
    <2>3. DOMAIN inode = Inodes /\ \A i \in Inodes : i > 3 => inode[i].kind = "none"
      BY <1>7, <2>1 DEF AsWritten, Empty, Inodes
    <2>4. \A i \in Inodes : i <= 3 => inode[i].kind # "none"
      BY <1>7, <2>1 DEF AsWritten, File, Inodes
    <2>5. \A f \in FileNames : \A i \in {names[f], opened[f]} \ {0} : i \in MayName(f) /\ Sized(f, inode[i])
      BY <1>1, <1>7, WrittenIsSized DEF MayName
    <2>6. \A f, g \in FileNames : f # g => {names[f], opened[f]} \cap {names[g], opened[g]} \subseteq {0}
      BY <1>7 DEF Slot, FileNames
    <2>7. \A i \in Inodes : i > 3 + edits => inode[i].kind = "none"
      BY <2>1, <2>3 DEF Inodes
    <2>8. /\ names' = names /\ opened' = opened /\ inode' = inode /\ edits' = edits
      BY <1>1 DEF directory, reading
    <2> QED BY <2>2, <2>3, <2>4, <2>5, <2>6, <2>7, <2>8 DEF FilesApart, MayName
  <1>11. LateRefusals' /\ UploadAgrees'
    BY <1>1, <1>2 DEF LateRefusals, UploadAgrees
  <1> QED BY <1>3, <1>4, <1>5, <1>6, <1>8, <1>9, <1>10, <1>11 DEF JInv
-----------------------------------------------------------------------------
(* Reopening *)

\* Nobody altered the directory, and the second job asks what the first asked.
SameJob ==
    /\ ~touched /\ ask.expected = "own" /\ ask.req = case.req /\ ask.arch = case.arch
    /\ ask.lim = case.lim

\* A step of reopen_prepared that goes on.
LEMMA ReopenGoesOn ==
  ASSUME JInv, phase = "reopen", pc \notin {"refused", "prepared"}, pc' # "refused", PhaseAndStep',
         DiskHeld', Held', FilesApart', Opening',
         UNCHANGED <<case, phase, job1, directory, delivered, edits, touched>>,
         ~touched => /\ \A f \in FileNames : opened'[f] \in {0, Slot[f]}
                     /\ pc' = "files" => seen' \in {0, Slot[NextFile']}
  PROVE  JInv'
  <1>1. pc \notin Making /\ pc' \notin Making /\ Underway /\ Preparation /\ Persisted /\ UploadAgrees
    BY DEF JInv, Underway, PhaseAndStep, Making, Copying
  <1>2. Preparation'
    BY <1>1, PreparationStays
  <1>3. Underway'
    BY <1>1 DEF Underway
  <1>4. LateRefusals' /\ UploadAgrees'
    BY <1>1 DEF LateRefusals, UploadAgrees
  <1>5. AsWritten' = AsWritten
    BY DEF AsWritten, job1
  <1>6. Persisted'
    <2>1. pc' # "persisted" /\ pc # "persisted"
      BY <1>1 DEF PhaseAndStep, Underway, Copying
    <2>2. (2 * (ManifestLen(man) + ArchiveLen(arc) + RecordLen) <= lim1.disk)'
      BY <1>1 DEF Persisted, job1, lim1
    <2>3. ASSUME ~touched
          PROVE  names' = Slot /\ place' = "safe" /\ inode' = AsWritten'
      BY <1>1, <1>5, <2>3 DEF Persisted, directory
    <2> QED BY <2>1, <2>2, <2>3 DEF Persisted
  <1> QED BY <1>2, <1>3, <1>4, <1>6 DEF JInv

\* A step that is refused, and would not be for the same job.
LEMMA ReopenRefused ==
  ASSUME JInv, phase = "reopen", pc # "refused", pc' = "refused", DiskHeld', SameJob => verdict' = "Io",
         UNCHANGED <<case, phase, delivered, edits, touched>>
  PROVE  JInv'
  <1>1. Underway
    BY DEF JInv
  <1>2. Underway'
    BY <1>1 DEF Underway, PhaseAndStep
  <1>3. LateRefusals'
    BY DEF LateRefusals, Honest, SameJob, ask
  <1> QED BY <1>2, <1>3, Refusing

\* Where a step leaves the two names alone, the directory is as before.
LEMMA DirectoryStays ==
  ASSUME FilesApart, UNCHANGED <<phase, directory, edits, opened>>
  PROVE  FilesApart'
  BY DEF FilesApart, directory, MayName

\* The binding expected is compared with the request.
LEMMA ReopenRequestHolds ==
  ASSUME JInv, ReopenRequest
  PROVE  JInv'
  <1> DEFINE v == RequestDifference(Expected, ask.req, ask.arch)
  <1>1. /\ pc = "request" /\ phase = "reopen" /\ pc \notin Making \cup {"refused"}
        /\ Continue(v, "directory")
        /\ UNCHANGED <<case, phase, job1, handle, directory, reading, delivered, used, edits, touched>>
    BY DEF ReopenRequest, outcome, JInv, Underway, PhaseAndStep, Making, Copying
  <1>2. FilesApart /\ Opening /\ Persisted /\ DiskHeld
    BY <1>1 DEF JInv
  <1>3. DiskHeld'
    BY <1>1, <1>2 DEF DiskHeld
  <1>4. CASE v # "ok"
    <2>1. SameJob => v = "ok"
      <3>1. binding = Binding(man, arc, case.req, case.arch)
        BY <1>1, Afterwards DEF BoundTo
      <3> QED BY <3>1, AnswersItsRequest DEF SameJob, Expected
    <2>2. pc' = "refused"
      BY <1>1, <1>4 DEF Continue, Refuse
    <2> QED BY <1>1, <1>3, <1>4, <2>1, <2>2, ReopenRefused
  <1>5. CASE v = "ok"
    <2>1. pc' = "directory"
      BY <1>1, <1>5 DEF Continue
    <2>2. Held' /\ PhaseAndStep' /\ Opening' /\ FilesApart'
      BY <1>1, <1>2, <2>1, DirectoryStays DEF Held, Holding, PhaseAndStep, Opening, Copying, reading
    <2>3. ~touched => \A f \in FileNames : opened'[f] \in {0, Slot[f]}
      BY <1>1, <1>2 DEF Persisted, reading
    <2> QED BY <1>1, <1>3, <2>1, <2>2, <2>3, ReopenGoesOn
  <1> QED BY <1>4, <1>5

\* A directory nobody altered has its three names and its mode.
LEMMA OpenDirectoryHolds ==
  ASSUME JInv, OpenDirectory
  PROVE  JInv'
  <1> DEFINE v == CASE place = "link" -> "SymlinkComponent"
                    [] place = "writable" -> "DirectoryWritable"
                    [] place = "extra" -> "ExtraMember"
                    [] OTHER -> IF \E f \in FileNames : names[f] = 0 THEN "MissingMember" ELSE "ok"
  <1>1. /\ pc = "directory" /\ phase = "reopen" /\ pc \notin Making \cup {"refused"}
        /\ Continue(v, "files")
        /\ UNCHANGED <<case, phase, job1, handle, directory, reading, delivered, used, edits, touched>>
    BY DEF OpenDirectory, outcome, JInv, Underway, PhaseAndStep, Making, Copying
  <1>2. FilesApart /\ Opening /\ Persisted /\ DiskHeld
    BY <1>1 DEF JInv
  <1>3. DiskHeld'
    BY <1>1, <1>2 DEF DiskHeld
  <1>4. CASE v # "ok"
    <2>1. SameJob => v = "ok"
      BY <1>1, <1>2 DEF SameJob, Persisted, Slot, FileNames
    <2>2. pc' = "refused"
      BY <1>1, <1>4 DEF Continue, Refuse
    <2> QED BY <1>1, <1>3, <1>4, <2>1, <2>2, ReopenRefused
  <1>5. CASE v = "ok"
    <2>1. pc' = "files"
      BY <1>1, <1>5 DEF Continue
    <2>2. seen = 0 /\ opened = [f \in FileNames |-> 0]
      BY <1>1, <1>2 DEF Opening
    <2>3. Opening'
      BY <1>1, <2>1, <2>2 DEF Opening, Copying, reading, FileNames
    <2>4. Held' /\ PhaseAndStep' /\ FilesApart'
      BY <1>1, <1>2, <2>1, DirectoryStays DEF Held, Holding, PhaseAndStep, reading
    <2>5. \A f \in FileNames : opened'[f] \in {0, Slot[f]}
      BY <1>1, <2>2 DEF reading
    <2>6. seen' = 0
      BY <1>1, <2>2 DEF reading
    <2> QED BY <1>1, <1>3, <2>1, <2>3, <2>4, <2>5, <2>6, ReopenGoesOn
  <1> QED BY <1>4, <1>5

\* The files are opened one after the other: M, A, the record.
LEMMA FileAfterFile ==
  ASSUME Opening, pc = "files"
  PROVE  /\ NextFile \in FileNames /\ opened[NextFile] = 0
         /\ NextFile = "archive" => opened["manifest"] # 0
         /\ NextFile = "record" => opened["manifest"] # 0 /\ opened["archive"] # 0
  <1> DEFINE done == {f \in FileNames : opened[f] # 0}
  <1>1. opened["record"] = 0 /\ (opened["archive"] # 0 => opened["manifest"] # 0)
    BY DEF Opening
  <1>2. NextFile = Files[Cardinality(done) + 1]
    BY DEF NextFile
  <1>3. CASE opened["manifest"] = 0
    <2>1. done = {}
      BY <1>1, <1>3 DEF FileNames
    <2>2. Cardinality(done) = 0
      BY <2>1, FS_EmptySet
    <2> QED BY <1>2, <1>3, <2>2 DEF Files, FileNames
  <1>4. CASE opened["manifest"] # 0 /\ opened["archive"] = 0
    <2>1. done = {"manifest"}
      BY <1>1, <1>4 DEF FileNames
    <2>2. Cardinality(done) = 1
      BY <2>1, FS_Singleton
    <2> QED BY <1>2, <1>4, <2>2 DEF Files, FileNames
  <1>5. CASE opened["manifest"] # 0 /\ opened["archive"] # 0
    <2>1. done = {"manifest"} \cup {"archive"}
      BY <1>1, <1>5 DEF FileNames
    <2>2. IsFiniteSet({"manifest"}) /\ Cardinality({"manifest"}) = 1 /\ "archive" \notin {"manifest"}
      BY FS_Singleton
    <2> DEFINE one == {"manifest"}
    <2> HIDE DEF one
    <2>3. Cardinality(one \cup {"archive"}) = 2
      <3>1. IsFiniteSet(one) /\ Cardinality(one) = 1 /\ "archive" \notin one
        BY <2>2 DEF one
      <3>2. Cardinality(one \cup {"archive"}) = Cardinality(one) + 1
        BY <3>1, FS_AddElement
      <3> QED BY <3>1, <3>2
    <2>4. Cardinality(done) = 2
      BY <2>1, <2>3 DEF one
    <2> QED BY <1>1, <1>2, <1>5, <2>4 DEF Files, FileNames
  <1> QED BY <1>3, <1>4, <1>5

\* A file nobody altered is found where it was written.
LEMMA StatFileHolds ==
  ASSUME JInv, StatFile
  PROVE  JInv'
  <1> DEFINE i == names[NextFile]
             v == CASE i = 0 -> "Io"
                    [] i # 0 /\ inode[i].kind = "symlink" -> "Symlink"
                    [] i # 0 /\ inode[i].kind = "other" -> "NotRegularFile"
                    [] i # 0 /\ inode[i].kind = "regular" /\ inode[i].writable -> "GroupOrOtherWritable"
                    [] OTHER -> "ok"
  <1>1. /\ pc = "files" /\ phase = "reopen" /\ pc \notin Making \cup {"refused"}
        /\ Continue(v, "files") /\ seen' = i
        /\ UNCHANGED <<case, phase, job1, handle, directory, opened, delivered, used, edits, touched>>
    BY DEF StatFile, outcome, JInv, Underway, PhaseAndStep, Making, Copying
  <1>2. FilesApart /\ Opening /\ Persisted /\ DiskHeld
    BY <1>1 DEF JInv
  <1>3. DiskHeld'
    BY <1>1, <1>2 DEF DiskHeld
  <1>4. NextFile \in FileNames
    BY <1>1, <1>2, FileAfterFile
  <1>5. ~touched => i = Slot[NextFile] /\ i # 0 /\ inode[i] = File(Original(NextFile))
    <2> SUFFICES ASSUME ~touched PROVE i = Slot[NextFile] /\ i # 0 /\ inode[i] = File(Original(NextFile))
      OBVIOUS
    <2>1. names = Slot /\ inode = AsWritten
      BY <1>1, <1>2 DEF Persisted
    <2>2. Slot[NextFile] # 0
      BY <1>4 DEF Slot, FileNames
    <2> QED BY <1>1, <1>4, <2>1, <2>2, WrittenIsSized
  <1>6. CASE v # "ok"
    <2>1. SameJob => v = "ok"
      BY <1>5 DEF SameJob, File
    <2>2. pc' = "refused"
      BY <1>1, <1>6 DEF Continue, Refuse
    <2> QED BY <1>1, <1>3, <1>6, <2>1, <2>2, ReopenRefused
  <1>7. CASE v = "ok"
    <2>1. pc' = "files"
      BY <1>1, <1>7 DEF Continue
    <2>2. Opening'
      BY <1>1, <1>2, <2>1 DEF Opening, Copying
    <2>3. Held' /\ PhaseAndStep' /\ FilesApart'
      BY <1>1, <1>2, <2>1, DirectoryStays, SMTT(30) DEF Held, Holding, PhaseAndStep
    <2>4. NextFile' = NextFile
      BY <1>1 DEF NextFile
    <2>5. ~touched => \A f \in FileNames : opened'[f] \in {0, Slot[f]}
      BY <1>1, <1>2 DEF Persisted
    <2>6. ~touched => seen' \in {0, Slot[NextFile']}
      BY <1>1, <1>5, <2>4
    <2> QED BY <1>1, <1>3, <2>1, <2>2, <2>3, <2>5, <2>6, ReopenGoesOn
  <1> QED BY <1>6, <1>7

\* Each of the files has a limit, and as it was written is within it.
LEMMA FileLimits ==
  ASSUME JInv, phase = "reopen", pc # "refused", NEW f \in FileNames
  PROVE  /\ Lim = ask.lim /\ Lim.disk \in Nat
         /\ FileLimit(f) = <<FileLimit(f)[1], FileLimit(f)[2]>>
         /\ FileLimit(f)[1] # "ok" /\ FileLimit(f)[2] \in Nat
         /\ SameJob => /\ FileLen(f, Original(f)) <= FileLimit(f)[2]
                       /\ FileLen(f, Original(f)) <= Lim.disk
  <1>1. Lim = ask.lim
    BY DEF Lim, ask
  <1>2. pc \notin Making \cup {"refused"} /\ Persisted
    BY DEF JInv, Underway, PhaseAndStep, Making, Copying
  <1>3. /\ case \in Cases /\ Limited(ask.lim) /\ Len(case.inputs) # 0 /\ Made(man, arc)
        /\ Derived /\ Archived /\ BoundTo
    BY <1>2, Afterwards
  <1>4. /\ Lim.disk \in Nat /\ Lim.manifest \in Nat /\ Lim.archive \in Nat /\ Lim.record \in Nat
    BY <1>1, <1>3 DEF Limited
  <1>5. ManifestLen(man) \in Nat /\ ArchiveLen(arc) \in Nat /\ RecordLen \in Nat
    BY <1>3, MadeWeighs, ContentsAssumption
  <1>6. /\ ManifestLen(man) <= lim1.manifest /\ ArchiveLen(arc) <= lim1.archive
        /\ RecordLen <= lim1.record
        /\ 2 * (ManifestLen(man) + ArchiveLen(arc) + RecordLen) <= lim1.disk
    <2>1. RecordLen <= lim1.record
      BY <1>3, PreparedPasses DEF BoundTo
    <2> QED BY <1>2, <1>3, <2>1 DEF Derived, Archived, Persisted
  <1>7. SameJob => Lim = lim1
    BY <1>1 DEF SameJob, lim1
  <1>8. Emit(binding).len = RecordLen
    BY DEF Emit
  <1>9. CASE f = "manifest"
    BY <1>4, <1>5, <1>6, <1>7, <1>9, <1>1 DEF FileLimit, FileLen, Original
  <1>10. CASE f = "archive"
    BY <1>4, <1>5, <1>6, <1>7, <1>10, <1>1 DEF FileLimit, FileLen, Original
  <1>11. CASE f = "record"
    BY <1>4, <1>5, <1>6, <1>7, <1>8, <1>11, <1>1 DEF FileLimit, FileLen, Original
  <1> QED BY <1>9, <1>10, <1>11 DEF FileNames

\* A file is opened under one name alone.
LEMMA OpenFileHolds ==
  ASSUME JInv, OpenFile
  PROVE  JInv'
  <1> DEFINE f == NextFile
             i == names[f]
             len == FileLen(f, inode[i].bytes)
             v == CASE i = 0 -> "Io"
                    [] i # 0 /\ inode[i].kind = "symlink" -> "Io"
                    [] i # 0 /\ inode[i].kind # "symlink" /\ (i # seen \/ inode[i].kind # "regular") ->
                         "IdentityChanged"
                    [] OTHER -> IF len > FileLimit(f)[2] THEN FileLimit(f)[1] ELSE "ok"
  <1>1. /\ pc = "files" /\ phase = "reopen" /\ pc \notin Making \cup {"refused"} /\ seen # 0
        /\ Continue(v, IF f = "record" THEN "record" ELSE "files")
        /\ seen' = 0 /\ opened' = [opened EXCEPT ![f] = i]
        /\ UNCHANGED <<case, phase, job1, handle, directory, delivered, used, edits, touched>>
    BY DEF OpenFile, outcome, JInv, Underway, PhaseAndStep, Making, Copying
  <1>2. FilesApart /\ Opening /\ Persisted /\ DiskHeld
    BY <1>1 DEF JInv
  <1>3. DiskHeld'
    BY <1>1, <1>2 DEF DiskHeld
  <1>4. /\ f \in FileNames /\ opened[f] = 0
        /\ f = "archive" => opened["manifest"] # 0
        /\ f = "record" => opened["manifest"] # 0 /\ opened["archive"] # 0
    BY <1>1, <1>2, FileAfterFile
  <1>5. ASSUME ~touched
        PROVE  /\ i = Slot[f] /\ i # 0 /\ seen = i /\ inode[i] = File(Original(f))
               /\ \A g \in FileNames : opened[g] \in {0, Slot[g]}
    <2>1. names = Slot /\ inode = AsWritten /\ seen \in {0, Slot[f]}
          /\ \A g \in FileNames : opened[g] \in {0, Slot[g]}
      BY <1>1, <1>2, <1>5 DEF Persisted
    <2>2. Slot[f] # 0
      BY <1>4 DEF Slot, FileNames
    <2>3. AsWritten[Slot[f]] = File(Original(f))
      BY <1>1, <1>4, WrittenIsSized
    <2> HIDE DEF f
    <2> QED BY <1>1, <2>1, <2>2, <2>3
  <1>6. /\ names \in [FileNames -> 0..(3 + edits)] /\ opened \in [FileNames -> 0..(3 + edits)]
        /\ \A g \in FileNames : \A k \in {names[g], opened[g]} \ {0} : k \in MayName(g) /\ Sized(g, inode[k])
        /\ \A g, h \in FileNames : g # h => {names[g], opened[g]} \cap {names[h], opened[h]} \subseteq {0}
    BY <1>1, <1>2 DEF FilesApart
  <1>7. CASE v # "ok"
    <2>1. SameJob => v = "ok"
      <3> SUFFICES ASSUME SameJob PROVE v = "ok"
        OBVIOUS
      <3>1. /\ i # 0 /\ seen = i /\ inode[i] = File(Original(f))
        BY <1>5 DEF SameJob
      <3>2. inode[i].kind = "regular" /\ inode[i].bytes = Original(f)
        BY <3>1 DEF File
      <3>3. len <= FileLimit(f)[2] /\ FileLimit(f)[2] \in Nat
        BY <1>1, <1>4, <3>2, FileLimits
      <3>4. Sized(f, inode[i])
        BY <1>4, <1>6, <3>1
      <3>5. len \in Nat
        BY <3>4 DEF Sized
      <3> HIDE DEF i, len, f
      <3>6. ~(len > FileLimit(f)[2])
        BY <3>3, <3>5
      <3> QED BY <3>1, <3>2, <3>6
    <2>2. pc' = "refused"
      BY <1>1, <1>7 DEF Continue, Refuse
    <2> QED BY <1>1, <1>3, <1>7, <2>1, <2>2, ReopenRefused
  <1>8. CASE v = "ok"
    <2>1. pc' = (IF f = "record" THEN "record" ELSE "files") /\ i # 0
      BY <1>1, <1>8 DEF Continue
    <2> HIDE DEF i, f
    <2>2. /\ opened'[f] = i /\ DOMAIN opened' = FileNames
          /\ \A g \in FileNames \ {f} : opened'[g] = opened[g]
      BY <1>1, <1>4, <1>6
    <2>3. Opening'
      <3>1. opened["record"] = 0 /\ (opened["archive"] # 0 => opened["manifest"] # 0)
        BY <1>1, <1>2 DEF Opening
      <3> QED BY <1>1, <1>4, <2>1, <2>2, <3>1 DEF Opening, Copying, FileNames
    <2>4. Held' /\ PhaseAndStep'
      BY <1>1, <2>1 DEF Held, Holding, PhaseAndStep, Copying
    <2>5. FilesApart'
      <3>1. i = names[f]
        BY DEF i, f
      <3>2. \A g \in FileNames : {names[g], opened'[g]} \subseteq {names[g], opened[g]}
        BY <1>4, <2>2, <3>1
      <3>3. opened' \in [FileNames -> 0..(3 + edits)]
        BY <1>1, <1>4, <1>6, <3>1
      <3>4. /\ names' = names /\ inode' = inode /\ edits' = edits /\ phase' = phase
        BY <1>1 DEF directory
      <3> QED BY <1>1, <1>2, <1>6, <3>2, <3>3, <3>4 DEF FilesApart, MayName
    <2>6. ~touched => \A g \in FileNames : opened'[g] \in {0, Slot[g]}
      BY <1>5, <2>2
    <2>7. pc' # "refused"
      BY <2>1
    <2> QED BY <1>1, <1>3, <2>3, <2>4, <2>5, <2>6, <2>7, ReopenGoesOn
  <1> QED BY <1>7, <1>8

\* What a copy of an opened file holds.
LEMMA CopyHolds ==
  ASSUME JInv, phase = "reopen", pc \in Copying, NEW f \in FileNames
  PROVE  /\ FileLen(f, Contents_(f)) \in Nat
         /\ CopyVerdict(f) = "ok" => FileLen(f, Contents_(f)) <= Lim.disk
         /\ ~touched => Contents_(f) = Original(f)
         /\ SameJob => CopyVerdict(f) = "ok"
  <1> DEFINE len == FileLen(f, Contents_(f))
  <1>1. /\ pc \notin Making \cup {"refused"} /\ FilesApart /\ Opening /\ Persisted /\ opened[f] # 0
    BY DEF JInv, Making, Copying, Opening
  <1>2. len \in Nat
    BY <1>1 DEF FilesApart, Sized, Contents_
  <1>3. ~touched => Contents_(f) = Original(f)
    <2> SUFFICES ASSUME ~touched PROVE Contents_(f) = Original(f)
      OBVIOUS
    <2>1. inode = AsWritten /\ opened[f] = Slot[f]
      BY <1>1 DEF Persisted
    <2>2. AsWritten[Slot[f]] = File(Original(f))
      BY <1>1, WrittenIsSized
    <2>3. inode[opened[f]].bytes = File(Original(f)).bytes
      BY <2>1, <2>2
    <2>4. File(Original(f)).bytes = Original(f)
      BY DEF File
    <2> QED BY <2>3, <2>4 DEF Contents_
  <1>4. /\ Lim.disk \in Nat /\ FileLimit(f) = <<FileLimit(f)[1], FileLimit(f)[2]>>
        /\ FileLimit(f)[1] # "ok" /\ FileLimit(f)[2] \in Nat
        /\ SameJob => /\ FileLen(f, Original(f)) <= FileLimit(f)[2]
                      /\ FileLen(f, Original(f)) <= Lim.disk
    BY <1>1, FileLimits
  <1> DEFINE name == FileLimit(f)[1]
             most == FileLimit(f)[2]
  <1>5. CopyVerdict(f) = Pass(len, <<<<name, most>>, <<"RetainedDisk", Lim.disk>>>>)
    BY <1>4 DEF CopyVerdict
  <1>6. name # "ok" /\ most \in Nat
    BY <1>4
  <1>7. SameJob => len <= most /\ len <= Lim.disk
    BY <1>3, <1>4 DEF SameJob
  <1> HIDE DEF len, name, most
  <1>8. CopyVerdict(f) = IF len > most /\ most <= Lim.disk THEN name
                         ELSE IF len > Lim.disk /\ Lim.disk <= most THEN "RetainedDisk" ELSE "ok"
    BY <1>2, <1>4, <1>5, <1>6, PassTwo
  <1>9. CopyVerdict(f) = "ok" => len <= Lim.disk
    BY <1>2, <1>4, <1>6, <1>8
  <1>10. SameJob => CopyVerdict(f) = "ok"
    BY <1>2, <1>4, <1>6, <1>7, <1>8
  <1> QED BY <1>2, <1>3, <1>9, <1>10 DEF len

\* A record as it was written says what is expected.
LEMMA ReadRecordHolds ==
  ASSUME JInv, ReadRecord
  PROVE  JInv'
  <1> DEFINE r == Contents_("record")
             parsed == FirstOf(<<CopyVerdict("record"), ParseRecord(r, Lim)>>)
             v == IF parsed = "ok" THEN FirstDifference(Recorded(r), Expected) ELSE parsed
  <1>1. /\ pc = "record" /\ phase = "reopen" /\ pc \notin Making \cup {"refused"} /\ pc \in Copying
        /\ Continue(v, "copyM")
        /\ parsed = "ok" => Holds(r.len)
        /\ parsed # "ok" => UNCHANGED used
        /\ UNCHANGED <<case, phase, job1, handle, directory, reading, delivered, edits, touched>>
    BY DEF ReadRecord, outcome, JInv, Underway, PhaseAndStep, Making, Copying
  <1>2. FilesApart /\ Opening /\ Persisted /\ DiskHeld
    BY <1>1 DEF JInv
  <1>3. "record" \in FileNames /\ FileLen("record", r) = r.len
    BY DEF FileNames, FileLen
  <1>4. /\ r.len \in Nat /\ (CopyVerdict("record") = "ok" => r.len <= Lim.disk)
        /\ ~touched => r = Original("record")
        /\ SameJob => CopyVerdict("record") = "ok"
    BY <1>1, <1>3, CopyHolds
  <1> HIDE DEF r
  <1>5. parsed = "ok" <=> CopyVerdict("record") = "ok" /\ ParseRecord(r, Lim) = "ok"
    BY OfTwo
  <1> HIDE DEF parsed
  <1>6. DiskHeld'
    <2>1. CASE parsed # "ok"
      BY <1>1, <1>2, <2>1 DEF DiskHeld
    <2>2. CASE parsed = "ok"
      <3>1. Lim.disk \in Nat
        BY <1>1, <1>3, FileLimits
      <3> QED BY <1>1, <1>2, <1>4, <1>5, <2>2, <3>1, HoldsWithin
    <2> QED BY <2>1, <2>2
  <1>7. CASE v # "ok"
    <2>1. SameJob => v = "ok"
      <3> SUFFICES ASSUME SameJob PROVE v = "ok"
        OBVIOUS
      <3>1. r = Emit(binding) /\ Expected = binding /\ Lim = lim1
        BY <1>1, <1>3, <1>4, FileLimits DEF SameJob, Original, Expected, lim1
      <3>2. RecordLen <= lim1.record /\ lim1.record \in Nat
        BY <1>1, Afterwards, PreparedPasses DEF BoundTo, Limited
      <3>3. ParseRecord(r, Lim) = "ok" /\ FirstDifference(Recorded(r), Expected) = "ok"
        BY <3>1, <3>2, ReadsBack
      <3> QED BY <1>4, <1>5, <3>3
    <2>2. pc' = "refused"
      BY <1>1, <1>7 DEF Continue, Refuse
    <2> QED BY <1>1, <1>6, <1>7, <2>1, <2>2, ReopenRefused
  <1>8. CASE v = "ok"
    <2>1. pc' = "copyM"
      BY <1>1, <1>8 DEF Continue
    <2>2. Opening'
      BY <1>1, <1>2, <2>1 DEF Opening, Copying, reading
    <2>3. Held' /\ PhaseAndStep' /\ FilesApart'
      BY <1>1, <1>2, <2>1, DirectoryStays DEF Held, Holding, PhaseAndStep, Copying, reading
    <2>4. ~touched => \A f \in FileNames : opened'[f] \in {0, Slot[f]}
      BY <1>1, <1>2 DEF Persisted, reading
    <2> QED BY <1>1, <1>6, <2>1, <2>2, <2>3, <2>4, ReopenGoesOn
  <1> QED BY <1>7, <1>8

\* A manifest is taken by its digest.
LEMMA CopyManifestHolds ==
  ASSUME JInv, CopyManifest
  PROVE  JInv'
  <1> DEFINE m == Contents_("manifest")
             fields == <<"manifest_sha256", "manifest_length">>
             same == Compare(ManifestLen(m), m, Expected.manifest_sha256, Expected.manifest_length, fields)
             v == FirstOf(<<CopyVerdict("manifest"), same>>)
  <1>1. /\ pc = "copyM" /\ phase = "reopen" /\ pc \notin Making \cup {"refused"} /\ pc \in Copying
        /\ Continue(v, "copyA")
        /\ handle' = [man |-> m, arc |-> Nothing, binding |-> Expected]
        /\ v = "ok" => Holds(ManifestLen(m))
        /\ v # "ok" => UNCHANGED used
        /\ UNCHANGED <<case, phase, job1, directory, reading, delivered, edits, touched>>
    BY DEF CopyManifest, outcome, JInv, Underway, PhaseAndStep, Making, Copying
  <1>2. FilesApart /\ Opening /\ Persisted /\ DiskHeld /\ Preparation
    BY <1>1 DEF JInv
  <1>3. "manifest" \in FileNames /\ FileLen("manifest", m) = ManifestLen(m)
    BY DEF FileNames, FileLen
  <1>4. /\ ManifestLen(m) \in Nat /\ (CopyVerdict("manifest") = "ok" => ManifestLen(m) <= Lim.disk)
        /\ ~touched => m = Original("manifest")
        /\ SameJob => CopyVerdict("manifest") = "ok"
    BY <1>1, <1>3, CopyHolds
  <1> HIDE DEF m
  <1>5. same = "ok" <=> m = Expected.manifest_sha256 /\ ManifestLen(m) = Expected.manifest_length
    BY DEF Compare
  <1> HIDE DEF same
  <1>6. v = "ok" <=> CopyVerdict("manifest") = "ok" /\ same = "ok"
    BY OfTwo
  <1> HIDE DEF v
  <1>7. CASE v # "ok"
    <2>1. SameJob => v = "ok"
      <3> SUFFICES ASSUME SameJob PROVE v = "ok"
        OBVIOUS
      <3>1. m = man /\ Expected = binding
        BY <1>4 DEF SameJob, Original, Expected
      <3>2. binding.manifest_sha256 = man
        BY <1>1, JobOnesBinding
      <3>3. binding.manifest_length = ManifestLen(binding.manifest_sha256)
        BY <1>1, BindingsBind
      <3> QED BY <1>4, <1>5, <1>6, <3>1, <3>2, <3>3
    <2>2. pc' = "refused" /\ UNCHANGED used
      BY <1>1, <1>7 DEF Continue, Refuse
    <2>3. DiskHeld'
      BY <1>2, <2>2 DEF DiskHeld
    <2> QED BY <1>1, <1>7, <2>1, <2>2, <2>3, ReopenRefused
  <1>8. CASE v = "ok"
    <2>1. pc' = "copyA" /\ m = Expected.manifest_sha256 /\ Holds(ManifestLen(m))
      BY <1>1, <1>5, <1>6, <1>8 DEF Continue
    <2>2. DiskHeld'
      <3>1. Lim.disk \in Nat
        BY <1>1, <1>3, FileLimits
      <3> QED BY <1>2, <1>4, <1>6, <1>8, <2>1, <3>1, HoldsWithin
    <2>3. Opening'
      BY <1>1, <1>2, <2>1 DEF Opening, Copying, reading
    <2>4. PhaseAndStep' /\ FilesApart'
      BY <1>1, <1>2, <2>1, DirectoryStays DEF PhaseAndStep, Copying, reading
    <2>5. Held'
      <3>1. Expected' = Expected
        BY <1>1, <1>2, <2>1, PreparationStays DEF Making
      <3> QED BY <1>1, <2>1, <3>1 DEF Held, Holding
    <2>6. ~touched => \A f \in FileNames : opened'[f] \in {0, Slot[f]}
      BY <1>1, <1>2 DEF Persisted, reading
    <2> QED BY <1>1, <2>1, <2>2, <2>3, <2>4, <2>5, <2>6, ReopenGoesOn
  <1> QED BY <1>7, <1>8

\* An archive is taken by its digest.
LEMMA CopyArchiveHolds ==
  ASSUME JInv, CopyArchive
  PROVE  JInv'
  <1> DEFINE a == Contents_("archive")
             fields == <<"archive_sha256", "archive_length">>
             same == Compare(ArchiveLen(a), a, Expected.archive_sha256, Expected.archive_length, fields)
             v == FirstOf(<<CopyVerdict("archive"), same>>)
  <1>1. /\ pc = "copyA" /\ phase = "reopen" /\ pc \notin Making \cup {"refused"} /\ pc \in Copying
        /\ Continue(v, "revalidate")
        /\ handle' = [handle EXCEPT !.arc = a]
        /\ v = "ok" => Holds(ArchiveLen(a))
        /\ v # "ok" => UNCHANGED used
        /\ UNCHANGED <<case, phase, job1, directory, reading, delivered, edits, touched>>
    BY DEF CopyArchive, outcome, JInv, Underway, PhaseAndStep, Making, Copying
  <1>2. FilesApart /\ Opening /\ Persisted /\ DiskHeld /\ Preparation /\ Held
    BY <1>1 DEF JInv
  <1>3. "archive" \in FileNames /\ FileLen("archive", a) = ArchiveLen(a)
    BY DEF FileNames, FileLen
  <1>4. /\ ArchiveLen(a) \in Nat /\ (CopyVerdict("archive") = "ok" => ArchiveLen(a) <= Lim.disk)
        /\ ~touched => a = Original("archive")
        /\ SameJob => CopyVerdict("archive") = "ok"
    BY <1>1, <1>3, CopyHolds
  <1> HIDE DEF a
  <1>5. same = "ok" <=> a = Expected.archive_sha256 /\ ArchiveLen(a) = Expected.archive_length
    BY DEF Compare
  <1> HIDE DEF same
  <1>6. v = "ok" <=> CopyVerdict("archive") = "ok" /\ same = "ok"
    BY OfTwo
  <1> HIDE DEF v
  <1>7. CASE v # "ok"
    <2>1. SameJob => v = "ok"
      <3> SUFFICES ASSUME SameJob PROVE v = "ok"
        OBVIOUS
      <3>1. a = arc /\ Expected = binding
        BY <1>4 DEF SameJob, Original, Expected
      <3>2. binding.archive_sha256 = arc
        BY <1>1, JobOnesBinding
      <3>3. binding.archive_length = ArchiveLen(binding.archive_sha256)
        BY <1>1, BindingsBind
      <3> QED BY <1>4, <1>5, <1>6, <3>1, <3>2, <3>3
    <2>2. pc' = "refused" /\ UNCHANGED used
      BY <1>1, <1>7 DEF Continue, Refuse
    <2>3. DiskHeld'
      BY <1>2, <2>2 DEF DiskHeld
    <2> QED BY <1>1, <1>7, <2>1, <2>2, <2>3, ReopenRefused
  <1>8. CASE v = "ok"
    <2>1. pc' = "revalidate" /\ a = Expected.archive_sha256 /\ Holds(ArchiveLen(a))
      BY <1>1, <1>5, <1>6, <1>8 DEF Continue
    <2>2. DiskHeld'
      <3>1. Lim.disk \in Nat
        BY <1>1, <1>3, FileLimits
      <3> QED BY <1>2, <1>4, <1>6, <1>8, <2>1, <3>1, HoldsWithin
    <2>3. Opening'
      BY <1>1, <1>2, <2>1 DEF Opening, Copying, reading
    <2>4. PhaseAndStep' /\ FilesApart'
      BY <1>1, <1>2, <2>1, DirectoryStays DEF PhaseAndStep, Copying, reading
    <2>5. Held'
      <3>1. Expected' = Expected
        BY <1>1, <1>2, <2>1, PreparationStays DEF Making
      <3>2. handle = [man |-> Expected.manifest_sha256, arc |-> Nothing, binding |-> Expected]
        BY <1>1, <1>2 DEF Held
      <3>3. handle' = [man |-> Expected.manifest_sha256, arc |-> Expected.archive_sha256, binding |-> Expected]
        BY <1>1, <2>1, <3>2
      <3> QED BY <1>1, <2>1, <3>1, <3>3 DEF Held, Holding
    <2>6. ~touched => \A f \in FileNames : opened'[f] \in {0, Slot[f]}
      BY <1>1, <1>2 DEF Persisted, reading
    <2> QED BY <1>1, <2>1, <2>2, <2>3, <2>4, <2>5, <2>6, ReopenGoesOn
  <1> QED BY <1>7, <1>8

\* A step of the reopened handle itself: nothing is read any more.
LEMMA RevalidateHolds ==
  ASSUME JInv, Revalidate
  PROVE  JInv'
  <1> DEFINE m == Expected.manifest_sha256
             a == Expected.archive_sha256
             room == Lim.disk - ArchiveLen(a)
             v == Validate(m, a, ask.req, ask.arch, Lim, room)
  <1>1. /\ pc = "revalidate" /\ phase = "reopen" /\ pc \notin Making \cup {"refused"} /\ Held
    BY DEF Revalidate, JInv, Underway, PhaseAndStep, Making, Copying
  <1>2. handle = [man |-> m, arc |-> a, binding |-> Expected]
    BY <1>1 DEF Held
  <1>3. /\ Continue(v, "prepared")
        /\ v = "ok" => Holds(ArchiveLen(a) + Unpacked(a))
        /\ v # "ok" => UNCHANGED used
        /\ UNCHANGED <<case, phase, job1, handle, directory, reading, delivered, edits, touched>>
    BY <1>2 DEF Revalidate, outcome
  <1>4. FilesApart /\ Opening /\ Persisted /\ DiskHeld /\ Preparation
    BY <1>1 DEF JInv
  <1>5. /\ Made(m, a) /\ case \in Cases /\ Limited(ask.lim) /\ Lim = ask.lim /\ Lim.disk \in Nat
        /\ ArchiveLen(a) \in Nat /\ BoundTo
    <2>1. /\ case \in Cases /\ Limited(ask.lim) /\ Len(case.inputs) # 0 /\ BoundTo
      BY <1>1, Afterwards
    <2>2. Made(m, a)
      BY <1>1, BindingsBind
    <2>3. Lim = ask.lim /\ Lim.disk \in Nat
      BY <1>1, <2>1 DEF Lim, ask, Limited
    <2> HIDE DEF m, a
    <2> QED BY <2>1, <2>2, <2>3, MadeWeighs
  <1> HIDE DEF m, a
  <1>6. room \in Int
    BY <1>5
  <1>7. CASE v # "ok"
    <2>1. SameJob => v = "ok"
      <3> SUFFICES ASSUME SameJob PROVE v = "ok"
        OBVIOUS
      <3>1. m = man /\ a = arc /\ Lim = lim1
        BY <1>1, <1>5, JobOnesBinding DEF SameJob, Expected, lim1, m, a
      <3>2. Validate(man, arc, case.req, case.arch, lim1, lim1.disk - ArchiveLen(arc)) = "ok"
        BY <1>5, PreparedPasses DEF BoundTo
      <3> QED BY <3>1, <3>2 DEF SameJob
    <2>2. pc' = "refused" /\ UNCHANGED used
      BY <1>3, <1>7 DEF Continue, Refuse
    <2>3. DiskHeld'
      BY <1>4, <2>2 DEF DiskHeld
    <2> QED BY <1>1, <1>3, <1>7, <2>1, <2>2, <2>3, ReopenRefused
  <1>8. CASE v = "ok"
    <2>1. pc' = "prepared" /\ Holds(ArchiveLen(a) + Unpacked(a))
      BY <1>3, <1>8 DEF Continue
    <2>2. Describes(m, a) /\ Unpacked(a) \in Nat /\ Unpacked(a) <= room
      BY <1>5, <1>6, <1>8, ValidIsDescribed
    <2>3. DiskHeld'
      <3>1. ArchiveLen(a) + Unpacked(a) \in Nat /\ ArchiveLen(a) + Unpacked(a) <= Lim.disk
        BY <1>5, <2>2
      <3> QED BY <1>4, <1>5, <2>1, <3>1, HoldsWithin
    <2>4. Opening'
      BY <1>1, <1>3, <1>4, <2>1 DEF Opening, Copying, reading
    <2>5. PhaseAndStep' /\ FilesApart'
      BY <1>1, <1>3, <1>4, <2>1, DirectoryStays DEF PhaseAndStep, Copying, reading
    <2>6. Held'
      <3>1. Expected' = Expected
        BY <1>1, <1>3, <1>4, <2>1, PreparationStays DEF Making
      <3>2. handle.man = m /\ handle.arc = a /\ handle.binding = Expected
        BY <1>2
      <3>3. handle.man = handle.binding.manifest_sha256 /\ handle.arc = handle.binding.archive_sha256
        BY <3>2 DEF m, a
      <3>4. handle' = handle /\ phase' = "reopen"
        BY <1>1, <1>3
      <3> QED BY <2>1, <2>2, <3>1, <3>2, <3>3, <3>4 DEF Held, Holding
    <2>7. ~touched => \A f \in FileNames : opened'[f] \in {0, Slot[f]}
      BY <1>1, <1>3, <1>4 DEF Persisted, reading
    <2> QED BY <1>1, <1>3, <2>1, <2>3, <2>4, <2>5, <2>6, <2>7, ReopenGoesOn
  <1> QED BY <1>7, <1>8
-----------------------------------------------------------------------------
(* Signing and finalizing *)

\* A step of the second half that goes on, whatever becomes of the directory.
LEMMA FinishGoesOn ==
  ASSUME JInv, pc \notin Making \cup {"refused"}, pc' \in {"signed", "finalized", "published"},
         phase' \in {"finalize", "publish"}, PhaseAndStep', DiskHeld', Held', UploadAgrees',
         UNCHANGED <<case, job1, edits, touched>>
  PROVE  JInv'
  <1>1. Underway /\ Preparation
    BY DEF JInv
  <1>2. Preparation'
    BY <1>1, PreparationStays DEF Making
  <1>3. Underway'
    BY <1>1 DEF Underway
  <1>4. LateRefusals' /\ FilesApart' /\ Opening' /\ Persisted'
    BY DEF LateRefusals, FilesApart, Opening, Persisted, Copying
  <1> QED BY <1>2, <1>3, <1>4 DEF JInv

\* What is held was made, is whole, and is what its binding names.
LEMMA HandleIs ==
  ASSUME JInv, pc \in Holding
  PROVE  /\ pc \notin Making \cup {"refused"} /\ Held
         /\ case \in Cases /\ Limited(ask.lim) /\ Made(handle.man, handle.arc)
         /\ Listing(handle.man) /\ Weighed(handle.arc) /\ handle.arc.members # <<>>
         /\ ManifestLen(handle.man) \in Nat /\ ArchiveLen(handle.arc) \in Nat
         /\ handle.binding \in {binding, Expected}
         /\ handle.man = handle.binding.manifest_sha256 /\ handle.arc = handle.binding.archive_sha256
         /\ ManifestLen(handle.man) = handle.binding.manifest_length
         /\ ArchiveLen(handle.arc) = handle.binding.archive_length
  <1>1. pc \notin Making \cup {"refused"}
    BY DEF Making, Holding
  <1>2. Held
    BY <1>1 DEF JInv
  <1>3. /\ handle.binding \in {binding, Expected}
        /\ handle.man = handle.binding.manifest_sha256 /\ handle.arc = handle.binding.archive_sha256
    BY <1>2 DEF Held
  <1>4. /\ Made(handle.man, handle.arc) /\ ManifestLen(handle.man) = handle.binding.manifest_length
        /\ ArchiveLen(handle.arc) = handle.binding.archive_length
    BY <1>1, <1>3, BindingsBind
  <1>5. case \in Cases /\ Limited(ask.lim) /\ Len(case.inputs) # 0
    BY <1>1, Afterwards
  <1>6. /\ Listing(handle.man) /\ Weighed(handle.arc) /\ handle.arc.members # <<>>
        /\ ManifestLen(handle.man) \in Nat /\ ArchiveLen(handle.arc) \in Nat
    BY <1>4, <1>5, MadeWeighs
  <1> QED BY <1>1, <1>2, <1>3, <1>4, <1>5, <1>6

\* Whatever the signer answers, what is held stays.
LEMMA SignHolds ==
  ASSUME JInv, NEW reply, Sign(reply)
  PROVE  JInv'
  <1>1. /\ pc = "prepared" \/ (pc = "persisted" /\ phase = "persist")
        /\ pc \in Holding /\ pc \notin Making \cup {"refused"}
        /\ phase' = "finalize"
        /\ UNCHANGED <<case, job1, handle, delivered, used, edits, touched>>
    BY DEF Sign, outcome, Holding, Making
  <1>2. Underway /\ DiskHeld /\ Preparation /\ Held /\ UploadAgrees
    BY <1>1 DEF JInv
  <1>3. DiskHeld' /\ UploadAgrees'
    BY <1>1, <1>2 DEF DiskHeld, UploadAgrees
  <1>4. CASE reply = "fails"
    <2>1. pc' = "refused" /\ verdict' = "Signer"
      BY <1>4 DEF Sign, Refuse
    <2>2. Underway' /\ LateRefusals'
      BY <1>1, <1>2, <2>1 DEF Underway, PhaseAndStep, LateRefusals, Honest
    <2> QED BY <1>1, <1>3, <2>1, <2>2, Refusing
  <1>5. CASE reply # "fails"
    <2>1. pc' = "signed" /\ DOMAIN signed' = Algorithms
      BY <1>5 DEF Sign
    <2>2. PhaseAndStep'
      BY <1>1, <2>1 DEF PhaseAndStep
    <2>3. Held'
      <3>1. Expected' = Expected
        BY <1>1, <1>2, <2>1, PreparationStays DEF Making
      <3>2. handle' = handle /\ binding' = binding
        BY <1>1 DEF job1
      <3> QED BY <1>1, <1>2, <2>1, <3>1, <3>2 DEF Held, Holding
    <2> QED BY <1>1, <1>3, <2>1, <2>2, <2>3, FinishGoesOn
  <1> QED BY <1>4, <1>5

\* A system call that fails is no refusal to be explained.
LEMMA FailsHolds ==
  ASSUME JInv, Fails
  PROVE  JInv'
  <1>1. /\ pc' = "refused" /\ verdict' = "Io" /\ Underway /\ DiskHeld
        /\ UNCHANGED <<case, phase, delivered, used, edits, touched>>
    BY DEF Fails, Refuse, outcome, JInv
  <1>2. Underway' /\ DiskHeld' /\ LateRefusals'
    BY <1>1 DEF Underway, PhaseAndStep, DiskHeld, LateRefusals, Honest
  <1> QED BY <1>1, <1>2, Refusing

\* The parts of finalize_package's verdict.
Bindings(h, s) ==
    FirstOf(<<FirstDifference(h.binding, Expected), RequestDifference(Expected, ask.req, ask.arch),
              Rehash(h, Expected),
              IF \A alg \in Algorithms : s[alg].framed THEN "ok" ELSE "Payload",
              IF FinalizeBudget(h, ask.lim) < 0 THEN "RetainedDisk" ELSE "ok">>)

\* ... and the verdict they make.
LEMMA FinalizeParts ==
  ASSUME JInv, pc = "signed",
         NEW c, c = Container(handle, signed),
         NEW v, v = FinalizeVerdict(handle, signed, ask.trust, ask.req, ask.arch, ask.lim)
  PROVE  LET len == ContainerLen(c)
             a == ArchiveLen(handle.arc)
             room == ask.lim.disk - a
             pass == IF len > ask.lim.package /\ ask.lim.package <= room THEN "Package"
                     ELSE IF len > room /\ room <= ask.lim.package THEN "RetainedDisk" ELSE "ok"
             inside == CheckContents(handle.man, handle.arc, ask.arch, ask.lim, room - len - a)
             copied == FirstOf(<<IF a > room - len THEN "RetainedDisk" ELSE "ok", inside>>)
         IN /\ len \in Nat /\ len = ManifestLen(handle.man) + a + Overhead
            /\ v = IF Bindings(handle, signed) # "ok" THEN Bindings(handle, signed)
                   ELSE FirstOf(<<pass, FirstOf(<<AuthenticateBounded(c, ask.trust, ask.lim),
                                                  CheckStatements(Envelope(c), ask.req, ask.trust),
                                                  copied>>)>>)
  <1> DEFINE len == ContainerLen(c)
             a == ArchiveLen(handle.arc)
             room == ask.lim.disk - a
             ceilings == <<<<"Package", ask.lim.package>>, <<"RetainedDisk", room>>>>
             pass == IF len > ask.lim.package /\ ask.lim.package <= room THEN "Package"
                     ELSE IF len > room /\ room <= ask.lim.package THEN "RetainedDisk" ELSE "ok"
             inside == CheckContents(handle.man, handle.arc, ask.arch, ask.lim, room - len - a)
             copied == FirstOf(<<IF a > room - len THEN "RetainedDisk" ELSE "ok", inside>>)
  <1>1. /\ ManifestLen(handle.man) \in Nat /\ a \in Nat /\ Limited(ask.lim)
    BY HandleIs DEF Holding
  <1>2. c.manifest = handle.man /\ c.archive = handle.arc
    BY DEF Container
  <1>3. len = ManifestLen(handle.man) + a + Overhead
    BY <1>2 DEF ContainerLen
  <1>4. len \in Nat /\ ask.lim.package \in Nat /\ room \in Int
    BY <1>1, <1>3, ContentsAssumption DEF Limited
  <1>5. Pass(len, ceilings) = pass
    <2> HIDE DEF len, room
    <2> QED BY <1>4, PassTwo
  <1>6. VerifyAuthenticated(c, ask.arch, ask.lim, room - len) = copied
    <2>1. VerifyAuthenticated(c, ask.arch, ask.lim, room - len) =
            FirstOf(<<Pass(a, <<<<"RetainedDisk", room - len>>>>), inside>>)
      BY <1>2 DEF VerifyAuthenticated
    <2>2. Pass(a, <<<<"RetainedDisk", room - len>>>>) = IF a > room - len THEN "RetainedDisk" ELSE "ok"
      <3>1. room - len \in Int
        BY <1>4
      <3> HIDE DEF a, len, room
      <3> QED BY <1>1, <3>1, PassOne
    <2> QED BY <2>1, <2>2
  <1>7. VerifyRetained(c, ask.trust, ask.req, ask.arch, ask.lim, room - len) =
          FirstOf(<<AuthenticateBounded(c, ask.trust, ask.lim),
                    CheckStatements(Envelope(c), ask.req, ask.trust), copied>>)
    BY <1>6 DEF VerifyRetained
  <1>8. v = IF Bindings(handle, signed) # "ok" THEN Bindings(handle, signed)
            ELSE FirstOf(<<Pass(len, ceilings),
                           VerifyRetained(c, ask.trust, ask.req, ask.arch, ask.lim, room - len)>>)
    BY DEF FinalizeVerdict, FinalizeBudget, Bindings
  <1> QED BY <1>3, <1>4, <1>5, <1>7, <1>8

\* What is finalized is what was expected, and everything held fits the disk.
LEMMA FinalizePasses ==
  ASSUME JInv, pc = "signed", FinalizeVerdict(handle, signed, ask.trust, ask.req, ask.arch, ask.lim) = "ok"
  PROVE  /\ handle.man = Expected.manifest_sha256 /\ handle.arc = Expected.archive_sha256
         /\ RequestDifference(Expected, ask.req, ask.arch) = "ok"
         /\ LET all == 2 * ArchiveLen(handle.arc) + ContainerLen(Container(handle, signed)) + Unpacked(handle.arc)
            IN all \in Nat /\ all <= ask.lim.disk
         /\ Unpacked(handle.arc) \in Nat /\ ContainerLen(Container(handle, signed)) \in Nat
  <1> DEFINE c == Container(handle, signed)
             len == ContainerLen(c)
             a == ArchiveLen(handle.arc)
             room == ask.lim.disk - a
             pass == IF len > ask.lim.package /\ ask.lim.package <= room THEN "Package"
                     ELSE IF len > room /\ room <= ask.lim.package THEN "RetainedDisk" ELSE "ok"
             inside == CheckContents(handle.man, handle.arc, ask.arch, ask.lim, room - len - a)
             fits == IF a > room - len THEN "RetainedDisk" ELSE "ok"
             copied == FirstOf(<<fits, inside>>)
             auth == AuthenticateBounded(c, ask.trust, ask.lim)
             states == CheckStatements(Envelope(c), ask.req, ask.trust)
             b == Bindings(handle, signed)
             rest == FirstOf(<<auth, states, copied>>)
  <1>1. /\ len \in Nat
        /\ b # "ok" => b = "ok"
        /\ FirstOf(<<pass, rest>>) = "ok"
    BY FinalizeParts
  <1>2. b = "ok"
    BY <1>1
  <1>3. inside = "ok"
    <2> HIDE DEF pass, rest
    <2>1. rest = "ok"
      BY <1>1, OfTwo
    <2> HIDE DEF auth, states, copied
    <2>2. copied = "ok"
      BY <2>1, OfThree DEF rest
    <2> HIDE DEF fits, inside
    <2> QED BY <2>2, OfTwo DEF copied
  <1>4. RequestDifference(Expected, ask.req, ask.arch) = "ok" /\ Rehash(handle, Expected) = "ok"
    <2> DEFINE first == FirstDifference(handle.binding, Expected)
               second == RequestDifference(Expected, ask.req, ask.arch)
               third == Rehash(handle, Expected)
               fourth == IF \A alg \in Algorithms : signed[alg].framed THEN "ok" ELSE "Payload"
               fifth == IF FinalizeBudget(handle, ask.lim) < 0 THEN "RetainedDisk" ELSE "ok"
    <2>1. b = FirstOf(<<first, second, third, fourth, fifth>>)
      BY DEF Bindings
    <2> HIDE DEF b, first, second, third, fourth, fifth
    <2>2. second = "ok" /\ third = "ok"
      BY <1>2, <2>1, OfFive
    <2> QED BY <2>2 DEF second, third
  <1>5. /\ Listing(handle.man) /\ Weighed(handle.arc) /\ handle.arc.members # <<>> /\ a \in Nat
        /\ Limited(ask.lim)
    BY HandleIs DEF Holding
  <1>6. room - len - a \in Int /\ ask.lim.disk \in Nat /\ ask.lim.total \in Nat /\ ask.lim.members \in Nat
    BY <1>1, <1>5 DEF Limited
  <1>7. Unpacked(handle.arc) \in Nat /\ Unpacked(handle.arc) <= room - len - a
    BY <1>3, <1>5, <1>6, ContentsWithin DEF Listing
  <1>8. handle.man = Expected.manifest_sha256 /\ handle.arc = Expected.archive_sha256
    BY <1>4, RehashedIsBound
  <1>9. 2 * a + len + Unpacked(handle.arc) \in Nat /\ 2 * a + len + Unpacked(handle.arc) <= ask.lim.disk
    <2> DEFINE u == Unpacked(handle.arc)
               disk == ask.lim.disk
    <2>1. len \in Nat
      BY <1>1
    <2>2. a \in Nat /\ u \in Nat /\ disk \in Nat
      BY <1>5, <1>6, <1>7
    <2>3. u <= disk - a - len - a
      BY <1>7
    <2> HIDE DEF len, a, u, disk
    <2>4. 2 * a + len + u \in Nat /\ 2 * a + len + u <= disk
      BY <2>1, <2>2, <2>3
    <2> QED BY <2>4 DEF u, disk
  <1> HIDE DEF len, a
  <1> QED BY <1>1, <1>4, <1>7, <1>8, <1>9 DEF len, a

\* What an honest job is refused after the signature, is refused for the disk:
\* nothing the container has to meet was left to be met.
LEMMA FinalizeRefuses ==
  ASSUME JInv, pc = "signed", SameJob, \A alg \in Algorithms : signed[alg].framed,
         VerifyPackage(Envelope(Container(handle, signed)), ask.trust, ask.req) = "ok",
         NEW v, v = FinalizeVerdict(handle, signed, ask.trust, ask.req, ask.arch, ask.lim)
  PROVE  v \in {"ok", "RetainedDisk"}
  <1> DEFINE c == Container(handle, signed)
             len == ContainerLen(c)
             a == ArchiveLen(handle.arc)
             room == ask.lim.disk - a
             pass == IF len > ask.lim.package /\ ask.lim.package <= room THEN "Package"
                     ELSE IF len > room /\ room <= ask.lim.package THEN "RetainedDisk" ELSE "ok"
             inside == CheckContents(handle.man, handle.arc, ask.arch, ask.lim, room - len - a)
             fits == IF a > room - len THEN "RetainedDisk" ELSE "ok"
             copied == FirstOf(<<fits, inside>>)
             auth == AuthenticateBounded(c, ask.trust, ask.lim)
             states == CheckStatements(Envelope(c), ask.req, ask.trust)
             b == Bindings(handle, signed)
             rest == FirstOf(<<auth, states, copied>>)
  <1>1. /\ len \in Nat /\ len = ManifestLen(handle.man) + a + Overhead
        /\ v = IF b # "ok" THEN b ELSE FirstOf(<<pass, rest>>)
    BY FinalizeParts
  <1>2. pc \notin Making \cup {"refused"} /\ pc \in Holding
    BY DEF Making, Holding
  <1>3. /\ Derived /\ Archived /\ BoundTo /\ case \in Cases /\ Limited(lim1) /\ Made(man, arc)
    BY <1>2, Afterwards
  <1>4. ask.lim = lim1 /\ Expected = binding /\ ask.req = case.req /\ ask.arch = case.arch
    BY DEF SameJob, Expected, ask, lim1
  <1>5. /\ handle.binding = Expected /\ handle.man = man /\ handle.arc = arc
        /\ handle.man = Expected.manifest_sha256 /\ handle.arc = Expected.archive_sha256
        /\ ManifestLen(handle.man) = Expected.manifest_length
        /\ ArchiveLen(handle.arc) = Expected.archive_length
        /\ ManifestLen(man) \in Nat /\ ArchiveLen(arc) \in Nat
    BY <1>2, <1>4, HandleIs, JobOnesBinding
  <1>6. b \in {"ok", "RetainedDisk"}
    <2> DEFINE first == FirstDifference(handle.binding, Expected)
               second == RequestDifference(Expected, ask.req, ask.arch)
               third == Rehash(handle, Expected)
               fourth == IF \A alg \in Algorithms : signed[alg].framed THEN "ok" ELSE "Payload"
               fifth == IF FinalizeBudget(handle, ask.lim) < 0 THEN "RetainedDisk" ELSE "ok"
    <2>1. b = FirstOf(<<first, second, third, fourth, fifth>>)
      BY DEF Bindings
    <2>2. first = "ok"
      BY <1>5, NoDifference
    <2>3. second = "ok"
      BY <1>3, <1>4, AnswersItsRequest DEF BoundTo
    <2>4. third = "ok"
      BY <1>5, RehashedIsBound
    <2>5. fourth = "ok" /\ fifth \in {"ok", "RetainedDisk"}
      OBVIOUS
    <2> HIDE DEF b, first, second, third, fourth, fifth
    <2> QED BY <2>1, <2>2, <2>3, <2>4, <2>5, OfFive
  <1>7. pass \in {"ok", "RetainedDisk"}
    <2>1. len <= ask.lim.package
      BY <1>3, <1>4, <1>5, <1>1 DEF Archived
    <2>2. len \in Nat /\ ask.lim.package \in Nat
      BY <1>1, <1>3, <1>4 DEF Limited
    <2> HIDE DEF len, room
    <2> QED BY <2>1, <2>2
  <1>8. auth = "ok" /\ states = "ok"
    <2> DEFINE signedBy == AuthenticateManifest(Envelope(c), ask.trust)
               short == IF ManifestLen(c.manifest) > ask.lim.manifest THEN "RawManifest" ELSE "ok"
               small == IF ArchiveLen(c.archive) > ask.lim.archive THEN "CompressedArchive" ELSE "ok"
               framed == IF c.framed THEN "ok" ELSE "Payload"
    <2>1. signedBy = "ok" /\ states = "ok"
      <3> DEFINE p == Envelope(c)
      <3>1. VerifyPackage(p, ask.trust, ask.req) = "ok"
        OBVIOUS
      <3> HIDE DEF p, c
      <3>2. /\ AuthenticateManifest(p, ask.trust) = "ok"
            /\ CheckStatements(p, ask.req, ask.trust) = "ok"
        BY <3>1 DEF VerifyPackage
      <3> QED BY <3>2 DEF p
    <2>2. auth = FirstOf(<<framed, short, small, signedBy>>)
      BY DEF AuthenticateBounded
    <2>3. framed = "ok" /\ c.manifest = man /\ c.archive = arc
      BY <1>5 DEF Container
    <2>4. short = "ok" /\ small = "ok"
      <3>1. ManifestLen(man) <= ask.lim.manifest /\ ArchiveLen(arc) <= ask.lim.archive
        BY <1>3, <1>4 DEF Derived, Archived
      <3>2. ask.lim.manifest \in Nat /\ ask.lim.archive \in Nat
        BY <1>3, <1>4 DEF Limited
      <3>3. ManifestLen(c.manifest) = ManifestLen(man) /\ ArchiveLen(c.archive) = ArchiveLen(arc)
        BY <2>3
      <3> HIDE DEF c
      <3>4. ~(ManifestLen(man) > ask.lim.manifest) /\ ~(ArchiveLen(arc) > ask.lim.archive)
        BY <1>5, <3>1, <3>2
      <3> QED BY <3>3, <3>4
    <2> HIDE DEF auth, framed, short, small, signedBy
    <2> QED BY <2>1, <2>2, <2>3, <2>4, OfFour
  <1>9. copied \in {"ok", "RetainedDisk"}
    <2>1. room - len - a \in Int /\ lim1.disk - ArchiveLen(arc) \in Int
      BY <1>1, <1>3, <1>4, <1>5 DEF Limited
    <2>2. Validate(man, arc, case.req, case.arch, lim1, lim1.disk - ArchiveLen(arc)) = "ok"
      BY <1>3, PreparedPasses DEF BoundTo
    <2>3. \A other \in Int : CheckContents(man, arc, case.arch, lim1, other) \in {"ok", "RetainedDisk"}
      BY <1>3, <2>1, <2>2, ValidIsDescribed
    <2>4. inside \in {"ok", "RetainedDisk"}
      BY <1>4, <1>5, <2>1, <2>3
    <2>5. fits \in {"ok", "RetainedDisk"}
      OBVIOUS
    <2> HIDE DEF fits, inside
    <2> QED BY <2>4, <2>5, OfTwo
  <1> HIDE DEF auth, states, copied
  <1>10. rest \in {"ok", "RetainedDisk"}
    BY <1>8, <1>9, OfThree
  <1> HIDE DEF pass, rest, b
  <1>11. FirstOf(<<pass, rest>>) \in {"ok", "RetainedDisk"}
    BY <1>7, <1>10, OfTwo
  <1> QED BY <1>1, <1>6, <1>11

\* finalize_package makes its container of what is held.
LEMMA FinalizeHolds ==
  ASSUME JInv, Finalize
  PROVE  JInv'
  <1> DEFINE v == FinalizeVerdict(handle, signed, ask.trust, ask.req, ask.arch, ask.lim)
             c == Container(handle, signed)
  <1>1. /\ pc = "signed" /\ pc \notin Making \cup {"refused"} /\ pc \in Holding
        /\ Continue(v, "finalized")
        /\ UNCHANGED <<case, phase, job1, handle, signed, delivered, edits, touched>>
        /\ v # "ok" => UNCHANGED used
    BY DEF Finalize, Making, Holding
  <1>2. Underway /\ DiskHeld /\ Preparation /\ Held /\ UploadAgrees
    BY <1>1 DEF JInv
  <1>3. phase = "finalize" /\ UploadAgrees'
    BY <1>1, <1>2 DEF Underway, PhaseAndStep, Making, Copying, UploadAgrees
  <1>4. CASE v # "ok"
    <2>1. pc' = "refused" /\ verdict' = v /\ used' = used
      BY <1>1, <1>4 DEF Continue, Refuse
    <2>2. DiskHeld' /\ Underway'
      BY <1>1, <1>2, <1>3, <2>1 DEF DiskHeld, Underway, PhaseAndStep
    <2>3. LateRefusals'
      <3> SUFFICES ASSUME Honest' PROVE verdict' = "RetainedDisk"
        BY <1>1, <1>3 DEF LateRefusals
      <3>1. SameJob
        BY <1>1 DEF Honest, SameJob, ask
      <3>2. signed # Nothing
        BY <1>1, <1>2 DEF Held, Nothing, Algorithms
      <3>3. /\ \A alg \in Algorithms : signed[alg].framed
            /\ VerifyPackage(Envelope(Container(handle, signed)), ask.trust, ask.req) = "ok"
        <4>1. /\ ask' = ask /\ Container(handle, signed)' = Container(handle, signed)
              /\ signed' = signed /\ phase' = "finalize"
          BY <1>1, <1>3 DEF ask, Container
        <4>2. /\ \A alg \in Algorithms : signed'[alg].framed
              /\ VerifyPackage(Envelope(Container(handle', signed')), ask'.trust, ask'.req) = "ok"
          BY <3>2, <4>1 DEF Honest
        <4> QED BY <1>1, <4>1, <4>2
      <3> HIDE DEF v
      <3>4. v \in {"ok", "RetainedDisk"}
        BY <1>1, <3>1, <3>3, FinalizeRefuses DEF v
      <3> QED BY <1>4, <2>1, <3>4
    <2> QED BY <1>1, <2>1, <2>2, <2>3, Refusing
  <1>5. CASE v = "ok"
    <2>1. pc' = "finalized" /\ final' = c
      BY <1>1, <1>5 DEF Finalize, Continue
    <2>2. used' = [n |-> 2 * ArchiveLen(c.archive) + ContainerLen(c) + Unpacked(c.archive),
                   limit |-> ask.lim.disk]
      BY <1>5 DEF Finalize
    <2>3. c.archive = handle.arc
      BY DEF Container
    <2>4. /\ handle.man = Expected.manifest_sha256 /\ handle.arc = Expected.archive_sha256
          /\ RequestDifference(Expected, ask.req, ask.arch) = "ok"
          /\ LET all == 2 * ArchiveLen(handle.arc) + ContainerLen(c) + Unpacked(handle.arc)
             IN all \in Nat /\ all <= ask.lim.disk
      BY <1>1, <1>5, FinalizePasses
    <2>5. ask.lim.disk \in Nat
      BY <1>1, HandleIs DEF Limited
    <2>6. DiskHeld'
      BY <2>2, <2>3, <2>4, <2>5 DEF DiskHeld
    <2>7. PhaseAndStep'
      BY <1>1, <1>3, <2>1 DEF PhaseAndStep
    <2>8. Held'
      <3>1. Expected' = Expected /\ ask' = ask
        BY <1>1, <1>2, <2>1, PreparationStays DEF Making, ask
      <3>2. handle' = handle /\ binding' = binding /\ signed' = signed
        BY <1>1 DEF job1
      <3>3. Container(handle, signed)' = c
        BY <3>2 DEF Container
      <3> QED BY <1>1, <1>2, <1>3, <2>1, <2>4, <3>1, <3>2, <3>3 DEF Held, Holding
    <2> QED BY <1>1, <1>3, <2>1, <2>6, <2>7, <2>8, FinishGoesOn
  <1> QED BY <1>4, <1>5

\* publish_package counts the archive, the container and the members once more.
LEMMA PublishHolds ==
  ASSUME JInv, Publish
  PROVE  JInv'
  <1> DEFINE a == ArchiveLen(handle.arc)
             len == ContainerLen(final)
             held == len + Unpacked(final.archive)
             room == ask.lim.disk - a
             v == Pass(len, <<<<"RetainedDisk", room - held>>>>)
  <1>1. /\ pc = "finalized" /\ pc \notin Making \cup {"refused"} /\ pc \in Holding
        /\ phase' = "publish" /\ Continue(v, "published")
        /\ UNCHANGED <<case, job1, handle, signed, final, delivered, edits, touched>>
        /\ v # "ok" => UNCHANGED used
        /\ v = "ok" => /\ published' = final
                       /\ used' = [n |-> a + held + len, limit |-> ask.lim.disk]
    BY DEF Publish, Making, Holding, FinalizeBudget
  <1>2. Underway /\ DiskHeld /\ Preparation /\ Held /\ UploadAgrees
    BY <1>1 DEF JInv
  <1>3. UploadAgrees'
    BY <1>1, <1>2 DEF UploadAgrees
  <1>4. len \in Nat /\ a \in Nat /\ Unpacked(final.archive) \in Nat /\ ask.lim.disk \in Nat
    <2>1. final = Container(handle, signed)
      BY <1>1, <1>2 DEF Held
    <2>2. final.archive = handle.arc /\ final.manifest = handle.man
      BY <2>1 DEF Container
    <2>3. /\ Weighed(handle.arc) /\ ManifestLen(handle.man) \in Nat /\ a \in Nat /\ Limited(ask.lim)
      BY <1>1, HandleIs
    <2>4. len \in Nat
      BY <2>2, <2>3, ContentsAssumption DEF ContainerLen
    <2>5. Unpacked(handle.arc) \in Nat
      <3>1. /\ Len(handle.arc.members) \in Nat
            /\ Unpacked(handle.arc) = SumTo(Lens(handle.arc), Len(handle.arc.members))
            /\ \A k \in 0..Len(handle.arc.members) : SumTo(Lens(handle.arc), k) \in Nat
        BY <2>3, Weighing
      <3> QED BY <3>1
    <2> QED BY <2>2, <2>3, <2>4, <2>5 DEF Limited
  <1>5. v = IF len > room - held THEN "RetainedDisk" ELSE "ok"
    <2>1. len \in Int /\ room - held \in Int
      BY <1>4
    <2> HIDE DEF len, room, held
    <2> QED BY <2>1, PassOne
  <1>6. CASE v # "ok"
    <2>1. pc' = "refused" /\ verdict' = "RetainedDisk" /\ used' = used
      BY <1>1, <1>5, <1>6 DEF Continue, Refuse
    <2>2. DiskHeld' /\ Underway' /\ LateRefusals'
      BY <1>1, <1>2, <2>1 DEF DiskHeld, Underway, PhaseAndStep, LateRefusals
    <2> QED BY <1>1, <2>1, <2>2, Refusing
  <1>7. CASE v = "ok"
    <2>1. pc' = "published" /\ published' = final
      BY <1>1, <1>7 DEF Continue
    <2>2. a + held + len \in Nat /\ a + held + len <= ask.lim.disk
      <3>1. len <= room - held
        BY <1>4, <1>5, <1>7
      <3>2. held \in Nat
        BY <1>4
      <3> DEFINE disk == ask.lim.disk
      <3>3. len <= disk - a - held
        BY <3>1
      <3>4. disk \in Nat /\ len \in Nat /\ a \in Nat
        BY <1>4
      <3> HIDE DEF held, len, a, disk
      <3>5. a + held + len \in Nat /\ a + held + len <= disk
        BY <3>2, <3>3, <3>4
      <3> QED BY <3>5 DEF disk
    <2>3. DiskHeld'
      BY <1>1, <1>4, <1>7, <2>2 DEF DiskHeld
    <2>4. PhaseAndStep'
      BY <1>1, <2>1 DEF PhaseAndStep
    <2>5. Held'
      <3>1. Expected' = Expected /\ ask' = ask
        BY <1>1, <1>2, <2>1, PreparationStays DEF Making, ask
      <3>2. handle' = handle /\ binding' = binding /\ signed' = signed /\ final' = final
        BY <1>1 DEF job1
      <3>3. Container(handle, signed)' = Container(handle, signed)
        BY <3>2 DEF Container
      <3> QED BY <1>1, <1>2, <2>1, <3>1, <3>2, <3>3 DEF Held, Holding
    <2> QED BY <1>1, <1>3, <2>1, <2>3, <2>4, <2>5, FinishGoesOn
  <1> QED BY <1>6, <1>7
-----------------------------------------------------------------------------
(* What others make of a package and of a directory *)

\* An archive that was made, altered in one of the ways of ArchiveVariants,
\* still weighs and still holds something.
LEMMA VariantsWeigh ==
  ASSUME case \in Cases, NEW m, NEW a, Made(m, a), a.members # <<>>, NEW x \in ArchiveVariants(a)
  PROVE  Weighed(x) /\ x.members # <<>> /\ ArchiveLen(x) \in Nat
  <1>1. Weighed(a) /\ a.members \in Seq(Range(a.members))
    BY MadeIs DEF Weighed
  <1>2. PICK blobs : a = ArchiveOf(case.inputs, blobs)
    BY DEF Made
  <1>3. /\ DOMAIN a = {"members", "trailing", "coding"}
        /\ \A i \in DOMAIN a.members : DOMAIN a.members[i] = {"path", "plain", "blob"}
    BY <1>2 DEF ArchiveOf
  <1> DEFINE n == Len(a.members)
  <1>4. n \in Nat /\ DOMAIN a.members = 1..n /\ n # 0 /\ 1 \in DOMAIN a.members
    BY <1>1
  <1>5. CASE x.members = a.members
    BY <1>1, <1>5, Weighing DEF Weighed
  <1>6. CASE x.members = Append(a.members, [path |-> "more", plain |-> TRUE, blob |-> a.members[1].blob])
    <2> DEFINE e == [path |-> "more", plain |-> TRUE, blob |-> a.members[1].blob]
    <2>1. Weighs(e.blob)
      BY <1>1, <1>4 DEF Weighed
    <2> HIDE DEF e
    <2>2. x.members = Append(a.members, e)
      BY <1>6 DEF e
    <2>3. /\ x.members \in Seq(Range(x.members)) /\ Len(x.members) = n + 1
          /\ DOMAIN x.members = 1..(n + 1) /\ x.members[n + 1] = e
          /\ \A i \in DOMAIN a.members : x.members[i] = a.members[i]
      BY <1>1, <2>2, AppendsToRange
    <2>4. \A i \in DOMAIN x.members : Weighs(x.members[i].blob)
      BY <1>1, <1>4, <2>1, <2>3 DEF Weighed
    <2>5. Weighed(x)
      BY <2>3, <2>4 DEF Weighed
    <2> QED BY <1>4, <2>3, <2>5, Weighing
  <1>7. ASSUME NEW b \in Blobs, x = [a EXCEPT !.members[1].blob = b]
        PROVE  Weighed(x) /\ x.members # <<>> /\ ArchiveLen(x) \in Nat
    <2>1. /\ x.members = [a.members EXCEPT ![1] = [a.members[1] EXCEPT !.blob = b]]
          /\ x.members[1].blob = b
      BY <1>3, <1>4, <1>7
    <2>2. /\ DOMAIN x.members = 1..n /\ \A i \in 1..n : i # 1 => x.members[i] = a.members[i]
          /\ x.members = [i \in 1..n |-> x.members[i]]
      BY <1>4, <2>1
    <2>3. \A i \in DOMAIN x.members : Weighs(x.members[i].blob)
      BY <1>1, <1>4, <2>1, <2>2, PipelineAssumption DEF Weighed
    <2>4. x.members \in Seq(Range(x.members)) /\ Len(x.members) = n
      BY <1>4, <2>2, ListRange
    <2>5. Weighed(x)
      BY <2>3, <2>4 DEF Weighed
    <2> QED BY <1>4, <2>4, <2>5, Weighing
  <1>8. \/ x.members = a.members
        \/ x.members = Append(a.members, [path |-> "more", plain |-> TRUE, blob |-> a.members[1].blob])
        \/ \E b \in Blobs : x = [a EXCEPT !.members[1].blob = b]
    BY <1>3 DEF ArchiveVariants
  <1> QED BY <1>5, <1>6, <1>7, <1>8

\* Whatever the path made of the package, both readers agree.
LEMMA DeliverHolds ==
  ASSUME JInv, pc = "published", NEW c \in DeliveredAs(published), Deliver(c)
  PROVE  JInv'
  <1>1. /\ pc \notin Making \cup {"refused"} /\ pc \in Holding
        /\ UNCHANGED <<case, pc, phase, job1, handle, signed, final, published, used, edits, touched>>
    BY DEF Deliver, Making, Holding
  <1>2. Underway /\ DiskHeld /\ Preparation /\ Held
    BY <1>1 DEF JInv
  <1>3. /\ case \in Cases /\ Limited(ask.lim) /\ Made(handle.man, handle.arc)
        /\ Listing(handle.man) /\ Weighed(handle.arc) /\ handle.arc.members # <<>>
    BY <1>1, HandleIs
  <1>4. Listing(OtherManifest) /\ Weighed(OtherArchive) /\ OtherArchive.members # <<>>
    BY <1>1, Afterwards, MadeWeighs
  <1>5. published = Container(handle, signed)
    BY <1>2 DEF Held
  <1>6. Weighed(c.archive) /\ c.archive.members # <<>> /\ Listing(c.manifest)
    <2> DEFINE p == published
    <2>1. /\ DOMAIN p = {"manifest", "archive", "signed", "framed"}
          /\ p.manifest = handle.man /\ p.archive = handle.arc
      BY <1>5 DEF Container
    <2>2. \/ c = p
          \/ c = [p EXCEPT !.framed = FALSE]
          \/ \E a \in ArchiveVariants(p.archive) : c = [p EXCEPT !.archive = a]
          \/ c = [p EXCEPT !.manifest = OtherManifest, !.archive = OtherArchive]
      BY DEF DeliveredAs
    <2> HIDE DEF p
    <2>3. CASE c = p \/ c = [p EXCEPT !.framed = FALSE]
      <3>1. c.manifest = p.manifest /\ c.archive = p.archive
        BY <2>1, <2>3
      <3> QED BY <1>3, <2>1, <3>1
    <2>4. ASSUME NEW a \in ArchiveVariants(p.archive), c = [p EXCEPT !.archive = a]
          PROVE  Weighed(c.archive) /\ c.archive.members # <<>> /\ Listing(c.manifest)
      <3>1. c.manifest = p.manifest /\ c.archive = a
        BY <2>1, <2>4
      <3>2. a \in ArchiveVariants(handle.arc)
        BY <2>1
      <3> QED BY <1>3, <2>1, <3>1, <3>2, VariantsWeigh
    <2>5. CASE c = [p EXCEPT !.manifest = OtherManifest, !.archive = OtherArchive]
      <3>1. c.manifest = OtherManifest /\ c.archive = OtherArchive
        BY <2>1, <2>5
      <3> QED BY <1>4, <3>1
    <2> QED BY <2>2, <2>3, <2>4, <2>5
  <1>7. UploadAgrees'
    <2> DEFINE first == c.manifest.artifacts[1]
               own == DerivedRequest(first, ask.req.namespace)
    <2>1. delivered' = [upload |-> VerifyUpload(c, ask.trust, ask.req.namespace, ask.lim),
                        whole |-> VerifyContents(c, ask.trust, own, first.arch, ask.lim),
                        reserved |-> first.component = TrustTarget]
      BY DEF Deliver
    <2>2. VerifyUpload(c, ask.trust, ask.req.namespace, ask.lim) = "ok" <=>
            /\ VerifyContents(c, ask.trust, own, first.arch, ask.lim) = "ok"
            /\ first.component # TrustTarget
      BY <1>3, <1>6, StagedIsWhole
    <2> HIDE DEF first, own
    <2> QED BY <2>1, <2>2 DEF UploadAgrees
  <1>8. DiskHeld' /\ PhaseAndStep'
    BY <1>1, <1>2 DEF DiskHeld, Underway, PhaseAndStep
  <1>9. Held'
    <2>1. Expected' = Expected /\ ask' = ask
      BY <1>1, <1>2, PreparationStays DEF Making, ask
    <2>2. Container(handle, signed)' = Container(handle, signed) /\ binding' = binding
      BY <1>1 DEF Container, job1
    <2> QED BY <1>1, <1>2, <2>1, <2>2 DEF Held, Holding
  <1>10. phase' \in {"finalize", "publish"}
    BY <1>1, <1>2 DEF Underway, PhaseAndStep, Making, Copying
  <1> QED BY <1>1, <1>7, <1>8, <1>9, <1>10, FinishGoesOn

\* A record has a length however it was spoiled.
LEMMA RecordsHaveLength ==
  ASSUME NEW b, NEW x \in RecordVariants(Emit(b)) \cup {Emit(b)}
  PROVE  x.len \in Nat
  <1> DEFINE r == Emit(b)
  <1>1. DOMAIN r = {"shape", "len", "fields"} /\ r.len \in Nat
    BY ContentsAssumption DEF Emit
  <1>2. \A y : Emit(y).len \in Nat
    BY ContentsAssumption DEF Emit
  <1> HIDE DEF r
  <1>3. CASE x.len = r.len
    BY <1>1, <1>3
  <1>4. CASE x = [r EXCEPT !.len = @ + 1]
    <2>1. x.len = r.len + 1
      BY <1>1, <1>4
    <2> QED BY <1>1, <2>1
  <1>5. CASE \E y : x = Emit(y)
    BY <1>2, <1>5
  <1>6. CASE \E s : x = [r EXCEPT !.shape = s]
    BY <1>1, <1>3, <1>6
  <1>7. CASE \E fs : x = [r EXCEPT !.fields = fs]
    BY <1>1, <1>3, <1>7
  <1>8. \/ \E y : x = Emit(y)
        \/ x = [r EXCEPT !.len = @ + 1]
        \/ \E s : x = [r EXCEPT !.shape = s]
        \/ \E fs : x = [r EXCEPT !.fields = fs]
    <2>1. CASE x = r
      BY <2>1 DEF r
    <2>2. CASE \E g \in Broken : x = [r EXCEPT !.fields[g].type = "wrong"]
      BY <2>2
    <2>3. CASE \E g \in Broken : x = [r EXCEPT !.fields[g].sound = FALSE]
      BY <2>3
    <2>4. CASE \E s : x = [r EXCEPT !.shape = s]
      BY <2>4
    <2>5. CASE \E g : x = [r EXCEPT !.fields = [f \in (DOMAIN r.fields) \ {g} |-> r.fields[f]]]
      BY <2>5
    <2>6. CASE x = [r EXCEPT !.fields = [f \in (DOMAIN r.fields) \cup {"more"} |->
              IF f = "more" THEN [type |-> "string", sound |-> TRUE, value |-> "x"] ELSE r.fields[f]]]
      BY <2>6
    <2>7. CASE x \in {[r EXCEPT !.len = @ + 1], Emit(OtherBinding), Emit([binding EXCEPT !.version = "v9"])}
      BY <2>7
    <2>8. x \in RecordVariants(r) \cup {r}
      BY DEF r
    <2> QED BY <2>1, <2>2, <2>3, <2>4, <2>5, <2>6, <2>7, <2>8 DEF RecordVariants
  <1> QED BY <1>4, <1>5, <1>6, <1>7, <1>8

\* Whatever is put in a file's place has a length.
LEMMA VariantsAreSized ==
  ASSUME JInv, MayMeddle, NEW f \in FileNames, NEW b \in Variants(f, Original(f)) \cup {Original(f)}
  PROVE  FileLen(f, b) \in Nat
  <1>1. pc \notin Making \cup {"refused"} /\ phase = "reopen" /\ Underway
    BY DEF MayMeddle, JInv, Underway, PhaseAndStep, Making, Copying
  <1>2. /\ case \in Cases /\ Made(man, arc) /\ Made(OtherManifest, OtherArchive) /\ Len(case.inputs) # 0
    BY <1>1, Afterwards
  <1>3. /\ arc.members # <<>> /\ ManifestLen(man) \in Nat /\ ArchiveLen(arc) \in Nat
        /\ ManifestLen(OtherManifest) \in Nat
    BY <1>2, MadeWeighs
  <1>4. CASE f = "manifest"
    <2>1. b \in {OtherManifest, [man EXCEPT !.decodes = FALSE], man}
      BY <1>4 DEF Variants, Original
    <2>2. [man EXCEPT !.decodes = FALSE].artifacts = man.artifacts
      BY <1>2 DEF Made, DeriveManifest
    <2>3. ManifestLen([man EXCEPT !.decodes = FALSE]) = ManifestLen(man)
      BY <2>2 DEF ManifestLen
    <2>4. ManifestLen(b) \in Nat
      BY <1>3, <2>1, <2>3
    <2> QED BY <1>4, <2>4 DEF FileLen
  <1>5. CASE f = "archive"
    <2>1. b \in ArchiveVariants(arc) \cup {arc}
      BY <1>5 DEF Variants, Original
    <2>2. ArchiveLen(b) \in Nat
      BY <1>2, <1>3, <2>1, VariantsWeigh
    <2> QED BY <1>5, <2>2 DEF FileLen
  <1>6. CASE f = "record"
    <2>1. b \in RecordVariants(Emit(binding)) \cup {Emit(binding)}
      BY <1>6 DEF Variants, Original
    <2>2. b.len \in Nat
      BY <2>1, RecordsHaveLength
    <2> QED BY <1>6, <2>2 DEF FileLen
  <1> QED BY <1>4, <1>5, <1>6 DEF FileNames

\* An edit of the directory is a step of the reopening that changes nothing else.
LEMMA MeddledHolds ==
  ASSUME JInv, Meddles, FilesApart',
         UNCHANGED <<case, pc, phase, verdict, job1, handle, reading, signed, outcome, used>>
  PROVE  JInv'
  <1>1. /\ phase = "reopen" /\ pc \notin {"prepared", "refused"} /\ edits < MaxEdits
        /\ edits' = edits + 1 /\ touched' = TRUE
    BY DEF Meddles, MayMeddle
  <1>2. Underway /\ DiskHeld /\ UploadAgrees /\ Preparation /\ Held /\ Opening /\ Persisted
    BY <1>1 DEF JInv
  <1>3. pc \notin Making
    BY <1>1, <1>2 DEF Underway, PhaseAndStep, Making, Copying
  <1>4. Underway' /\ DiskHeld' /\ UploadAgrees' /\ LateRefusals'
    <2>1. edits + 1 \in 0..MaxEdits
      BY <1>1, <1>2, PipelineAssumption DEF Underway
    <2> QED BY <1>1, <1>2, <2>1 DEF Underway, PhaseAndStep, DiskHeld, UploadAgrees, LateRefusals, outcome
  <1>5. Preparation' /\ Expected' = Expected
    BY <1>2, <1>3, PreparationStays
  <1>6. Held'
    <2>1. ask' = ask /\ Container(handle, signed)' = Container(handle, signed) /\ binding' = binding
      BY DEF ask, Container, job1
    <2> QED BY <1>2, <1>5, <2>1 DEF Held, Holding, outcome
  <1>7. Opening'
    BY <1>2 DEF Opening, Copying, reading
  <1>8. Persisted'
    <2>1. /\ man' = man /\ arc' = arc /\ lim1' = lim1 /\ phase' = "reopen" /\ pc' = pc
      BY <1>1 DEF job1, lim1
    <2>4. pc # "persisted"
      BY <1>1, <1>2 DEF Underway, PhaseAndStep, Copying
    <2>2. 2 * (ManifestLen(man) + ArchiveLen(arc) + RecordLen) <= lim1.disk
      BY <1>1, <1>2 DEF Persisted
    <2>3. ManifestLen(man)' = ManifestLen(man) /\ ArchiveLen(arc)' = ArchiveLen(arc)
      BY <2>1
    <2> QED BY <1>1, <2>1, <2>2, <2>3, <2>4 DEF Persisted
  <1> QED BY <1>4, <1>5, <1>6, <1>7, <1>8 DEF JInv

\* The next inode is one that nobody named or opened.
LEMMA FreshIs ==
  ASSUME JInv, MayMeddle
  PROVE  /\ Fresh \in 4..(3 + edits + 1) /\ Fresh \in Inodes
         /\ \A f \in FileNames : Fresh # names[f] /\ Fresh # opened[f]
         /\ edits \in Nat /\ MaxEdits \in Nat /\ edits < MaxEdits /\ FilesApart /\ phase = "reopen"
  <1>1. /\ phase = "reopen" /\ edits < MaxEdits /\ edits \in Nat /\ MaxEdits \in Nat /\ FilesApart
    BY PipelineAssumption DEF MayMeddle, JInv, Underway
  <1>2. /\ \A i \in Inodes : i <= 3 => inode[i].kind # "none"
        /\ \A i \in Inodes : i > 3 + edits => inode[i].kind = "none"
        /\ names \in [FileNames -> 0..(3 + edits)] /\ opened \in [FileNames -> 0..(3 + edits)]
        /\ \A f \in FileNames : \A i \in {names[f], opened[f]} \ {0} : Sized(f, inode[i])
    BY <1>1 DEF FilesApart
  <1> DEFINE P(i) == inode[i].kind = "none"
             n == 3 + edits + 1
  <1>3. n \in 1..(3 + MaxEdits) /\ P(n) /\ n \in Nat
    BY <1>1, <1>2 DEF Inodes
  <1>4. \E i \in Inodes : P(i) /\ \A j \in Inodes : j < i => ~P(j)
    <2> DEFINE S == {i \in Inodes : P(i)}
    <2>1. S \in SUBSET Nat /\ n \in S
      BY <1>1, <1>3 DEF Inodes
    <2>2. PICK i \in S : \A j \in S : i <= j
      BY <2>1, LeastIndex
    <2>3. \A j \in Inodes : j < i => ~P(j)
      BY <2>1, <2>2 DEF Inodes
    <2> QED BY <2>2, <2>3
  <1>5. Fresh \in Inodes /\ P(Fresh) /\ \A j \in Inodes : j < Fresh => ~P(j)
    BY <1>4 DEF Fresh
  <1> HIDE DEF Fresh
  <1>6. Fresh \in 4..n
    <2>1. ~(n < Fresh)
      BY <1>3, <1>5 DEF Inodes
    <2>2. ~(Fresh <= 3)
      BY <1>2, <1>5
    <2> QED BY <1>1, <1>3, <1>5, <2>1, <2>2 DEF Inodes
  <1>7. \A f \in FileNames : Fresh # names[f] /\ Fresh # opened[f]
    <2> SUFFICES ASSUME NEW f \in FileNames, Fresh \in {names[f], opened[f]} PROVE FALSE
      OBVIOUS
    <2>1. Fresh # 0
      BY <1>6
    <2>2. inode[Fresh].kind \in {"regular", "symlink", "other"}
      BY <1>2, <2>1 DEF Sized
    <2> QED BY <1>5, <2>2
  <1> QED BY <1>1, <1>5, <1>6, <1>7

\* What MayMeddle leaves of the directory, one edit later.
LEMMA MoreNames ==
  ASSUME edits \in Nat, edits' = edits + 1, NEW f \in FileNames
  PROVE  /\ MayName(f) \subseteq MayName(f)' /\ 0..(3 + edits) \subseteq 0..(3 + edits')
         /\ 4..(3 + edits + 1) \subseteq MayName(f)'
  BY DEF MayName, Slot, FileNames

\* A name replaced names an inode that nothing else names.
LEMMA ReplaceNameHolds ==
  ASSUME JInv, NEW f \in FileNames, NEW entry, Sized(f, entry), ReplaceName(f, entry)
  PROVE  JInv'
  <1>1. /\ Meddles /\ MayMeddle /\ edits' = edits + 1
        /\ inode' = [inode EXCEPT ![Fresh] = entry] /\ names' = [names EXCEPT ![f] = Fresh]
        /\ UNCHANGED <<case, pc, phase, verdict, job1, handle, reading, signed, outcome, used>>
        /\ opened' = opened /\ phase' = phase
    BY DEF ReplaceName, Meddles, reading
  <1>2. /\ Fresh \in 4..(3 + edits + 1) /\ Fresh \in Inodes
        /\ \A g \in FileNames : Fresh # names[g] /\ Fresh # opened[g]
        /\ edits \in Nat /\ MaxEdits \in Nat /\ edits < MaxEdits /\ FilesApart /\ phase = "reopen"
    BY <1>1, FreshIs
  <1> HIDE DEF Fresh
  <1>3. /\ names \in [FileNames -> 0..(3 + edits)] /\ opened \in [FileNames -> 0..(3 + edits)]
        /\ DOMAIN inode = Inodes
        /\ \A i \in Inodes : i <= 3 => inode[i].kind # "none"
        /\ \A i \in Inodes : i > 3 + edits => inode[i].kind = "none"
        /\ \A g \in FileNames : \A i \in {names[g], opened[g]} \ {0} : i \in MayName(g) /\ Sized(g, inode[i])
        /\ \A g, h \in FileNames : g # h => {names[g], opened[g]} \cap {names[h], opened[h]} \subseteq {0}
    BY <1>2 DEF FilesApart
  <1>4. /\ names'[f] = Fresh /\ \A g \in FileNames : g # f => names'[g] = names[g]
        /\ DOMAIN inode' = Inodes /\ inode'[Fresh] = entry
        /\ \A i \in Inodes : i # Fresh => inode'[i] = inode[i]
    BY <1>1, <1>2, <1>3
  <1>5. names' \in [FileNames -> 0..(3 + edits')] /\ opened' \in [FileNames -> 0..(3 + edits')]
    BY <1>1, <1>2, <1>3
  <1>6. /\ \A i \in Inodes : i <= 3 => inode'[i].kind # "none"
        /\ \A i \in Inodes : i > 3 + edits' => inode'[i].kind = "none"
    BY <1>1, <1>2, <1>3, <1>4 DEF Inodes
  <1>7. ASSUME NEW g \in FileNames, NEW i \in {names'[g], opened'[g]} \ {0}
        PROVE  i \in MayName(g)' /\ Sized(g, inode[i])'
    <2>1. CASE i = Fresh
      <3>1. g = f
        BY <1>1, <1>2, <1>4, <1>7, <2>1
      <3>2. Sized(g, inode'[i])
        BY <1>4, <2>1, <3>1
      <3> QED BY <1>1, <1>2, <2>1, <3>2, MoreNames DEF Sized, FileLen, ManifestLen, ArchiveLen
    <2>2. CASE i # Fresh
      <3>1. i \in {names[g], opened[g]} \ {0}
        BY <1>1, <1>4, <1>7, <2>2
      <3>2. i \in MayName(g) /\ Sized(g, inode[i]) /\ i \in Inodes
        BY <1>2, <1>3, <3>1 DEF Inodes
      <3>3. Sized(g, inode'[i])
        BY <1>4, <2>2, <3>2
      <3> QED BY <1>1, <1>2, <3>2, <3>3, MoreNames DEF Sized, FileLen, ManifestLen, ArchiveLen
    <2> QED BY <2>1, <2>2
  <1>8. ASSUME NEW g \in FileNames, NEW h \in FileNames, g # h
        PROVE  {names'[g], opened'[g]} \cap {names'[h], opened'[h]} \subseteq {0}
    BY <1>1, <1>2, <1>3, <1>4, <1>8
  <1>9. FilesApart'
    BY <1>4, <1>5, <1>6, <1>7, <1>8 DEF FilesApart
  <1> QED BY <1>1, <1>9, MeddledHolds

\* A file edited is the file of one name alone.
LEMMA EditFileHolds ==
  ASSUME JInv, NEW f \in FileNames, NEW entry, Sized(f, entry), EditFile(f, entry)
  PROVE  JInv'
  <1> DEFINE k == names[f]
  <1>1. /\ Meddles /\ MayMeddle /\ edits' = edits + 1 /\ k # 0
        /\ inode' = [inode EXCEPT ![k] = entry] /\ names' = names
        /\ UNCHANGED <<case, pc, phase, verdict, job1, handle, reading, signed, outcome, used>>
        /\ opened' = opened /\ phase' = phase
    BY DEF EditFile, Meddles, reading
  <1>2. edits \in Nat /\ MaxEdits \in Nat /\ edits < MaxEdits /\ FilesApart /\ phase = "reopen"
    BY <1>1, FreshIs
  <1>3. /\ names \in [FileNames -> 0..(3 + edits)] /\ opened \in [FileNames -> 0..(3 + edits)]
        /\ DOMAIN inode = Inodes
        /\ \A i \in Inodes : i <= 3 => inode[i].kind # "none"
        /\ \A i \in Inodes : i > 3 + edits => inode[i].kind = "none"
        /\ \A g \in FileNames : \A i \in {names[g], opened[g]} \ {0} : i \in MayName(g) /\ Sized(g, inode[i])
        /\ \A g, h \in FileNames : g # h => {names[g], opened[g]} \cap {names[h], opened[h]} \subseteq {0}
    BY <1>2 DEF FilesApart
  <1>4. k \in 1..(3 + edits) /\ k \in Inodes
    BY <1>1, <1>2, <1>3 DEF Inodes
  <1>5. DOMAIN inode' = Inodes /\ inode'[k] = entry /\ \A i \in Inodes : i # k => inode'[i] = inode[i]
    BY <1>1, <1>3, <1>4
  <1>6. names' \in [FileNames -> 0..(3 + edits')] /\ opened' \in [FileNames -> 0..(3 + edits')]
    BY <1>1, <1>2, <1>3
  <1>7. /\ \A i \in Inodes : i <= 3 => inode'[i].kind # "none"
        /\ \A i \in Inodes : i > 3 + edits' => inode'[i].kind = "none"
    BY <1>1, <1>2, <1>3, <1>4, <1>5 DEF Inodes, Sized
  <1>8. ASSUME NEW g \in FileNames, NEW i \in {names'[g], opened'[g]} \ {0}
        PROVE  i \in MayName(g)' /\ Sized(g, inode[i])'
    <2>1. i \in MayName(g) /\ Sized(g, inode[i]) /\ i \in Inodes /\ i \in {names[g], opened[g]}
      BY <1>1, <1>2, <1>3, <1>8 DEF Inodes
    <2>2. Sized(g, inode'[i])
      <3>1. i = k => g = f
        BY <1>1, <1>3, <2>1
      <3> QED BY <1>5, <2>1, <3>1
    <2> QED BY <1>1, <1>2, <2>1, <2>2, MoreNames DEF Sized, FileLen, ManifestLen, ArchiveLen
  <1>9. FilesApart'
    BY <1>1, <1>3, <1>5, <1>6, <1>7, <1>8 DEF FilesApart
  <1> QED BY <1>1, <1>9, MeddledHolds

\* A name removed leaves the others.
LEMMA RemoveNameHolds ==
  ASSUME JInv, NEW f \in FileNames, RemoveName(f)
  PROVE  JInv'
  <1>1. /\ Meddles /\ MayMeddle /\ edits' = edits + 1
        /\ inode' = inode /\ names' = [names EXCEPT ![f] = 0]
        /\ UNCHANGED <<case, pc, phase, verdict, job1, handle, reading, signed, outcome, used>>
        /\ opened' = opened /\ phase' = phase
    BY DEF RemoveName, Meddles, reading
  <1>2. edits \in Nat /\ MaxEdits \in Nat /\ edits < MaxEdits /\ FilesApart /\ phase = "reopen"
    BY <1>1, FreshIs
  <1>3. /\ names \in [FileNames -> 0..(3 + edits)] /\ opened \in [FileNames -> 0..(3 + edits)]
        /\ DOMAIN inode = Inodes
        /\ \A i \in Inodes : i <= 3 => inode[i].kind # "none"
        /\ \A i \in Inodes : i > 3 + edits => inode[i].kind = "none"
        /\ \A g \in FileNames : \A i \in {names[g], opened[g]} \ {0} : i \in MayName(g) /\ Sized(g, inode[i])
        /\ \A g, h \in FileNames : g # h => {names[g], opened[g]} \cap {names[h], opened[h]} \subseteq {0}
    BY <1>2 DEF FilesApart
  <1>4. \A g \in FileNames : names'[g] \in {0, names[g]}
    BY <1>1, <1>3
  <1>5. names' \in [FileNames -> 0..(3 + edits')] /\ opened' \in [FileNames -> 0..(3 + edits')]
    BY <1>1, <1>2, <1>3
  <1>6. \A i \in Inodes : i > 3 + edits' => inode'[i].kind = "none"
    BY <1>1, <1>2, <1>3 DEF Inodes
  <1>7. ASSUME NEW g \in FileNames, NEW i \in {names'[g], opened'[g]} \ {0}
        PROVE  i \in MayName(g)' /\ Sized(g, inode[i])'
    <2>1. i \in MayName(g) /\ Sized(g, inode[i])
      BY <1>1, <1>3, <1>4, <1>7
    <2>2. Sized(g, inode'[i])
      BY <1>1, <2>1
    <2> QED BY <1>1, <1>2, <2>1, <2>2, MoreNames DEF Sized, FileLen, ManifestLen, ArchiveLen
  <1>8. ASSUME NEW g \in FileNames, NEW h \in FileNames, g # h
        PROVE  {names'[g], opened'[g]} \cap {names'[h], opened'[h]} \subseteq {0}
    BY <1>1, <1>3, <1>4, <1>8
  <1>9. FilesApart'
    BY <1>1, <1>3, <1>5, <1>6, <1>7, <1>8 DEF FilesApart
  <1> QED BY <1>1, <1>9, MeddledHolds

\* Another directory in its place has files of their own.
LEMMA ChangePlaceHolds ==
  ASSUME JInv, NEW how, ChangePlace(how)
  PROVE  JInv'
  <1>1. /\ Meddles /\ MayMeddle /\ edits' = edits + 1 /\ pc \in {"request", "directory"}
        /\ UNCHANGED <<case, pc, phase, verdict, job1, handle, reading, signed, outcome, used>>
        /\ opened' = opened /\ phase' = phase /\ names' = names
    BY DEF ChangePlace, Meddles, reading
  <1>2. edits \in Nat /\ MaxEdits \in Nat /\ edits < MaxEdits /\ FilesApart /\ phase = "reopen"
    BY <1>1, FreshIs
  <1>3. /\ names \in [FileNames -> 0..(3 + edits)] /\ opened \in [FileNames -> 0..(3 + edits)]
        /\ DOMAIN inode = Inodes
        /\ \A i \in Inodes : i <= 3 => inode[i].kind # "none"
        /\ \A i \in Inodes : i > 3 + edits => inode[i].kind = "none"
        /\ \A g \in FileNames : \A i \in {names[g], opened[g]} \ {0} : i \in MayName(g) /\ Sized(g, inode[i])
        /\ \A g, h \in FileNames : g # h => {names[g], opened[g]} \cap {names[h], opened[h]} \subseteq {0}
    BY <1>2 DEF FilesApart
  <1>4. /\ DOMAIN inode' = Inodes
        /\ \A i \in Inodes : i > 3 => inode'[i] = inode[i]
        /\ \A g \in FileNames : Sized(g, inode'[Slot[g]]) \/ inode'[Slot[g]] = inode[Slot[g]]
        /\ \A i \in Inodes : i <= 3 => inode'[i].kind # "none"
    <2>1. CASE how # "other"
      <3>1. inode' = inode
        BY <2>1 DEF ChangePlace
      <3> QED BY <1>3, <3>1
    <2>2. CASE how = "other"
      <3> DEFINE m == File(OtherManifest)
                 a == File(OtherArchive)
                 r == File(Emit(OtherBinding))
      <3>1. inode' = [inode EXCEPT ![1] = m, ![2] = a, ![3] = r]
        BY <2>2 DEF ChangePlace
      <3>2. Sized("manifest", m) /\ Sized("archive", a) /\ Sized("record", r)
        <4>1. pc \notin Making \cup {"refused"}
          BY <1>1 DEF Making
        <4>2. Made(OtherManifest, OtherArchive) /\ case \in Cases /\ Len(case.inputs) # 0
          BY <4>1, Afterwards
        <4>3. ManifestLen(OtherManifest) \in Nat /\ ArchiveLen(OtherArchive) \in Nat
          BY <4>2, MadeWeighs
        <4>4. Emit(OtherBinding).len \in Nat
          BY RecordsHaveLength
        <4>5. \A b : File(b).kind = "regular" /\ File(b).bytes = b
          BY DEF File
        <4> HIDE DEF m, a, r
        <4>6. /\ m.kind = "regular" /\ m.bytes = OtherManifest
              /\ a.kind = "regular" /\ a.bytes = OtherArchive
              /\ r.kind = "regular" /\ r.bytes = Emit(OtherBinding)
          BY <4>5 DEF m, a, r
        <4> QED BY <4>3, <4>4, <4>6 DEF Sized, FileLen
      <3> HIDE DEF m, a, r
      <3>3. 1 \in Inodes /\ 2 \in Inodes /\ 3 \in Inodes
        BY <1>2 DEF Inodes
      <3>4. /\ DOMAIN inode' = Inodes /\ inode'[1] = m /\ inode'[2] = a /\ inode'[3] = r
            /\ \A i \in Inodes : i \notin {1, 2, 3} => inode'[i] = inode[i]
        BY <1>3, <3>1, <3>3
      <3>5. \A g \in FileNames : Sized(g, inode'[Slot[g]])
        BY <3>2, <3>4 DEF Slot, FileNames
      <3>6. \A i \in Inodes : i <= 3 => inode'[i].kind # "none"
        <4>1. m.kind # "none" /\ a.kind # "none" /\ r.kind # "none"
          BY <3>2 DEF Sized
        <4> QED BY <1>2, <3>4, <4>1 DEF Inodes
      <3> QED BY <3>4, <3>5, <3>6 DEF Inodes
    <2> QED BY <2>1, <2>2
  <1>5. names' \in [FileNames -> 0..(3 + edits')] /\ opened' \in [FileNames -> 0..(3 + edits')]
    BY <1>1, <1>2, <1>3
  <1>6. \A i \in Inodes : i > 3 + edits' => inode'[i].kind = "none"
    BY <1>1, <1>2, <1>3, <1>4 DEF Inodes
  <1>7. ASSUME NEW g \in FileNames, NEW i \in {names'[g], opened'[g]} \ {0}
        PROVE  i \in MayName(g)' /\ Sized(g, inode[i])'
    <2>1. i \in MayName(g) /\ Sized(g, inode[i]) /\ i \in Inodes
      BY <1>1, <1>2, <1>3, <1>7 DEF Inodes
    <2>2. Sized(g, inode'[i])
      <3>1. i = Slot[g] \/ i > 3
        BY <1>2, <2>1 DEF MayName
      <3> QED BY <1>4, <2>1, <3>1
    <2> QED BY <1>1, <1>2, <2>1, <2>2, MoreNames DEF Sized, FileLen, ManifestLen, ArchiveLen
  <1>8. FilesApart'
    BY <1>1, <1>3, <1>4, <1>5, <1>6, <1>7 DEF FilesApart
  <1> QED BY <1>1, <1>8, MeddledHolds

\* Whatever is done to the directory.
LEMMA MeddlingHolds ==
  ASSUME JInv, Meddling
  PROVE  JInv'
  <1>1. CASE \E how \in {"extra", "writable", "link", "other"} : ChangePlace(how)
    BY <1>1, ChangePlaceHolds
  <1>2. ASSUME MayMeddle, NEW f \in FileNames,
          \/ \E b \in Variants(f, Original(f)) : ReplaceName(f, File(b)) \/ EditFile(f, File(b))
          \/ \E kind \in {"symlink", "other"} : ReplaceName(f, [File(Original(f)) EXCEPT !.kind = kind])
          \/ ReplaceName(f, File(Original(f)))
          \/ EditFile(f, [File(Original(f)) EXCEPT !.writable = TRUE])
          \/ RemoveName(f)
        PROVE  JInv'
    <2> DEFINE o == Original(f)
    <2>1. \A b \in Variants(f, o) \cup {o} : Sized(f, File(b))
      <3>1. \A b : File(b).kind = "regular" /\ File(b).bytes = b
        BY DEF File
      <3> QED BY <1>2, <3>1, VariantsAreSized DEF Sized
    <2>2. \A kind \in {"symlink", "other"} : Sized(f, [File(o) EXCEPT !.kind = kind])
      <3> SUFFICES ASSUME NEW kind \in {"symlink", "other"} PROVE Sized(f, [File(o) EXCEPT !.kind = kind])
        OBVIOUS
      <3>1. FileLen(f, o) \in Nat
        BY <1>2, VariantsAreSized
      <3> DEFINE e == [File(o) EXCEPT !.kind = kind]
      <3>2. e.kind = kind /\ e.bytes = o
        BY DEF File
      <3> HIDE DEF e, o
      <3>3. Sized(f, e)
        BY <3>1, <3>2 DEF Sized
      <3> QED BY <3>3 DEF e
    <2>3. Sized(f, [File(o) EXCEPT !.writable = TRUE])
      <3>1. FileLen(f, o) \in Nat
        BY <1>2, VariantsAreSized
      <3> DEFINE e == [File(o) EXCEPT !.writable = TRUE]
      <3>2. e.kind = "regular" /\ e.bytes = o
        BY DEF File
      <3> HIDE DEF e, o
      <3>3. Sized(f, e)
        BY <3>1, <3>2 DEF Sized
      <3> QED BY <3>3 DEF e
    <2>4. CASE \E b \in Variants(f, o) \cup {o} : ReplaceName(f, File(b)) \/ EditFile(f, File(b))
      BY <2>1, <2>4, ReplaceNameHolds, EditFileHolds
    <2>5. CASE \E kind \in {"symlink", "other"} : ReplaceName(f, [File(o) EXCEPT !.kind = kind])
      BY <2>2, <2>5, ReplaceNameHolds
    <2>6. CASE EditFile(f, [File(o) EXCEPT !.writable = TRUE])
      BY <2>3, <2>6, EditFileHolds
    <2>7. CASE RemoveName(f)
      BY <2>7, RemoveNameHolds
    <2> HIDE DEF o
    <2>8. \/ \E b \in Variants(f, o) : ReplaceName(f, File(b)) \/ EditFile(f, File(b))
          \/ \E kind \in {"symlink", "other"} : ReplaceName(f, [File(o) EXCEPT !.kind = kind])
          \/ ReplaceName(f, File(o))
          \/ EditFile(f, [File(o) EXCEPT !.writable = TRUE])
          \/ RemoveName(f)
      BY <1>2 DEF o
    <2> QED BY <2>4, <2>5, <2>6, <2>7, <2>8
  <1> QED BY <1>1, <1>2 DEF Meddling
-----------------------------------------------------------------------------
(* Every step, and what is claimed *)

\* A job begins with nothing made.
LEMMA JInitHolds == Init => JInv
  <1> SUFFICES ASSUME Init PROVE JInv
    OBVIOUS
  <1>1. /\ case \in Cases /\ pc = "start" /\ phase = "prepare" /\ edits = 0 /\ touched = FALSE
        /\ source = case.source /\ snaps = <<>> /\ inode = [i \in Inodes |-> Empty]
        /\ seen = 0 /\ opened = [f \in FileNames |-> 0] /\ delivered = Nothing
        /\ used = [n |-> 0, limit |-> case.lim.disk]
    BY DEF Init
  <1>2. Underway
    <2>1. MaxEdits \in Nat
      BY PipelineAssumption
    <2>2. edits \in 0..MaxEdits
      BY <1>1, <2>1
    <2>4. touched \in BOOLEAN
      BY <1>1, Zenon
    <2>3. pc \in Making
      BY <1>1 DEF Making
    <2> QED BY <1>1, <2>2, <2>3, <2>4 DEF Underway, PhaseAndStep
  <1>3. /\ case.lim.disk \in Nat /\ Len(case.inputs) \in Nat /\ Len(case.source) = Len(case.inputs)
        /\ DOMAIN case.source = 1..Len(case.inputs)
        /\ \A i \in DOMAIN case.source : Weighs(case.source[i])
    BY <1>1, CaseFacts DEF Limited, lim1
  <1>4. DiskHeld
    BY <1>1, <1>3 DEF DiskHeld
  <1>5. LateRefusals /\ UploadAgrees
    BY <1>1 DEF LateRefusals, UploadAgrees
  <1>6. Preparation
    BY <1>1, <1>3 DEF Preparation, Snapped, Making
  <1>7. Held /\ FilesApart
    BY <1>1 DEF Held, Holding, FilesApart
  <1>8. Opening /\ Persisted
    BY <1>1 DEF Opening, Copying, Persisted
  <1> QED BY <1>2, <1>4, <1>5, <1>6, <1>7, <1>8 DEF JInv

\* Nothing changes, nothing is lost.
LEMMA JIdleHolds ==
  ASSUME JInv, UNCHANGED vars
  PROVE  JInv'
  <1>1. UNCHANGED <<case, pc, phase, verdict, source, snaps, man, arc, binding, handle, names, inode,
                    place, seen, opened, signed, final, published, delivered, used, edits, touched>>
    BY DEF vars, job1, directory, reading, outcome
  <1>2. Underway' = Underway /\ DiskHeld' = DiskHeld
    BY <1>1 DEF Underway, PhaseAndStep, DiskHeld
  <1>3. /\ Expected' = Expected /\ Container(handle, signed)' = Container(handle, signed)
        /\ ask' = ask /\ lim1' = lim1
    BY <1>1 DEF Expected, OtherBinding, OtherManifest, OtherArchive, OtherBlobs, Container, ask, lim1
  <1>4. LateRefusals' = LateRefusals /\ UploadAgrees' = UploadAgrees
    BY <1>1, <1>3 DEF LateRefusals, Honest, UploadAgrees
  <1>5. Preparation' = Preparation
    BY <1>1, <1>3 DEF Preparation, Snapped, Derived, Archived, BoundTo
  <1>6. Held' = Held
    BY <1>1, <1>3 DEF Held
  <1>7. FilesApart' = FilesApart /\ Opening' = Opening
    BY <1>1 DEF FilesApart, MayName, Opening
  <1>8. Persisted' = Persisted
    BY <1>1, <1>3 DEF Persisted, AsWritten, NextFile
  <1> QED BY <1>1, <1>2, <1>4, <1>5, <1>6, <1>7, <1>8 DEF JInv

\* Every step of Next keeps the invariant.
LEMMA PipelineStepHolds ==
  ASSUME JInv, [Next]_vars
  PROVE  JInv'
  <1>1. CASE Preparing
    BY <1>1, BeginHolds, StageInputHolds, BuildManifestHolds, BuildArchiveHolds, BindHolds DEF Preparing
  <1>2. CASE \E i \in DOMAIN source, b \in Blobs : EditSource(i, b)
    BY <1>2, EditSourceHolds
  <1>3. CASE Persist \/ Forget
    BY <1>3, PersistHolds, ForgetHolds
  <1>4. CASE Reopening
    BY <1>4, ReopenRequestHolds, OpenDirectoryHolds, StatFileHolds, OpenFileHolds, ReadRecordHolds,
       CopyManifestHolds, CopyArchiveHolds, RevalidateHolds DEF Reopening
  <1>5. CASE Meddling
    BY <1>5, MeddlingHolds
  <1>6. CASE \E reply \in {"sound", "other", "short", "fails"} : Sign(reply)
    BY <1>6, SignHolds
  <1>7. CASE Finalize \/ Publish
    BY <1>7, FinalizeHolds, PublishHolds
  <1>8. CASE pc = "published" /\ \E c \in DeliveredAs(published) : Deliver(c)
    BY <1>8, DeliverHolds
  <1>9. CASE Fails
    BY <1>9, FailsHolds
  <1>10. CASE UNCHANGED vars
    BY <1>10, JIdleHolds
  <1> QED BY <1>1, <1>2, <1>3, <1>4, <1>5, <1>6, <1>7, <1>8, <1>9, <1>10 DEF Next

\* The invariant says what the three properties say.
LEMMA JInvIsEnough == JInv => HandleIsBound /\ LateRefusalIsDisk /\ UploadAgrees
  <1> SUFFICES ASSUME JInv PROVE HandleIsBound /\ LateRefusalIsDisk /\ UploadAgrees
    OBVIOUS
  <1>1. LateRefusals /\ DiskHeld /\ UploadAgrees
    BY DEF JInv
  <1>2. LateRefusalIsDisk
    BY <1>1 DEF LateRefusals, DiskHeld, LateRefusalIsDisk
  <1>3. HandleIsBound
    <2> SUFFICES ASSUME pc \in Holding PROVE HandleIsBound
      BY DEF HandleIsBound, Holding
    <2>1. Held
      BY DEF JInv, Holding
    <2>2. pc \in {"finalized", "published"} => final.manifest = handle.man /\ final.archive = handle.arc
      BY <2>1 DEF Held, Container
    <2> QED BY <2>1, <2>2 DEF Held, HandleIsBound
  <1> QED BY <1>1, <1>2, <1>3

\* HandleIsBound for every job, limit, edit and failure: a prepared package is
\* the bytes its binding names and an archive its manifest describes member for
\* member, and what is finalized is what the caller expected (prepare_package,
\* reopen_prepared, finalize_package).
THEOREM HandleSafety == Spec => []HandleIsBound
  <1>1. Init => JInv
    BY JInitHolds
  <1>2. JInv /\ [Next]_vars => JInv'
    BY PipelineStepHolds
  <1>3. JInv => HandleIsBound
    BY JInvIsEnough
  <1> QED BY <1>1, <1>2, <1>3, PTL DEF Spec

\* LateRefusalIsDisk for every job: where nothing changed on the way, what was
\* prepared reopens, and is refused after the signature for the disk alone; and
\* no call holds more than its caller's limit (persist, reopen_prepared,
\* finalize_package, publish_package).
THEOREM RefusalSafety == Spec => []LateRefusalIsDisk
  <1>1. Init => JInv
    BY JInitHolds
  <1>2. JInv /\ [Next]_vars => JInv'
    BY PipelineStepHolds
  <1>3. JInv => LateRefusalIsDisk
    BY JInvIsEnough
  <1> QED BY <1>1, <1>2, <1>3, PTL DEF Spec

\* UploadAgrees for every package and whatever became of it on its way: a
\* registry with the staging bound takes exactly what verify_contents takes
\* with the whole disk limit (upload_contents, upload_staging_bound).
THEOREM UploadSafety == Spec => []UploadAgrees
  <1>1. Init => JInv
    BY JInitHolds
  <1>2. JInv /\ [Next]_vars => JInv'
    BY PipelineStepHolds
  <1>3. JInv => UploadAgrees
    BY JInvIsEnough
  <1> QED BY <1>1, <1>2, <1>3, PTL DEF Spec
=============================================================================
