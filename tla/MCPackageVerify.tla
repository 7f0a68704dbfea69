--------------------------- MODULE MCPackageVerify ---------------------------
(***************************************************************************)
(* One package before one verifier, over small sets of packages, trust     *)
(* sets and requests.  The steps are what happens between two deliveries   *)
(* of the same signed bytes: a hop rewrites the unsigned key_id hints or   *)
(* the request it sends along, and release operations tighten the trust.   *)
(* MCDelivery runs them beside the deliveries of whole files.              *)
(***************************************************************************)
EXTENDS PackageVerify

VARIABLES
    trust, pkg, req,   \* what verify_package is given
    returned,          \* what it returned
    delivery           \* the first or the second delivery of the package

verifyVars == <<trust, pkg, req, returned, delivery>>

Ed == {"e1", "e2"}
Ml == {"m1"}
Hints == {"e1", "m1", "stranger", "none"}
Anchor(alg, key, revoked) == [alg |-> alg, key |-> key, revoked |-> revoked]
AnchorSets ==
    {{Anchor("ed25519", "e1", r), Anchor("mldsa87", "m1", FALSE)} \cup s :
        r \in BOOLEAN, s \in {{}, {Anchor("ed25519", "e2", FALSE)}}}
    \cup {{Anchor("ed25519", "e1", FALSE), Anchor("mldsa87", "m1", TRUE)}}

Builds == {<<"app", "v1", "c1">>, <<"trust", "v1", "c1">>}
TrustSets ==
    [anchors : AnchorSets, withdrawn : {{}, {<<"app", "v1", "c1">>}},
     minFormat : {2, 3}, epoch : {0, 1}]

Request(t, v, c, ns, e) ==
    [target |-> t, version |-> v, commit |-> c, namespace |-> ns, epoch |-> e]
Requests ==
    {Request("app", "v1", "c1", ns, NoEpoch) : ns \in {"none", "n1"}}
        \cup {Request("trust", "v1", "c1", "none", e) : e \in {NoEpoch, 0, 1}}

Ref1(name, reserved, canonical) ==
    [norm |-> name, reserved |-> reserved, canonical |-> canonical]
Owner(ns, c) == [namespace |-> ns, component |-> c]
Img(native, config, owner, managed, refs) ==
    [native |-> native, platform |-> "p1", config |-> config, owner |-> owner,
     managed |-> managed, refs |-> refs]
RefLists ==
    {<<Ref1("a", FALSE, FALSE)>>, <<Ref1("r", TRUE, TRUE)>>,
     <<Ref1("b", FALSE, FALSE), Ref1("a", FALSE, FALSE)>>, <<Ref1("r", TRUE, FALSE)>>}
ImageChoices ==
    {NoImage} \cup
    {Img(TRUE, c, Owner("n1", "app"), mg, rs) :
        c \in {"g1", "g2"}, mg \in BOOLEAN, rs \in RefLists}
    \cup {Img(FALSE, "g1", Owner("n1", "app"), TRUE, <<Ref1("a", FALSE, FALSE)>>),
          Img(TRUE, "g1", Owner("n2", "app"), TRUE, <<Ref1("a", FALSE, FALSE)>>),
          Img(TRUE, "g1", Owner("n1", "lib"), TRUE, <<Ref1("a", FALSE, FALSE)>>)}

Artifact(path, b, image) ==
    [path |-> path, component |-> b[1], version |-> b[2], commit |-> b[3],
     image |-> image, disposed |-> TRUE, sound |-> TRUE]
App == <<"app", "v1", "c1">>

Package(sigE, sigM, format, members, artifacts) ==
    [framed |-> TRUE, sig |-> [ed25519 |-> sigE, mldsa87 |-> sigM],
     hint |-> [ed25519 |-> "none", mldsa87 |-> "none"], format |-> format,
     stage1 |-> TRUE, decodes |-> TRUE, members |-> members, artifacts |-> artifacts]

\* Envelopes: every signer, every format, sound contents.
Envelopes ==
    {Package(e, m, f, <<"x">>, <<Artifact("x", b, NoImage)>>) :
        e \in Ed \cup {"absent", "wrong"}, m \in Ml \cup {"absent"},
        f \in {NoFormat, 1, 2, 3}, b \in Builds}
\* Member lists against artifact lists.
ArtifactLists ==
    {<<>>} \cup {<<Artifact(p, b, NoImage)>> : p \in {"x", "..", "y"}, b \in Builds}
    \cup {<<Artifact(p, App, NoImage), Artifact(q, b, NoImage)>> :
            p \in {"x", "y"}, q \in {"x", "y"}, b \in Builds}
    \cup {<<Artifact("x", <<"app", "v1", "/">>, NoImage)>>,
          <<[Artifact("x", App, NoImage) EXCEPT !.sound = FALSE]>>,
          <<[Artifact("..", App, NoImage) EXCEPT !.disposed = FALSE]>>}
MemberLists == {<<>>, <<"x">>, <<"x", "x">>, <<"x", "y">>, <<"y", "x">>, <<"..">>}
Contents == {Package("e1", "m1", 2, ms, as) : ms \in MemberLists, as \in ArtifactLists}
    \cup {[Package("e1", "m1", 2, <<"x">>, <<Artifact("x", App, NoImage)>>) EXCEPT !.framed = FALSE],
          [Package("e1", "m1", 2, <<"x">>, <<Artifact("x", App, NoImage)>>) EXCEPT !.decodes = FALSE],
          [Package("e1", "m1", 1, <<"x">>, <<Artifact("x", App, NoImage)>>) EXCEPT !.stage1 = FALSE]}
\* Two or three declarations.
Declarations ==
    {Package("e1", "m1", 2, <<"x", "y">>, <<Artifact("x", App, i), Artifact("y", App, j)>>) :
        i \in ImageChoices, j \in ImageChoices}
    \cup {Package("e1", "m1", 2, <<"x", "y", "z">>,
            <<Artifact("x", App, i), Artifact("y", App, j), Artifact("z", App, k)>>) :
            i \in {d \in ImageChoices : Len(d.refs) = 2},
            j \in {d \in ImageChoices : Len(d.refs) = 1}, k \in {d \in ImageChoices : Len(d.refs) = 1}}

Plain == [anchors |-> {Anchor("ed25519", "e1", FALSE), Anchor("mldsa87", "m1", FALSE)},
          withdrawn |-> {}, minFormat |-> 2, epoch |-> 0]

VerifyInit ==
    /\ delivery = 1
    /\ \/ trust \in TrustSets /\ pkg \in Envelopes /\ req \in Requests
       \/ /\ trust = Plain /\ pkg \in Contents \cup Declarations
          /\ req \in {r \in Requests : r.target = "app"}
    /\ returned = VerifyPackage(pkg, trust, req)

DeliverAgain(p, t, r) ==
    /\ delivery = 1 /\ delivery' = 2
    /\ pkg' = p /\ trust' = t /\ req' = r
    /\ returned' = VerifyPackage(p, t, r)

\* A hop rewrites the unsigned hint of one algorithm.
RewriteHint(alg, h) ==
    \E p \in {[pkg EXCEPT !.hint[alg] = h]} : DeliverAgain(p, trust, req)

\* A hop sends the same package along with another request.
ChangeRequest(r) == DeliverAgain(pkg, trust, r)

\* Release operations revoke an anchor, withdraw a build, or raise a floor.
Tighten(t) ==
    /\ trust.withdrawn \subseteq t.withdrawn
    /\ t.minFormat >= trust.minFormat /\ t.epoch >= trust.epoch
    /\ {<<a.alg, a.key>> : a \in t.anchors} = {<<a.alg, a.key>> : a \in trust.anchors}
    /\ {a \in t.anchors : ~a.revoked} \subseteq {a \in trust.anchors : ~a.revoked}
    /\ DeliverAgain(pkg, t, req)

VerifyNext ==
    \/ \E alg \in Algorithms, h \in Hints : RewriteHint(alg, h)
    \/ \E r \in Requests : ChangeRequest(r)
    \/ \E t \in TrustSets : Tighten(t)
-----------------------------------------------------------------------------
Distinct(seq) == \A i, j \in DOMAIN seq : seq[i] = seq[j] => i = j
Decls == {pkg.artifacts[i].image : i \in DOMAIN pkg.artifacts} \ {NoImage}
Names(d) == {d.refs[i].norm : i \in DOMAIN d.refs}

\* What an accepted package must be, said without the order of the checks.
Acceptable ==
    /\ pkg.framed /\ pkg.stage1 /\ pkg.decodes
    /\ \A alg \in Algorithms : \E a \in trust.anchors :
            a.alg = alg /\ ~a.revoked /\ a.key = pkg.sig[alg]
    /\ pkg.format \in BuildFormats /\ pkg.format >= trust.minFormat
    /\ Len(pkg.members) = Len(pkg.artifacts) /\ pkg.artifacts # <<>>
    /\ Distinct(pkg.members)
    /\ \A i \in DOMAIN pkg.artifacts :
          LET a == pkg.artifacts[i]
          IN /\ \E k \in DOMAIN pkg.members : pkg.members[k] = a.path
             /\ \A j \in DOMAIN pkg.artifacts : pkg.artifacts[j].path = a.path => i = j
             /\ a.disposed /\ a.sound
             /\ {a.path} \cap UnsafePaths = {}
             /\ {a.component, a.version, a.commit} \cap UnsafeIds = {}
             /\ <<a.component, a.version, a.commit>> = <<req.target, req.version, req.commit>>
    /\ <<req.target, req.version, req.commit>> \notin trust.withdrawn
    /\ req.epoch # NoEpoch => req.epoch > trust.epoch
    /\ \A d \in Decls :
          /\ d.native /\ d.owner = Owner(req.namespace, req.target)
          /\ \A i \in DOMAIN d.refs : d.refs[i].reserved => d.refs[i].canonical /\ d.managed
    /\ \A d, e \in Decls : Names(d) \cap Names(e) # {} =>
          /\ d.config = e.config /\ d.platform = e.platform
          /\ d.owner = e.owner /\ d.managed = e.managed

\* The ordered checks of verify_package accept exactly the acceptable
\* packages: no order, early return or first-seen comparison lets one through
\* or refuses one it should not.
VerdictIsPolicy == returned = "ok" <=> Acceptable

\* What happens between two deliveries of the same signed bytes turns no
\* verdict the wrong way.  A hint rewritten on the way never turns accept into
\* reject or back, and of the refusals only moves between the two names a
\* signature nobody can attribute has: "It can never change accept into reject"
\* (verify_signature).  The verdict that a build is withdrawn cannot be traded
\* for a retryable one by whoever supplies the request (check_withdrawal).  And
\* revoking an anchor, withdrawing a build or raising a floor never admits a
\* package that was refused before.
RedeliveryIsSafe ==
    [][(delivery = 1 /\ delivery' = 2) =>
         /\ (trust' = trust /\ req' = req) =>
               returned' = returned \/ {returned, returned'} = {"BadSignature", "UnknownKeyId"}
         /\ (trust' = trust /\ returned = "WithdrawnBuild") => returned' = "WithdrawnBuild"
         /\ (pkg' = pkg /\ req' = req /\ returned' = "ok") => returned = "ok"]_verifyVars
=============================================================================
