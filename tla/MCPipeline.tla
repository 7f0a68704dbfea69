----------------------------- MODULE MCPipeline -----------------------------
(***************************************************************************)
(* The jobs of a pipeline, and beside them the streams of MCOuter on their *)
(* own.  One or two inputs, one an image, under limits that are each swept *)
(* across the values at which they begin to hold, with the second job      *)
(* given the same; a second job given another request, another binding,    *)
(* smaller limits or a trust set that moved on, and inputs that do not     *)
(* make a package; a plain job with every limit wide whose sources and     *)
(* directory others alter; and the images of MCImages.                     *)
(***************************************************************************)
EXTENDS Pipeline, MCImages, MCOuter

Blob(id, len, packed, tar) == [id |-> id, len |-> len, packed |-> packed, tar |-> tar]
B1 == Blob("b1", 2, 1, <<>>)
B2 == Blob("b2", 2, 1, <<>>)
B3 == Blob("b3", 3, 2, <<>>)
Saved(tar) == Blob("i", 2, 2, tar)
MCBlobs == {B1, B2, B3}

Input(path, version, arch, kind, image) ==
    [path |-> path, component |-> "app", version |-> version, commit |-> "c1", image |-> image,
     disposed |-> TRUE, sound |-> TRUE, arch |-> arch, kind |-> kind]
Binary(path) == Input(path, "v1", "x86_64", "binary", NoImage)
Picture(path, declared) == Input(path, "v1", "x86_64", "image", declared)

Request(target, version, namespace, epoch) ==
    [target |-> target, version |-> version, commit |-> "c1", namespace |-> namespace, epoch |-> epoch]
App == Request("app", "v1", "n1", NoEpoch)
Plain == Request("app", "v1", "none", NoEpoch)

Anchor(alg, key, revoked) == [alg |-> alg, key |-> key, revoked |-> revoked]
Trust(revoked, withdrawn) ==
    [anchors |-> {Anchor("ed25519", "e1", revoked), Anchor("mldsa87", "m1", FALSE)},
     withdrawn |-> withdrawn, minFormat |-> 2, epoch |-> 0]
Live == Trust(FALSE, {})

Wide == [manifest |-> 30, archive |-> 30, package |-> 30, members |-> 3, total |-> 30,
         disk |-> 60, record |-> 2, layers |-> 40, image |-> WideImage]

Job(inputs, sources, req, lim, meddled, a) ==
    [inputs |-> inputs, source |-> sources, req |-> req, arch |-> "x86_64", lim |-> lim,
     meddled |-> meddled, ask |-> a]
Ask(expected, req, arch, lim, trust) ==
    [expected |-> expected, req |-> req, arch |-> arch, lim |-> lim, trust |-> trust]
Same(req, lim) == Ask("own", req, "x86_64", lim, Live)

Resources == {"manifest", "archive", "package", "members", "total", "disk", "record", "layers"}
Two == <<Binary("x"), Picture("y", Declared1)>>
TwoBlobs == <<B1, Saved(Archive1)>>

Swept ==
    {[Wide EXCEPT ![r] = n] : r \in Resources \ {"disk"}, n \in 0..10}
    \cup {[Wide EXCEPT !.disk = n] : n \in 0..32}
    \cup {[Wide EXCEPT !.disk = n, !.total = t] : n \in 14..32, t \in {4, 5}}
    \cup {[Wide EXCEPT !.package = n, !.archive = a, !.manifest = k] :
            n \in 8..10, a \in {3, 4, 5}, k \in {2, 3}}
LimitJobs ==
    {Job(Two, TwoBlobs, App, lim, FALSE, Same(App, lim)) : lim \in Swept}
    \cup {Job(<<Binary("x")>>, <<B1>>, Plain, [Wide EXCEPT !.disk = n, !.package = p], FALSE,
              Same(Plain, [Wide EXCEPT !.disk = n, !.package = p])) : n \in {12, 20, 30}, p \in {5, 6, 7}}

Asks ==
    {Ask("own", r, a, lim, Live) :
        r \in {App, [App EXCEPT !.version = "v2"], [App EXCEPT !.namespace = "none"], [App EXCEPT !.epoch = 1]},
        a \in {"x86_64", "aarch64"}, lim \in {Wide, [Wide EXCEPT !.disk = 3], [Wide EXCEPT !.record = 1]}}
    \cup {Ask("own", App, "x86_64", Wide, t) : t \in {Trust(TRUE, {}), Trust(FALSE, {<<"app", "v1", "c1">>})}}
    \cup {Ask("other", App, "x86_64", Wide, Live)}
BadInputs ==
    {<<Binary("..")>>, <<Binary("x"), Binary("x")>>, <<Input("x", "v2", "x86_64", "binary", NoImage)>>,
     <<Input("x", "v1", "aarch64", "binary", NoImage)>>, <<Input("x", "v1", "x86_64", "image", NoImage)>>, <<>>}
OtherJobs ==
    {Job(Two, TwoBlobs, App, Wide, FALSE, a) : a \in Asks}
    \cup {Job(ins, [i \in DOMAIN ins |-> B1], Plain, Wide, FALSE, Same(Plain, Wide)) : ins \in BadInputs}
    \cup {LET r == [Plain EXCEPT !.target = "trust", !.epoch = e]
              ins == <<[Binary("x") EXCEPT !.component = "trust"]>>
          IN Job(ins, <<B1>>, r, Wide, FALSE, Same(r, Wide)) : e \in {0, 1}}

MeddledJobs ==
    {Job(<<Binary("x")>>, <<B1>>, Plain, Wide, TRUE, Ask(e, Plain, "x86_64", Wide, Live)) :
        e \in {"own", "other"}}

\* One image, prepared and then asked for as another's; and two that share the
\* operation's budget, all the way.
ImageJob(in, tar, lim) == Job(<<in>>, <<Saved(tar)>>, App, lim, FALSE, Ask("other", App, "x86_64", lim, Live))
ImageJobs ==
    UNION {{ImageJob(Picture("x", c.declared), c.tar, Wide) : c \in ImageCases},
           {ImageJob(Picture("x", Declared2), Archive2, [Wide EXCEPT !.image = lim]) : lim \in ImageLimits},
           {LET lim == [Wide EXCEPT !.layers = n]
            IN Job(<<Picture("x", Declared2), Picture("y", Declared3)>>, <<Saved(Archive2), Saved(Archive3)>>,
                   App, lim, FALSE, Same(App, lim)) : n \in 0..20}}

MCCases == UNION {LimitJobs, OtherJobs, MeddledJobs, ImageJobs}
-----------------------------------------------------------------------------
(* A behaviour is a job, a compressed stream or a decoded one. *)
VARIABLE part

IdleJob == case = (CHOOSE c \in MeddledJobs : TRUE)
IdleGuard == origin = (CHOOSE s \in Sources : s.cut = 0)
IdleWalk == tarball = Whole(<<A1>>, 1)

MCInit ==
    \/ part = "job" /\ IdleGuard /\ GuardInit /\ IdleWalk /\ WalkInit /\ Init
    \/ part = "guard" /\ IdleJob /\ Init /\ IdleWalk /\ WalkInit /\ GuardInit
    \/ part = "walk" /\ IdleJob /\ Init /\ IdleGuard /\ GuardInit /\ WalkInit

MCNext ==
    \/ part = "job" /\ Next /\ UNCHANGED <<part, guardVars, walkVars>>
    \/ part = "guard" /\ GuardNext /\ UNCHANGED <<part, vars, walkVars>>
    \/ part = "walk" /\ WalkNext /\ UNCHANGED <<part, vars, guardVars>>

MCSpec == MCInit /\ [][MCNext]_<<part, vars, guardVars, walkVars>>
=============================================================================
