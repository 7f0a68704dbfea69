--------------------------- MODULE TrustMints -------------------------------
(***************************************************************************)
(* A small world of release-ops mints for the doors: a rotation of         *)
(* three generations, and the deliveries that must not pass for one.       *)
(***************************************************************************)
EXTENDS Integers, Sequences, TLC

TrustComponent == "trust"
Anchor(key, revoked) ==
    [alg |-> IF key \in {"m1", "mx"} THEN "mldsa87" ELSE "ed25519",
     key |-> key, revoked |-> revoked]
MCDecimal(e) == ToString(e)

Doc(digest, epoch, anchors, minFormat) ==
    [digest |-> digest, epoch |-> epoch, anchors |-> anchors, withdrawn |-> {},
     minFormat |-> minFormat, decodes |-> TRUE, sound |-> TRUE]
Mint(doc, ed, ml, format) ==
    [walks |-> TRUE, sig |-> [ed25519 |-> ed, mldsa87 |-> ml],
     hint |-> [ed25519 |-> ed, mldsa87 |-> ml], format |-> format,
     component |-> TrustComponent, version |-> ToString(doc.epoch),
     commit |-> doc.digest, doc |-> doc]

M1 == Anchor("m1", FALSE)
\* The rotation: g2 introduces e2, g3 is signed by it and revokes e1, and
\* raises the format floor it is itself minted at.
g1 == Mint(Doc("d1", 1, {Anchor("e1", FALSE), M1}, 2), "e1", "m1", 2)
g2 == Mint(Doc("d2", 2, {Anchor("e1", FALSE), Anchor("e2", FALSE), M1}, 2), "e1", "m1", 2)
g3 == Mint(Doc("d3", 3, {Anchor("e1", TRUE), Anchor("e2", FALSE), M1}, 3), "e2", "m1", 3)
\* Another document at g2's epoch, by the same keys.
twin == Mint(Doc("d2b", 2, {Anchor("e1", FALSE), M1}, 2), "e1", "m1", 2)
\* Vouched for by its own anchors alone.
forged == Mint(Doc("dx", 4, {Anchor("ex", FALSE), Anchor("mx", FALSE)}, 2), "ex", "mx", 2)
\* Signed by a key its own document no longer lists.
orphan == Mint(Doc("do", 4, {Anchor("e2", FALSE), M1}, 2), "e1", "m1", 2)
\* Signed by the key g3 revokes, at an epoch above g3's.
late == Mint(Doc("dl", 4, {Anchor("e1", FALSE), M1}, 2), "e1", "m1", 3)
\* Minted below g3's format floor.
lowFormat == Mint(Doc("df", 4, {Anchor("e2", FALSE), M1}, 2), "e2", "m1", 2)
\* Two epoch carriers that disagree.
skewed == [Mint(Doc("ds", 3, {Anchor("e1", FALSE), M1}, 2), "e1", "m1", 2)
             EXCEPT !.version = "4"]
\* A document that withdraws the later generation g3.
recall == Mint([Doc("dr", 2, {Anchor("e1", FALSE), Anchor("e2", FALSE), M1}, 2)
                  EXCEPT !.withdrawn = {<<TrustComponent, "3", "d3">>}], "e1", "m1", 2)
\* No live ML-DSA-87 anchor: the refusing reader's refusal.
mute == Mint(Doc("dm", 4, {Anchor("e1", FALSE), Anchor("m1", TRUE)}, 2), "e1", "m1", 3)

Rotation == {g1, g2, g3}
All == {g1, g2, g3, twin, forged, orphan, late, lowFormat, skewed, recall, mute}
Racing == {g1, g2, late}
RotationOfThree == <<g1, g2, g3>>
Suffixes == {<<g1, g2, g3>>, <<g2, g3>>, <<g3>>}
RotationChains == {<<g2, g3>>, <<g1, g2, g3>>, <<g3, g2>>}
=============================================================================
