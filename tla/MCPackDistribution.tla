--------------------------- MODULE MCPackDistribution ---------------------------
(* Two releases of one pack, one of them signed, an archive of each, and one   *)
(* archive that exceeds the limits.  The evidence directory holds what a build *)
(* wrote for either, a local release, or a mixture of old and new files.       *)
EXTENDS PackDistribution, TLC

CONSTANTS signedArchive, plainArchive, largeArchive, signedRelease, plainRelease

MCPathOrder == <<"pack.yaml", "sdl/base", "sdl/lock">>
MCSizeOf == [v1 |-> 1, v2 |-> 1, base |-> 1, lock |-> 2, huge |-> 3]

File(content) == [kind |-> "file", content |-> content]
Link(content) == [kind |-> "link", content |-> content]
SignedTree == ("pack.yaml" :> File("v1")) @@ ("sdl/base" :> File("base"))
                @@ ("sdl/lock" :> Link("lock"))
PlainTree == ("pack.yaml" :> File("v2")) @@ ("sdl/base" :> File("base"))

MCPacked == (signedArchive :> Export(SignedTree))
              @@ (plainArchive :> Export(PlainTree))
              @@ (largeArchive :> Append(Export(PlainTree), [name |-> "sdl/lock",
                                    kind |-> "file", content |-> "huge"]))
MCUnpacked == (signedArchive :> SignedTree) @@ (plainArchive :> PlainTree)
                @@ (largeArchive :> ("pack.yaml" :> File("huge")))
MCTreeOf == (signedRelease :> StagedTree(SignedTree)) @@ (plainRelease :> StagedTree(PlainTree))

Pack(version, set, lock) ==
  [name |-> "lab", version |-> version, set |-> set, static |-> TRUE, bound |-> TRUE,
   lock |-> lock, components |-> {"image"}]
SignedPack == Pack("1", "set1", "lock1")
PlainPack == Pack("2", "set2", Missing)
MCPackOf == (signedRelease :> SignedPack) @@ (plainRelease :> PlainPack)
MCUnknown == [Pack("1", "set3", Missing) EXCEPT !.bound = FALSE]

Build(pack, revision, published) ==
  [pack |-> pack, revision |-> revision, published |-> published]
SignedEvidence == EvidenceOf(Build(SignedPack, "r1", TRUE))
PlainEvidence == EvidenceOf(Build(PlainPack, "r1", TRUE))
MCDirectoryOf == [signed |-> SignedEvidence, plain |-> PlainEvidence,
                  mixed |-> [SignedEvidence EXCEPT !.sbom = PlainEvidence.sbom],
                  local |-> EvidenceOf(Build(PlainPack, "r1", FALSE))]

MCBuilds == {Build(pack, revision, published) :
               pack \in {SignedPack, PlainPack, Pack("1", "set4", Missing),
                         [Pack("1", "set5", Missing) EXCEPT !.static = FALSE],
                         [Pack("2", "set6", "lock1") EXCEPT !.components = {"model"}]},
               revision \in {"r1", "r2"}, published \in BOOLEAN}
MCTrees == UNION {[paths -> {File("base"), File("lock"), File("huge"), Link("base")}] :
                    paths \in SUBSET Paths}

Interchangeable == Permutations(Consumers)
================================================================================
