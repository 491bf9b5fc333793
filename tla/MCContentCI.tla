------------------------------ MODULE MCContentCI ------------------------------
(* One pack with a validator and a suite; what other packs' processes do is  *)
(* the changes anyone may make.                                             *)
EXTENDS ContentCI

CONSTANTS packA

OnePack == {packA}
TwoJobs == <<packA, packA>>

--------------------------------------------------------------------------------
Tree == {<<"docs", "guide">>, <<"docs", "acme", "logo">>, <<"acme", "logo">>}
Roots == {<<".">>, <<"docs">>, <<"docs", ".">>, <<"docs", "guide">>, <<"docs", "acme">>,
          <<"acme">>, <<"docs", "..", "docs", "guide">>, <<"..", "lab">>, <<"gone">>}

Artifact(id, path, class) ==
  [id |-> id, path |-> path, class |-> class, sources |-> {"origin"}]
Artifacts(id) ==
  {Artifact(id, path, class) : path \in Roots,
                               class \in {"open", "internal-only", "customer-specific"}}
Overlay(root) == [id |-> "acme", root |-> root]
Source == [id |-> "origin", required |-> TRUE, attributed |-> TRUE]
Ledger(artifacts, overlays) ==
  [pack |-> "lab", safe |-> TRUE, gates |-> ReviewGates, sources |-> <<Source>>,
   artifacts |-> artifacts, overlays |-> overlays]
MCLedgers ==
  {Ledger(artifacts, overlays) :
     artifacts \in {<<a>> : a \in Artifacts("a")}
                     \cup {<<a, b>> : a \in Artifacts("a"), b \in Artifacts("b")},
     overlays \in {<<>>} \cup {<<Overlay(root)>> : root \in Roots}}

Asset(id, path, visibility, supply) ==
  [id |-> id, path |-> path, visibility |-> visibility, status |-> supply]
EveryLeaf == <<Asset("x", <<"docs", "guide">>, "public", "shipped"),
               Asset("y", <<"docs", "acme", "logo">>, "participant", "shipped"),
               Asset("z", <<"acme", "logo">>, "public", "shipped")>>
MCAssets == {<<Asset("x", path, visibility, supply)>> :
               path \in {<<"docs", "guide">>, <<"docs", ".", "guide">>, <<"docs">>},
               visibility \in {"public", "operator"}, supply \in {"shipped", "planned"}}
            \cup {<<EveryLeaf[1], EveryLeaf[1]>>}

Unpublished ==
  [declared |-> FALSE, loaded |-> FALSE, clean |-> FALSE, name |-> Absent, version |-> Absent]
MCPublications ==
  {Unpublished} \cup [declared : {TRUE}, loaded : BOOLEAN, clean : BOOLEAN,
                      name : {Absent, "lab", "other"}, version : {Absent, "v1", "v2"}]

Boundary(group, path) == [group |-> group, export |-> "operator", path |-> path]
Known == [purpose |-> "text", license |-> "text"]
Pack(ledger, assets, boundaries, publication) ==
  [name |-> "lab", directory |-> "lab", describes |-> "lab", version |-> "v1", tree |-> Tree,
   ledger |-> ledger, assets |-> assets, boundaries |-> boundaries,
   publication |-> publication, facts |-> Known]

OpenDocs == Ledger(<<Artifact("a", <<"docs">>, "open")>>, <<>>)
Unsafe == [OpenDocs EXCEPT !.safe = FALSE]
Unreviewed == [OpenDocs EXCEPT !.gates = {"licensing"}]
Lab == Pack(OpenDocs, EveryLeaf, {}, Unpublished)
CISubmitted ==
  {Pack(ledger, EveryLeaf, {}, Unpublished) : ledger \in MCLedgers}
  \cup {Pack(ledger, assets, boundaries, publication) :
          ledger \in {OpenDocs, Unsafe, Unreviewed, [OpenDocs EXCEPT !.pack = "other"]},
          assets \in MCAssets,
          boundaries \in {{}, {Boundary("operator_only", <<"acme">>)}},
          publication \in MCPublications}

CatalogSource(id, safe, pack) == [id |-> id, safe |-> safe, pack |-> pack]
MCSources ==
  {CatalogSource(id, safe, pack) :
     id \in {"s1", "s2"}, safe \in BOOLEAN,
     pack \in {Lab, [Lab EXCEPT !.version = "v2"], [Lab EXCEPT !.facts = <<>>],
               [Lab EXCEPT !.directory = "elsewhere"]}}
CIListings == UNION {[1 .. n -> MCSources] : n \in 0 .. 3}
================================================================================
