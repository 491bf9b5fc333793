------------------------------ MODULE MCKitLedger ------------------------------
(* A shelf of four releases: two versions of a gateway kit with an asset each, *)
(* a client that depends exactly on the first version and brings the asset     *)
(* path of the second, and a probe without assets that takes a parameter and   *)
(* can be installed more than once.  The client's asset asks for the artifact  *)
(* id its module has.  Each other source holds one release with one thing      *)
(* wrong with it; all but the exposed one are refused when loaded.             *)
EXTENDS KitLedger, TLC

CONSTANTS gw1, gw2, client, probe, exposed, acting, dropped, tokened, loose, moved,
          grown, heavy, untested, shelf, gateway, consumer, prober, v1, v2, conf, doc,
          etc


Asset(target, visibility, artifact) ==
  <<[source |-> "payload", target |-> target, artifact |-> artifact,
     visibility |-> visibility]>>
Requires(id, version) == <<[kind |-> "kit", id |-> id, version |-> version]>>

(* One artifact per member, the associated-artifact manifest itself excepted.  *)
Document(id, version, assets, prerequisites) ==
  [strict |-> TRUE, schema |-> {}, secrets |-> {}, blank |-> {}, control |-> FALSE,
   id |-> id, version |-> version, words |-> {id},
   module |-> "module", artifacts |-> "artifacts",
   resources |-> [cpu_cores |-> 1, memory_mib |-> 512, storage_mib |-> 1],
   assets |-> assets, prerequisites |-> prerequisites,
   tests |-> <<[path |-> "suite", kind |-> "validate"],
               [path |-> "suite", kind |-> "parameter-variation"],
               [path |-> "suite", kind |-> "multi-kit"]>>,
   components |-> {[scope |-> "shipped", authority |-> "kit"]}]

Module(version, parameters) ==
  [strict |-> TRUE, digest |-> version, artifact |-> "module",
   raw |-> [sections |-> {"nodes"}, parameters |-> parameters],
   parsed |-> [sections |-> {"nodes"}, parameters |-> parameters, valid |-> TRUE,
               version |-> version, variables |-> {"size"}]]

Release(tree, document, parameters, others) ==
  [tree |-> tree, path |-> <<document.id, document.version>>, document |-> document,
   members |-> {Manifest, "artifacts"} \cup others, refused |-> {},
   later |-> {Manifest, "artifacts"} \cup others, size |-> [member \in Members |-> 1],
   module |-> Module(document.version, parameters),
   manifest |-> [strict |-> TRUE, of |-> <<document.id, document.version>>,
                 paths |-> ("kit" :> Manifest) @@ [member \in others |-> member],
                 bound |-> {"kit"} \cup others, parent |-> document.version]]

Plain == {"module", "suite"}

Shelved(r) ==
  CASE r = gw1 -> Document(gateway, v1, Asset(conf, "restricted", "payload"), <<>>)
    [] r = gw2 -> Document(gateway, v2, Asset(doc, "public", "payload"), <<>>)
    [] r = client -> Document(consumer, v1, Asset(doc, "public", "module"), Requires(gateway, v1))
    [] r = exposed -> Document(gateway, v1, Asset(doc, "restricted", "payload"), <<>>)
    [] r = etc -> Document(prober, v1, Asset(etc, "public", "payload"), <<>>)

WithAssets == [r \in {gw1, gw2, client, exposed, etc} |->
                 Release(IF r \in {exposed, etc} THEN r ELSE shelf, Shelved(r), {},
                         Plain \cup {"payload"})]

(* The probe, and the probe with one thing wrong with it.                      *)
Flawed == {acting, dropped, tokened, loose, moved, grown, heavy, untested}

When(r, flaw, x, otherwise) == IF r = flaw THEN x ELSE otherwise

Probes ==
  [r \in {probe} \cup Flawed |->
     LET plain == Release(IF r = probe THEN shelf ELSE r,
                          Document(prober, v1, <<>>, <<>>),
                          {When(r, tokened, "api_token", "size")}, Plain)
     IN [plain EXCEPT
           !.module.raw.sections = When(r, dropped, {"scripts"}, @),
           !.module.parsed.sections = When(r, acting, {"objectives"}, @),
           !.manifest.bound = When(r, loose, @ \ {"suite"}, @),
           !.path = When(r, moved, <<prober, v2>>, @),
           !.later = When(r, grown, @ \cup {"extra"}, @),
           !.size["suite"] = When(r, heavy, 9, @),
           !.document.tests = When(r, untested, <<@[1], @[2]>>, @)]]

StagedDrafts == WithAssets @@ Probes

StagedSources ==
  {[id |-> "shelf", revision |-> "r1", root |-> root] :
     root \in {shelf, exposed, etc} \cup Flawed}

Asked == {{}, {<<"size", "large">>}, {<<"size", "AKIA">>}, {<<"label", "edge">>}}

Interchangeable == Permutations(Namespaces) \cup Permutations(Targets)
================================================================================
