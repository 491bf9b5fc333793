----------------------------- MODULE MCReleaseBuild -----------------------------
(* The snapshots <<participant edit, operator edit>> of one pack:               *)
(*   <<0,0>> and <<2,1>> supply the artifact their author requires, <<2,0>> one *)
(*   he does not; <<0,1>> has no content identity and supplies nothing; the     *)
(*   pack of <<0,2>> contradicts its module lock, that of <<2,2>> is invalid;   *)
(*   with edit 1 the participant view leaks, and in <<1,1>> it also overlaps.   *)
EXTENDS ReleaseBuild, TLC

MCEditsOf == [participant |-> 0 .. 2, operator |-> 0 .. 2]
MCHolds == [participant |-> [e \in 0 .. 2 |-> IF e = 0 THEN {"d1"} ELSE {"d2"}],
            operator |-> [e \in 0 .. 2 |-> {"d3"}]]

MCDigestOf == [x1 |-> "d1", x2 |-> "d2", x3 |-> "d3", bad |-> "d1"]

Route(mechanism) == [mechanism |-> mechanism, acquisition |-> "prefetch", timing |-> "start"]
Requirement(posture, exact, candidates, locked, specs) ==
  [id |-> "r1", posture |-> posture, exact |-> exact, candidates |-> candidates,
   locked |-> locked, specs |-> specs, routes |-> {Route("oci")}]
Exact(artifact) == Requirement("exact", artifact, NoSelector, NoSelector, NoSelector)
Constrained ==
  Requirement("constrained", Nothing, [c1 |-> "x1", c2 |-> "x2"], [l1 |-> "x1"],
              [s1 |-> [digest |-> "sd", mechanism |-> "oci"]])
Open == Requirement("open", Nothing, NoSelector, NoSelector, NoSelector)

At(requirement) == AuthoredRequirements({"node" :> requirement})
MCAuthored ==
  {At(Exact("x1")), At(Constrained), At(Open), AuthoredRequirements({}),
   AuthoredRequirements({"node" :> Exact("x1"), "node" :> Open})}

Row(view, address, requirement, artifact, mechanism, selectors, specification) ==
  [view |-> view, address |-> address, requirement |-> requirement, artifact |-> artifact,
   mechanism |-> mechanism, selectors |-> selectors, specification |-> specification]
MCSelectors == {NoSelector, [candidate |-> "c1"], [candidate |-> "c3"], [locked |-> "l1"],
                [specification |-> "s1"], [candidate |-> "c1", locked |-> "l1"]}
MCRows == {Row(v, a, i, x, mechanism, s, d) :
             v \in {"participant", "operator"}, a \in {"node", "elsewhere", "malformed"},
             i \in {"r1", "r2"}, x \in DOMAIN MCDigestOf \cup {Nothing},
             mechanism \in {Nothing, "oci", "http", "forged"}, s \in MCSelectors,
             d \in {Nothing, "sd"}}
MCMemberships == {[participant |-> p, operator |-> {"d3"}] : p \in {{"d1"}, {"d2"}}}

--------------------------------------------------------------------------------
Boundary(group, export, path) == [group |-> group, export |-> export, path |-> path]
Participant(path) == Boundary("participant_visible", "participant", path)
Operator(path) == Boundary("operator_only", "operator", path)
Private(path) == Boundary("commercial", "private", path)
MCRowPaths == {<<"docs">>, <<"docs", "keys">>, <<"docs", "keys", "answer">>, <<"ops">>}
MCBoundaries ==
  {{Participant(p), other} : p \in MCRowPaths,
                             other \in UNION {{Operator(q), Private(q)} : q \in MCRowPaths}}
    \cup {{Participant(p), Participant(q), Boundary("oracle_only", "oracle", <<"ops">>)} :
            p, q \in MCRowPaths}
MCPackTrees == [{<<"docs", "guide">>, <<"docs", "keys", "answer">>, <<"ops", "run">>} ->
                  {"file", "link", "dirlink"}]

Apart == {Participant(<<"docs">>), Operator(<<"ops">>)}
Overlapping == {Participant(<<"docs">>), Operator(<<"docs", "keys">>)}
Tree == [leaf \in {<<"docs", "guide">>, <<"docs", "keys", "answer">>, <<"ops", "run">>}
           |-> "file"]

--------------------------------------------------------------------------------
Declared(id, ref, digest, scope, authority) ==
  [id |-> id, ref |-> ref, digest |-> digest, scope |-> scope, authority |-> authority,
   extra |-> {"license"}]
Module == [ref |-> "module", digest |-> "m1"]
MCDeclared ==
  {Declared(id, ref, digest, "pinned", "associated-artifact") :
     id \in {"i1", "i2"}, ref \in {"module", "image", "tool", "other"},
     digest \in {NoDigest, BadDigest, "m1", "t1"}}
  \cup {Declared("i3", "service", NoDigest, "external", "author-declared-external"),
        Declared("i3", "service", "t1", "shipped", "author-declared-external")}
MCKits == {<<>>, <<Unavailable>>, <<<<[ref |-> "tool", scope |-> "shipped"],
                                    [ref |-> "site", scope |-> "external"]>>>>}
Composed(lock, kits, exact, declared) ==
  [lock |-> lock, kits |-> kits, exact |-> exact, declared |-> declared,
   artifacts |-> {"module", "image", "tool", "service"}]
MCPacks == {Composed(<<Module>>, kits, exact, declared) :
              kits \in MCKits,
              exact \in {<<>>, <<[ref |-> "image", digest |-> "t1"]>>,
                         <<[ref |-> "module", digest |-> "t1"]>>},
              declared \in {<<>>} \cup {<<d>> : d \in MCDeclared}
                             \cup {<<d, e>> : d \in MCDeclared, e \in MCDeclared}}

--------------------------------------------------------------------------------
Contradicting == <<Declared("i1", "module", "t1", "pinned", "associated-artifact")>>
MCPackOf(participant, operator) ==
  LET identified == <<participant, operator>> # <<0, 1>>
      supplied == IF participant = 0 THEN "x1" ELSE "x2"
      required == IF operator = 1 \/ <<participant, operator>> = <<2, 2>> THEN "x2" ELSE "x1"
      pack == Composed(<<Module>>, <<>>, <<[ref |-> "image", digest |-> "t1"]>>,
                       IF <<participant, operator>> = <<0, 2>> THEN Contradicting ELSE <<>>)
  IN [lock |-> pack.lock, kits |-> pack.kits, exact |-> pack.exact,
      declared |-> pack.declared, artifacts |-> pack.artifacts,
      static |-> <<participant, operator>> # <<2, 2>>,
      bound |-> identified,
      tree |-> Tree,
      boundaries |-> IF <<participant, operator>> = <<1, 1>> THEN Overlapping ELSE Apart,
      requirements |-> At(Exact(required)),
      rows |-> IF identified
               THEN {Row("participant", "node", "r1", supplied, "oci", NoSelector, Nothing)}
               ELSE {}]
MCPackAt == [s \in Snapshots |-> MCPackOf(s["participant"], s["operator"])]

Interchangeable == Permutations(Builders)
================================================================================
