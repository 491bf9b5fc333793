------------------------------- MODULE PackWizard -------------------------------
(***************************************************************************)
(* wizard.py up to the write: questions, the admission of an untrusted     *)
(* input document, and the one proposal it determines.                     *)
(*                                                                         *)
(* A document is [version, unknownKeys, pack, route, answers, layers]; a   *)
(* generated file stands for its contents by the name of its generator or  *)
(* template, to which pack id, title and description are added alike.      *)
(***************************************************************************)
EXTENDS Sequences, SequencesExt

(* A question: `requires` is the one answer that satisfies a required one.   *)
FreeQuestion == [allowNotSure |-> FALSE, choices |-> {}, required |-> FALSE,
                 requires |-> {}]
ClearedQuestion == [allowNotSure |-> TRUE, choices |-> {"yes", "no"}, required |-> TRUE,
                    requires |-> {"yes"}]

(* The function of a set of rows, one for each key.                          *)
Row(key, value) == [key |-> key, value |-> value]
Table(rows) ==
  [key \in {row.key : row \in rows} |-> (CHOOSE row \in rows : row.key = key).value]

(* CAPABILITIES: what each optional layer generates, flags and points to.    *)
GoldenChecklist == Row("docs/golden-readiness-checklist.md", "golden checklist")
Capabilities ==
  [flag_layer |->
     [flags |-> {"flag_layer"}, points |-> {},
      files |-> Table({Row("flags/placement.yaml", "placement"),
                       Row("challenges/challenges.yaml", "challenges"),
                       Row("ctfd/README.md", "loader")})],
   reference_triangle |->
     [flags |-> {"reference_triangle"}, points |-> {},
      files |-> Table({Row("build/README.md", "build"), Row("tests/README.md", "tests"),
                       Row("docs/walkthroughs/README.md", "walkthroughs"), GoldenChecklist})],
   compatibility |->
     [flags |-> {}, points |-> {"pack.compatibility.yaml"},
      files |-> Table({Row("pack.compatibility.yaml", "compatibility"),
                       Row("README.md", "participant readme"), GoldenChecklist})],
   profile_bundles |->
     [flags |-> {"profile_bundles"}, points |-> {},
      files |-> Table({Row("profiles/bundles.yaml", "bundles"),
                       Row("profiles/_shared/README.md", "shared")})]]

(* ROUTES: the layers a route selects. *)
Routes ==
  Table({Row("minimal", <<>>),
         Row("runnable-local", <<"reference_triangle">>),
         Row("ai-agent-eval", <<"profile_bundles">>),
         Row("security-exercise", <<"flag_layer">>),
         Row("dr-recovery", <<"reference_triangle">>),
         Row("product-integration", <<"compatibility">>),
         Row("publication-ready", <<"compatibility">>)})

(* route_questions *)
Questions(route) ==
  Table({Row("title", FreeQuestion), Row("description", FreeQuestion)}
          \cup (IF route = "publication-ready"
                THEN {Row("publication_cleared", ClearedQuestion)} ELSE {}))

--------------------------------------------------------------------------------
(* normalize_inputs *)
AnswerFits(question, value) ==
  /\ value # "malformed"
  /\ IF value = "not-sure" THEN question.allowNotSure
     ELSE question.choices # {} => value \in question.choices

Admissible(raw) ==
  /\ raw.version = "current" /\ ~raw.unknownKeys
  /\ raw.pack # "malformed"
  /\ raw.route \in DOMAIN Routes
  /\ DOMAIN raw.answers \subseteq DOMAIN Questions(raw.route)
  /\ \A key \in DOMAIN raw.answers :
       AnswerFits(Questions(raw.route)[key], raw.answers[key])
  /\ ToSet(raw.layers) \subseteq DOMAIN Capabilities

(* ask_questions: the answers a prompted author gives, `said` by key; a blank *)
(* one leaves the question unanswered.                                        *)
Refuses(route, said) ==
  \E key \in DOMAIN Questions(route) :
    said[key] = "not-sure" /\ ~Questions(route)[key].allowNotSure
Asked(route, said) ==
  [key \in {k \in DOMAIN Questions(route) : said[k] # "blank"} |-> said[key]]

(* build_proposal: selected layers in order, each once. *)
Once(wanted) ==
  LET selected[n \in 0 .. Len(wanted)] ==
        IF n = 0 THEN <<>>
        ELSE IF wanted[n] \in ToSet(selected[n - 1]) THEN selected[n - 1]
        ELSE Append(selected[n - 1], wanted[n])
  IN selected[Len(wanted)]
Selected(raw) == Once(Routes[raw.route] \o raw.layers)

(* _required_files; pack.yaml is filled in when the layers are known. *)
RequiredFiles ==
  Table({Row("pack.yaml", "manifest"), Row("sdl/scenario", "sdl"),
         Row("docs/concepts.md", "concepts"), Row("docs/attack-path.md", "attack path"),
         Row("docs/provenance-ledger.yaml", "ledger")})

(* _merge_files refuses a file two generators disagree about. *)
Merged(base, extra) ==
  [path \in DOMAIN base \cup DOMAIN extra |->
     IF path \in DOMAIN extra THEN extra[path] ELSE base[path]]
FilesTo(layers) ==
  LET files[n \in 0 .. Len(layers)] ==
        IF n = 0 THEN RequiredFiles
        ELSE Merged(files[n - 1], Capabilities[layers[n]].files)
  IN files
Conflicting(layers) ==
  \E i \in DOMAIN layers :
    LET before == FilesTo(layers)[i - 1]
        added == Capabilities[layers[i]].files
    IN \E path \in DOMAIN before \cap DOMAIN added : before[path] # added[path]

(* Defect: any answer satisfies a required question. *)
UnresolvedIfOpen(question, key, answers) ==
  IF key \notin DOMAIN answers THEN question.required
  ELSE answers[key] = "not-sure"

(* _unresolved_reason *)
Unresolved(question, key, answers) ==
  IF key \notin DOMAIN answers THEN question.required
  ELSE \/ answers[key] = "not-sure"
       \/ question.requires # {} /\ answers[key] \notin question.requires

(* Proposal.blocking_unresolved *)
Blocking(raw) ==
  {key \in DOMAIN Questions(raw.route) :
     /\ Questions(raw.route)[key].required
     /\ Unresolved(Questions(raw.route)[key], key, raw.answers)}

(* _pack_manifest: the layers the manifest flags and the files it points to. *)
ProposalOf(raw) ==
  LET layers == Selected(raw)
  IN [files |-> FilesTo(layers)[Len(layers)],
      flags |-> UNION {Capabilities[layer].flags : layer \in ToSet(layers)},
      points |-> {"docs/provenance-ledger.yaml"}
                   \cup UNION {Capabilities[layer].points : layer \in ToSet(layers)},
      blocking |-> Blocking(raw)]

--------------------------------------------------------------------------------
(* ADR 0034: a pack is publication-ready only when its author said so. *)
Cleared(raw) ==
  raw.route = "publication-ready" =>
    "publication_cleared" \in DOMAIN raw.answers
      /\ raw.answers["publication_cleared"] = "yes"
================================================================================
