# A formal model of env-packs

This directory models the parts of `raes_env_packs` in which several actors,
failing steps or stale reads decide whether an author's work, a release or a
verdict can be trusted. It contains TLA+ modules translated from the source,
TLC configurations that check them on small instances, and theorems that the
TLA+ proof system (TLAPS) checks for every value of the constants.
`PROJECT.json` maps each definition to the lines it stands for.

To repeat a run: `tlc -config <run>.cfg <module>`; to repeat the proofs: `tlapm <module>.tla`
for each of the modules whose names end in `Proofs`.

## 1. The system and its components

An environment pack is a directory of documents. The package writes, checks,
extends, releases and installs packs. It has no server process of its own
(except the MCP server over one authoring session) and no locks between
processes: what components share is the file system, and what protects them is
the order of reads, checks and renames.

| Component (source) | State | Operations | Hard behaviour | What makes it correct |
|---|---|---|---|---|
| Kit proposal commit (`kits.py`, `_transactions.py`) | pack directory, staging directory beside it, the proposal's base | capture, propose, apply: stage, validate, recheck, exchange, verify, exchange back, clean up | concurrent appliers and editors, failing rollback, interrupts, process death | the path always names a whole pack; no save is lost; a reported commit is in the pack, a refused one is not |
| Kit ledger (`kits.py`, `validation.py`) | materializations, owned paths with baselines, SDL imports, lock, artifact manifest | load and list releases; add, remove, update, replace | long sequences of operations and author edits, shared files, artifact ids | ledger, imports, lock and manifest agree; nothing is orphaned; unowned files are untouched; kits stay inert |
| Distribution (`distribution.py`, `_transactions.py`) | target directory, receipt, a plan per consumer | plan install/update/verify/lock/publish, apply, stage by tree or archive, write receipt | archive, evidence and target change between plan and apply; apply dies | only planned and authenticated bytes are promoted; the receipt is that of a promotion; both routes stage the same bytes |
| Release build (`release.py`, `publication.py`, `component_boundary.py`, `sbom.py`) | shared staging directory, release root | build: identity, staging by view, scan, binding, evidence, inventory, publication profile, immutability, promotion | death between deletion and rename; edits during a build; concurrent builds | a version keeps its identity; what is promoted is whole, authored and accepted; views stay apart |
| Release verification (`verify.py`, `release_provenance.py`) | none: gates over read documents | verify | evidence that is missing or of another release | accepts exactly what one build wrote |
| Authoring session (`authoring.py`, `mcp_server.py`) | retained proposals with results, scratch directories | scaffold, compose, prepare, apply, close | clients that repeat calls, failing clean-up, writers and edits between calls | effects happen at most once and never over the author's work |
| Pack wizard (`wizard.py`) | a scaffold to publish | admit documents, ask, propose, create-only publication | a target that appears meanwhile; layers that meet in a file | nothing is overwritten; one consistent proposal |
| Associated-artifact digests (`digest.py`) | none | resolve an artifact, validate or derive the manifest | a file replaced between reads | the bytes returned are those verified; one change cannot slip between the members |
| Pack file access (`_pack_fs.py`) | open descriptors | inventory, open member | links, special files, replaced parents, a link that is gone before links are counted | no path leaves the root |
| Trusted content CI (`content_ci.py`) | static views, execution snapshots, one process run with two drainer threads | validate, snapshot, run validators and suites, report | wedged or escaping processes, full pipes, reads that wait for more, packs that change and change back | every process ends; a PASS is earned by the leaves that were captured; tails miss less than one read |
| Issue skeleton (`issue_skeleton.py`) | milestones and issues on GitHub | resolve, list, plan, create/update/skip | lost answers, partial failure, reruns, concurrent runs, maintainers | reruns converge and keep edits |
| Validation (`validation.py`, `check.py`) | none | validate documents and the joins between them | one path in several documents, spelled differently | fails closed; what every gate passes, all readers may rely on |
| Catalog (`catalog.py`) | none | project valid packs, aggregate sources, emit | roots that nest, sources that collide | shows only cleared members; the order of sources decides nothing |
| Experiments (`experiments.py`, `_experiment_set.py`) | none | normalise, identify | none | equal sets get equal identities |
| Command lines, repository tools, fuzz target | none | wrap the operations above | none of their own | |

How they interact. `AuthoringSession` and the kit command line call
`kits.propose_*` and `kits.apply_proposal`; the wizard and distribution use the
same `renameat2` transactions as the kit commit. A release build reads a pack
that kit operations and authors change, and distribution consumes the archive
and the evidence a release build emits, after the release verification. Content
CI validates a catalog of packs and then runs their code. All of them see a
pack only through the file system, so a component meets the others as somebody
who changed a directory between two of its reads, and this is how the modules
compose them: each has the other actors (editor, publisher, other appliers)
as actions of its own.

## 2. Modules

**PackStore** is the abstract specification of a kit commit: the pack is one
register, `Build` remembers it as a base, `Swap` replaces exactly the base by
its successor, `Refuse` changes nothing, and `Interrupt` (a process that dies,
or a rollback that fails as well) stops on either side of a swap.

**KitCommit** is `apply_proposal` in detail. Trees are identities; the pack path
and each staging path are names bound to them, and an exchange swaps two
bindings, so whoever opened a tree before keeps reading or writing that tree.
The bytes of a member are the set of changes they incorporate, which is what a
digest comparison tells apart. A save adds a change or puts any earlier bytes
back, as an undo or a checkout does (`Leavable`): a base that was replaced can
become the pack again, and then a stale proposal over it is current. Actions follow the calls: `Propose`/`Proposed`
(`_capture_pack`, member by member with `ReadMember`), `Apply`/`Check`,
`WriteMember`, `Validate`, `Recheck`, `Exchange`, `Verify`, `Restore`,
`EnterRescue`, `KeepForRecovery` (`KitRecoveryError`, staging kept), `Cleanup`
(the `finally` clause), `Interrupted` (an exception that no `except` clause
names, such as `KeyboardInterrupt`: no way back, but the clean-up) and `Crash`
(no clean-up either). The editor saves by renaming a file into place
(`RenameSave`) or through a handle it opened earlier (`OpenMember`,
`WriteOpened`). `callers` says whether callers serialise edits and applies, as
ADR 0035 asks them to, or do as they please; either is an initial state.
`CommitIsCompareAndSwap` is the refinement mapping to PackStore: until an
exchange is verified the register is still what the exchange displaced, so the
linearization point of a commit is its successful verification.

**KitRelease** is what `load_kit_release` admits and what catalogs, searches and
`source_release` make of staged sources: the document checks
(`Violations`, one operator per `_validate_*`), the raw and the parsed module,
the artifact manifest with its byte budget, the second inventory.

**KitLedger** EXTENDS it and takes a kit operation as one step (that is what
PackStore promises). It models what `_materialize_add`, `_stage_removal`,
`_replacement_proposal` and `_ownership_ledger` do to files, imports, lock,
owners, baselines, ledger rows and the artifact manifest, and the diagnostics
that stop them. The contract a staged successor must pass (`Valid`) is that of
`validation.py`. The author writes, deletes and revises files between
operations. An SDL document is its imports and whether its author edited it
since its baseline was taken.

**PackFiles** is `_pack_fs.py`: an inventory walk and member reads below one root
descriptor, one system call per step, over directories that bind names to
directories, files, links and special files. Opening a file (`OpenFile`) and the
status that counts its links (`AdmitFile`) are two calls, so a link may go in
between. **ArtifactResolution** EXTENDS it with the three operations of
`digest.py`, each the sequence of reads it makes in the order it makes them (the
author lanes parse the parents inside `_pack_context`, before anything is hashed or
bound), and with an author who saves, links, replaces or deletes members at any
step.

**PackArchive** has the two routes from a tree to a staging directory, copying
and exporting/extracting with the archive limits. **ReleaseVerification** has
the evidence documents that `sbom.py` and `release_provenance.py` write and
the gates of `verify.py`. **PackDistribution** EXTENDS both: the reads of
planning (`Resolve`, `Sample`), and `apply_install` as `Apply`, `Stage`,
`Recheck`, `Verify`, `Promote` (the existence test), `Move` (the rename it
selected), `Record` and `WriteReceipt` (truncate and write), with a publisher who
replaces archive and evidence and a user who places or removes the target at
any time.

**Publication** joins the rows of a release profile to the requirements the
author wrote (`publication.py`), **ReleaseViews** splits a tree into views by
its boundary rows, **ComponentBoundary** merges the components that lock, kits
and SDL pin with those the author declares. **ReleaseBuild** EXTENDS the three
and ReleaseVerification: `build_release` with its shared staging directory,
each read of the pack where the code makes it, views copied, scanned and bound
one by one, the evidence, the immutability check, the deletion of the old
release entry by entry and the rename, the `finally` clause and process death.

**PackWizard** has the wizard's questions, the admission of an untrusted document
and the proposal it determines. **AuthoringSession** EXTENDS it: the MCP session,
in which a call is one step, for `call()` holds the session's lock, except that
writing a scaffold (`write_proposal`) goes on in steps; beside it command-line
wizards and the author, who know of no lock. Applying a prepared kit proposal
is PackStore's compare-and-swap.

**PackProcess** is `_run_pack_process`: the child, a helper that inherits the
pipes and may leave the group, the two pipes with their drainers, the deadline,
the group kills and the bounded joins. A drainer reads a buffered stream: it takes
chunk after chunk (`Read`) and returns them to the tail only when the read is full
or nobody can write any more (`HandOver`). **ContentCI** extends it to `main`:
static validation, snapshots, and the loop of `check_validators` and
`check_tests` with the comparison before and after each process. What the
comparison sees is what `_capture_execution_snapshot` captures: a leaf member or
the root directory carries its change time, so `bytes` counts the changes of
those and any of them is seen; a directory below the root is compared by the members it
shows at that moment only (`nested`), so what is put there and taken out again, or
swapped and swapped back, leaves no trace. The later gates are one step, except
that the visibility scan opens participant documents by name and waits for ever on
a FIFO among them (`wedged`).

**PackGates** are the joins between a pack's documents: those of the static
contract (`validation.py`) and those the author CI adds (`content_ci.py`), over
paths with every spelling their authors may choose. **PackCatalog** EXTENDS it
with the projection of a valid pack, the aggregation of sources and what is
emitted (`catalog.py`). Both are operators without state; ContentCI extends them,
for the CI is where both sets of gates are applied.

**IssueSkeleton** is a run with `--apply`: `Begin` (options and
`resolve_milestone_number`), `ListIssues` (`matching_template_issue`),
`CreateMilestone`, `Apply` (one request per template), with faults before and
after GitHub acts, and maintainers who edit, move and close.

`<module>Proofs` EXTENDS a module with the theorems about it (section 5), among
them that KitCommit implements PackStore.

`MC*` modules give model values, small catalogs and symmetry. Definitions that
a comment introduces as a defect belong to no specification: they are
plausible mistakes, used to show that the properties notice them.

## 3. What the runs check

**KitCommit** (3,010,691 states). Two proposals, two members, one save of each kind,
faults, interrupts and crashes, callers that serialise and callers that do not.
`LiveTreeIsWhole` (the pack path names a complete, undeleted tree) and
`OneSuccessorPerBase` (two proposals over one base report success only where the
author put that base back in between, in every member; otherwise one at most)
hold of all; with callers that serialise, `SavedWorkSurvives` (no save and no
reported commit is deleted with a staging directory), `RecoveryKeepsOriginal`
(a recovery error leaves the original untouched) and `CommitIsCompareAndSwap`
(the protocol implements PackStore). Two proposals are enough for a collision and
a rollback over it; three appliers without saves were checked once by hand with the
same result.

**KitLedger** (45,848 states). A shelf of two versions of a gateway with an asset each,
a client that depends exactly on the first, takes the asset path of the second and
asks for one artifact id for its module and its asset,
and a probe with a parameter that can be installed twice; ten more sources with
one release each that has one thing wrong with it, nine of which are refused when
loaded and one when added. Two namespaces, two SDL documents, a pack with or
without artifact identity. Any sequence of operations and author edits:
`LedgerTellsOneStory`, `NoOrphanedKitFile`, `UnownedFilesUntouched`,
`DiagnosticsSuffice` (a proposal without diagnostics always has a valid
successor while owned files are intact), `RemovalOrderExists` (somebody is
always free to go), `ArtifactIdsAreStable` (no one operation changes a member's id or
hands one on), `KitsAreInert`. The state space is
complete: nothing is bounded but the shelf and the files an author edits
(`Editable`).

**KitLedgerRebaseline**, **KitLedgerArtifactIds** (violations). See findings 1
and 2.

**PackDistribution** (769,673 states). Two consumers, three archives of two
releases of which one is signed and one archive is beyond the limits, evidence
of either build, mixed, or local, two changes by the publisher, one by the user,
applies that die; consumers that take turns and consumers that do not.
`PromotionIsAuthorized` and `ReceiptTellsAPromotion` hold of any interleaving;
`ReceiptTellsTheTree`, and that a fresh install replaces nothing (the last part of
`PromotionIsAuthorized`), hold while consumers take turns, nobody else touches
the target and no apply died. `VerdictIsExact`
(the gates accept exactly the evidence of one published build, over every
mixture of documents) and `RoutesAgree` (copying and archiving stage the same
bytes) are facts of the constants, stated of the initial states.

**PackDistributionAppeared** (violation). See finding 3.

**ReleaseBuild** (133,001 states). Three builds one after another (each is local
or published), two views, edits that leak a token, break a membership or drop a
requirement, deaths anywhere. `PromotedReleaseIsSound` holds throughout;
`ReleaseIsImmutable` until a builder dies; `EvidenceBindsTheRelease` (the
consumer's verifier accepts what was published) when the author rests during
builds. `AcceptedRowsAreAuthored`, `ViewsKeepApart` and `InventoryIsComplete`
compare the row checks, the splitting into views and the merge of components with
reference definitions over all small inputs. Three builds are the least for a
release, a failed rebuild and a rebuild after it.

**ReleaseBuildLocal** (violation). See finding 4.

**AuthoringSession** (179,419 states). One pack, four proposals, a command-line
wizard, one edit and one revert by the author (to a base of a proposal, which may be no
pack at all), failing clean-ups.
`AppliedAtMostOnce`, `SessionKeepsWork`, `OneReachableProposal`, and over all
small documents and prompts `ProposalsAreSound`. Four proposals allow two
preparations of one pack and their two kit proposals to coexist.

**ArtifactResolution** (1,153,176 states). A pack with an SDL document, a manifest and
artifacts in a directory, a cache to be left out, links and special files, names
that differ in case, every operation, two changes by the author at any step.
`NothingOutsideIsOpened` (no directory outside ever; no file outside while at most
one thing changed: two changes, a hard link made and removed around the open,
do bring one in, and two are in the bound), `ResultIsBound`;
`AcceptedTreeExisted` with at most one change.

**ContentCI** (663,432 states). One pack with a validator and a suite, one change of
its leaves or root, nested directories changed and changed back any number of times,
three chunks of output, pipes of one chunk, reads and tails of two (the code's read is
as large as its tail). `PassIsEarned`, `ChangeBlocksThePack`, `GroupEndsWithItsRun`,
`TailMissesLessThanARead`, and under fairness `CIEnds`: the CI comes to its verdict, or to
a FIFO that a process left among the participant documents. Two jobs of one pack are
the least for a change to block a later one; other packs' processes are some of those
who change it. A pipe of one chunk makes writers block, a read of
two leaves one unreturned, and three chunks make the tail drop one. Two packs with
three jobs, with one chunk of output, were checked once by hand (3,383,640 states).
`CatalogIsSound`, over ledgers of up
to two artifact roots and one overlay among nine spellings of nested, foreign
and missing roots, every combination of publication states and every list of up
to three sources: a pack both gates pass shows no member of a customer's overlay
and none without clearance; of a valid pack no public asset is dropped in silence
and no foreign release is shown; and a catalog is emitted exactly when all its
sources are admissible and distinct, with the same entries in every order. Two
roots and an overlay are the least for a root above, one below and one apart.

**IssueSkeleton** (650,773 states). Three runs with any options, two templates of which
one has a legacy title, two faults, one act of a maintainer; users that take
turns and users that do not. `RerunsConverge` and `RunsFailOnlyFromFaults` for
users that take turns, `RerunsKeepIssues` for all. Two faults and three runs
allow a run that loses the answer to the milestone, one that loses the answer to
an issue, and one that finishes.

Properties of the form `Init => ...` are facts of the constants: the operators
of a pure algorithm are compared with a reference definition over every
input the configuration lists.

Fairness. Only ContentCI states any. The gate's main thread with its timers
(`WF_vars(CIStep)`, `WF_vars(ProcessStep)`) and each of the two drainer threads
(`WF_vars(Drain(s))`) are assumed to go on: these are the interpreter's own threads, and
SIGKILL cannot be refused. That a killed process is gone at once is an
abstraction: between the signal and its death the system may let it run on, and one
in an uninterruptible call stays. Of the packs' processes nothing is assumed: they may
run, block or hold their pipes for ever, and nobody is obliged to open the FIFO that
wedges the gate. A join times out only on a drainer that waits for a writer
and has taken what the command wrote (`CaughtUp`), since ten seconds are ample for one
pipeful. That every run ends rests on the deadline and on these joins, not on the
bound `MaxOutput`: a helper may write for ever, and the second join gives up on
its drainer. The other modules state safety only: their operations are
finite sequences, and a caller may stop at any time.

## 4. Disagreements between the code and its documentation

1. *A rebaseline hides an author's change.* `_ownership_ledger`
   (`kits.py:2273`) records the current bytes of every remaining row as its
   baseline. After the author edits a file of materialization A, removing B
   rewrites A's baseline, and A can then be removed with the author's work,
   although `docs/public/kits.md:265` promises that a modification stops removal.
2. *The ledger names artifacts that do not exist.* On an update or replacement
   `_register_successor_artifacts` (`kits.py:1992`) finds the ids of the paths
   that return taken by their own old records and writes suffixed ids into the
   ledger, while the manifest keeps the old ids. Validation asks only that
   the ledger's ids differ, although `docs/public/kits.md:295` says that it
   enforces the artifact-id joins.
3. *An install may replace what appeared.* `_promote`
   (`distribution.py:752`) looks at the target once more and takes the exchanging
   rename if it exists, so of two installs planned over an absent target the
   second exchanges the first one's tree away; the docstring of `apply_install`
   says an install refuses such a target.
4. *A local rebuild takes the evidence of a published release away.*
   `release_identity` (`publication.py:377`) leaves evidence out, so the
   immutability check passes a local build over a published release; ADR 0028
   says an existing release is not overwritten with different bytes.

Further traces the models contain, for which no property is claimed. They can be
replayed by changing the named constant or dropping the named condition:

- KitCommit: appliers compare bytes, so after the author restores the base of a commit
  (an undo, a checkout) a second proposal over that base also reports success;
  `OneSuccessorPerBase` leaves exactly this out. A base that was read while an editor
  saves may be of a pack that never existed; its proposal is applied if the pack
  comes to be that.
- KitCommit with free callers: a save made to the briefly live successor before the
  exchange back, or one written through an opened member after the verification, is
  deleted with the staging directory; with three appliers a reported
  commit may be lost the same way. ADR 0035 (176-178) names the caveat and asks
  callers to serialise.
- KitLedger: two sources that publish one coordinate with other dependencies can close
  a cycle of dependencies through an update in place, after which neither kit can be
  removed; `RemovalOrderExists` is stated for releases whose coordinate
  determines their dependencies. A kit that others pin exactly cannot be updated
  before they are removed, since every operation changes one materialization
  (`kits.py:2202`). An update or replacement is refused at commit, without a
  diagnostic, when other members hold both the preferred and the suffixed id
  (`kits.py:1241`); this needs a pack in which a member had to take a suffixed id
  before. Between operations an artifact id may change hands: add a kit, remove it and add
  another version into the namespace, and the id returns for another path
  (`kits.py:1410-1433`). `ArtifactIdsAreStable` is about one operation.
- PackDistribution: an update may replace a release other than the
  `prior` its plan showed, because only the kind of the target is looked at again;
  two concurrent applies may write their receipts in the opposite order of their
  renames; a receipt may name an archive other than the one whose bytes
  were promoted, when the publisher replaces it twice between staging and
  resolving.
- ReleaseBuild without `Uncrashed`: a builder that dies after the old profile
  was deleted lets the next build issue another identity for the version. With
  `Serialised = FALSE` two builds share and delete one staging directory. With
  `resting = FALSE` evidence may be of another source set than the release.
- ReleaseBuild, pure parts: `merge_components` keeps only the last incumbent of a
  reference, contrary to the docstring of `incumbent_components`;
  `InventoryIsComplete` assumes `PinnedOnce`. A specification row may carry any
  artifact of its view, and the locked-input join of ADR 0028 is not checked.
- ArtifactResolution: with two changes an accepted set of members may never have
  existed at one moment; ADR 0012 leaves immutable staging to the caller. With two a
  file outside may be read as well: a member becomes a hard link to it, is opened,
  and the link is removed before `os.fstat` counts links (`_pack_fs.py` 312, 326-330).
  One save is enough for a manifest over an SDL document nobody parsed: derivation
  parses the parents first (`digest.py` 400) and hashes afterwards (453), so the
  hashed document may be another one; `AcceptedTreeExisted` says nothing of the
  parents the author lanes parse. One change
  is enough when the manifest lies in a directory with a member it does not list and
  that directory is removed once the manifest was read: `digest.py` takes any path
  from `pack.yaml`, and the layout contract (`pack-layout.md` 181-183), which the model
  follows, puts the manifest at the top.
- AuthoringSession: a preparation whose scratch directory cannot be removed keeps
  its composed proposal without ever answering its handle.
- ContentCI: all packs are validated before the first snapshot is taken, so a
  pack that changes in between runs over bytes nobody validated, although
  the failure text speaks of changes "after static validation".
- ContentCI: an addition below the root may go unnoticed. The snapshot
  (`content_ci.py` 418-431) has the leaf members and the caller adds the root
  directory; the directories in between are not compared. A file that is in
  `validation/` or `tests/` while a process runs and is gone before the next
  comparison, or a directory swapped and swapped back, blocks nothing, although ADR 0013
  (64-66) says that any replacement or addition blocks the remaining phases. A PASS is
  of the leaves and the root, and `PassIsEarned` claims no more.
- ContentCI: a failure report may lack the failure. The drainer calls `read(65536)` on a
  buffered stream (`content_ci.py` 282), which returns only with 64 KiB or at the
  end of the file. When a helper that left the group keeps the pipe open, the
  second join gives up, and of a command that wrote less than 64 KiB and failed
  nothing is reported at all, although the docstring of `_PipeDrainer` (270-271) says
  that the tail carries the actionable error.
- ContentCI: a process may leave a FIFO where `check_visibility` reads a participant
  document (`content_ci.py` 836-863, 889-904); it is opened by name without a look
  at what it is, and the gate waits until somebody writes to it, although
  `_run_pack_process` promises that a descendant never hangs the gate. `CIEnds` names this as one of
  its two ends. Only of a command that failed is the tail reported; one that timed out or
  was killed by a signal is reported without output (`content_ci.py` 394-401).
- ContentCI without `PlainRoots`: `_path_is_parent` (`content_ci.py:978`) takes the
  pack root for no path's parent, so an overlay or a base artifact with root `.`
  overlaps nothing, although the comment of `_check_overlay_base_overlap` says
  that an overlay may neither contain nor live inside a base root. The catalog does
  let `.` govern every path, and then shows members of a customer's overlay that has no
  row of its own. A root written with `..` passes the CI, which normalises it, and
  governs nothing in the catalog, which does not, so a restriction written that
  way is ignored. Of two rows with one root the first governs. The catalog does not
  look at boundary rows: an asset declared public below an `operator_only` row is
  shown.
- IssueSkeleton: matching is by title and milestone
  (`issue_skeleton.py:561`), while the documentation says "by title". An issue
  that a maintainer moved to another milestone is created a second time; a run that
  creates the milestone takes issues of any milestone for its own and leaves
  them there. GitHub lists open milestones only, so a closed one makes every run
  by title fail. Concurrent runs create duplicates.

## 5. What is proved

Each theorem below holds for every value of the constants that satisfies the
assumptions its module names; TLC evaluates those assumptions in every run. All
proofs of an invariant have the same shape: a strengthening that TLC was first
let loose on, `Init` implies it, every action preserves it (one lemma per
action), and it implies the property.

Four invariants judge data that the constants enumerate: `RoutesAgree`,
`InventoryIsComplete`, `CatalogIsSound` and `ProposalsAreSound`. What they are about
is computed along a list (members of an archive, components, ledger rows, layers),
of any length. The recursions are recursive functions, and their proofs share one
argument: `Least` (a set of naturals has a least element, from the library's
well-foundedness), `Induction` over the naturals as a fact about sets, `Recursion`
(a step that stays in a set has a function that follows it), hence the definition
unfolds, one lemma `...Steps` each, and what holds of the first n elements is
carried to n + 1. That the data is of its kind (lists, naturals, contents) is assumed by name.

**KitCommitProofs**: any appliers, members and saves, whether or not callers
serialise, with and without faults, interrupts and crashes (`ConstantsAssumption`:
the original tree is no applier's, proposals and saves are distinct, a pack has
a member).

- `TypeCorrect`, `LiveTreeAlwaysWhole`: `[]TypeOK`, `[]LiveTreeIsWhole`. An exchange
  makes a staged tree live, so staged trees must be whole too, and no other name may be
  bound to the tree that a clean-up deletes. `WholeInv` adds `NamesApart` (an exchange
  permutes the bindings), `StagedIsWhole` (from the validation to the last way
  back) and `StagedIsKept` (only an applier's own last step deletes what its
  staging path names).
- `SuccessorsNeedARestoredBase`: `[]OneSuccessorPerBase`. Two commits over one base
  cannot be told apart by where trees are now, only by what their bytes incorporate, but for
  what the author took out of them. `LineageInv` records where content came from: a member
  carries the mark of the proposal that staged it unless an undo took it out, and no
  other mark but those of the tree it came from and of changes that were taken out before
  (`TreesTellBases`), what a success verified is the
  tree it displaced (`ReadingsTellTrees`), and no two proposals are in each
  other's base (`BasesAreOrdered`), so the later of two successes had the
  earlier one in its base, or that mark was taken out of every member. That a pack has a
  member is needed: over an empty pack two proposals have nothing to differ in.

The second half of the module is about callers that serialise (the properties say so):

- `SavedWorkAlwaysSurvives`, `RecoveryAlwaysKeepsOriginal`:
  `[]SavedWorkSurvives`, `[]RecoveryKeepsOriginal`.
- `CommitImplementsStore`: `Spec => CommitIsCompareAndSwap`, that is PackStore under its
  refinement mapping: initial states map to initial states, a successful
  verification to the swap, an interrupt to an interrupt, everything else to a
  base taken, a refusal or a stutter.

`SerialInv` adds to `LineageInv` what one applier at a time makes true: what was
captured is still what the tree holds, the base is the live pack up to the exchange and
the displaced tree until it is verified or put back (`BaseIsInPlace`), and
every save and commit is in the live pack and, while an exchange is unverified, in the
pack that may come back (`LiveHoldsTheWork`).

**AuthoringSessionProofs**: any packs, prompts, wizards, edits and bounds.

- `TypeCorrect`, `NeverAppliedTwice`, `PreparationsAreReachable`: `[]TypeOK`,
  `[]AppliedAtMostOnce`, `[]OneReachableProposal`;
- `SessionAlwaysKeepsWork`: `Spec => SessionKeepsWork`;
- `ProposalsAreAlwaysSound`: `ProposalsAreSound`, for any documents and sayings.
  Each layer generates at a path what every other one generates there
  (`LayersAgree`), so the files after n layers are those of the set of layers
  (`FilesAreGenerated`), and a proposal depends on that set, the route and the answers
  alone (`ProposalBySet`), which reversing the layers keeps. `DocumentsAssumption`: a
  document has its keys and its layers are a list.

`SessionInv` adds `Publishing` (a session that is writing a scaffold holds the
proposal it writes as `apply` found it), `OnlyRetained` (nothing was written for
a handle that is not retained) and `Composition` (what was composed was composed
for an existing pack by the preparation it comes from). `MissingAssumption`: a
pack that does not exist differs from every pack.

**PackDistributionProofs**: any consumers, releases, archives and evidence, any
interleaving, republication and death.

- `VerdictsAreExact`: `VerdictIsExact`, a lemma per gate.
- `TypeCorrect`, `ReceiptsTellPromotions`, `ReceiptsTellTheTree`: `[]TypeOK`,
  `[]ReceiptTellsAPromotion`, `[]ReceiptTellsTheTree`;
- `PromotionsAreAuthorized`: `Spec => PromotionIsAuthorized`;
- `RoutesAlwaysAgree`: `RoutesAgree`. After the first n paths of an export the staging
  is exactly the regular files among them, with their count and bytes (`StagedSoFar`),
  or refused for good because these exceed a limit already, and they only grow. `ArchiveAssumption`: paths are listed once
  each, sizes and limits are naturals, no staging is the refusal;
  `TreesAssumption`: a tree's members are at those paths and have sizes.

`ReceiptInv` adds `CarriesThePlan` (from the staging on, an apply carries the subject
of a plan that could be applied, verified under the caller's policy; this needs no
turns), and for consumers that take turns `TurnsTellTheTree` and
`CalmTellsTheEvidence`: what is at the target between a rename and the
receipt, and what evidence an apply that verified will find again. The assumptions:
a build's own evidence passes its own check, as `_emit_evidence` enforces, and a set
digest tells packs apart (`DistributionAssumption`, `EvidenceAssumption`); a tree that
an archive yields is not a refusal; an unknown tree binds no set; a receipt is not one
of the texts that stand for no receipt (`ReceiptAssumption`).

**ReleaseBuildProofs**: any number of builders, views, edits, packs and crashes.

- `RowsAreAuthored`: `AcceptedRowsAreAuthored`, for every row and requirement that the
  schemas admit (`AuthorAssumption`);
- `ViewsAreApart`: `ViewsKeepApart`, for every tree and all boundary rows: of two rows
  above one member one is above the other, which the overlap check refuses;
- `InventoriesAreComplete`: `InventoryIsComplete`, for any number of imports, kits, exact
  artifacts and declared rows. Where authorities do not pin one name twice
  (`PinnedOnce`) each component is in as it was pinned (`PinnedHolds`); a declared row
  enters or agrees, and changes no digest that is in (`MergedHolds`). `CompositionAssumption`: these parts of a pack are lists;
- `TypeCorrect`: `[]TypeOK`;
- for builds that take turns (`Serialised`, as in the run; without it two builds delete one
  another's staging directory): `ReleasesAreImmutable`, `EvidenceAlwaysBinds`,
  `PromotedReleasesAreSound`, for `ReleaseIsImmutable`, `EvidenceBindsTheRelease` and
  `PromotedReleaseIsSound`.

`BuildInv` follows the profile of the build at work against the staging directory:
what was copied, bound, attested and judged at each of its steps (`Followed`, `RowsFit`),
that one snapshot is read if the pack rests (`OneSnapshot`), what this makes of a published
release (`ReleaseIsBound`), and that a build past the immutability check has the
identity the version was issued with, through the deletion of the old release
(`IssuedOnce`). `DocumentAssumption`: no document is taken for an absent one. That the
evidence a consumer finds is what its build wrote, and passes the gates, is
`FoundEvidence` and `OwnEvidenceIsAccepted`.

**IssueSkeletonProofs**: any templates, runs, faults and acts of maintainers.

- `RerunsAlwaysConverge`, `FailuresAreFaults`: `[]RerunsConverge`,
  `[]RunsFailOnlyFromFaults`; `RerunsAlwaysKeepIssues`: `Spec => RerunsKeepIssues`.

`ConvergeInv` adds that what a listing found is an issue of that template, that in
turns what it missed is still missing when its turn to be created comes
(`NothingMissed`: the reason a lost answer does no harm), and that a run has left an issue of each
template behind it. `MilestoneInv` adds that a run about to create the milestone
met none that was open. Both hold whatever earlier runs left half done.

**ContentCIProofs**: any packs, jobs, pipe sizes and budgets, whoever changes
packs and whatever their processes do (`CIAssumption`: the jobs are a sequence of
packs).

- `GroupNeverOutlivesItsRun`: `[]GroupEndsWithItsRun`. Once the last sweep is past
  nobody is left in the group, so the helper that may still write has escaped it
  (`GroupInv`).
- `EveryPassIsEarned`: `[]PassIsEarned`; `ChangeAlwaysBlocks`:
  `Spec => ChangeBlocksThePack`; `TypeCorrect`: `[]TypeOK`. They are about leaf members and
  root directories. They share `EarnedInv`. `NobodyIsLost` carries "no
  failures so far" from phase to phase, `EveryJobPassed` counts the loop, and
  `OverIsTheSnapshot` is why both comparisons are needed: the pack at hand may have
  been run over other leaves until the comparison after it, which either blocks it
  or, by `OverIsLater` (leaves are only ever later than the snapshot, for a change time
  is never put back), finds that none of them changed at any moment in between.
- `TailsMissLessThanARead`: `[]TailMissesLessThanARead`. `OutputInv` says of each
  pipe that what is kept are the last chunks that reads returned (`KeepsTheTail`), that
  a drainer that met the end returned all there will ever be (`EndIsFinal`), and
  that every join done in this round was of a drainer that ended or had taken the
  command's last chunk with its current read (`JoinedHasAll`, `Reported`); the
  command is reaped before the first join, so `said` no longer grows.
  `ProcessAssumption`: pipe, read and budget hold a chunk at least.
- `CatalogsAreSound`: `CatalogIsSound`, for any trees, ledgers, assets and roots of the
  packs that were submitted and any lists of sources: canonical paths, the search of the
  most specific row and the aggregation each unfold along their list.
  `DocumentsAssumption`: rows, paths, roots and sources are lists.

**KitLedgerProofs**: any shelf of staged releases, any sources, namespaces, SDL
documents and parameters, any files the author may edit.

- `TypeCorrect`, `LedgerAlwaysTellsOneStory`, `NoKitFileIsEverOrphaned`,
  `KitsAreAlwaysInert`: `[]TypeOK`, `[]LedgerTellsOneStory`, `[]NoOrphanedKitFile`,
  `[]KitsAreInert`;
- `UnownedFilesStay`, `ArtifactIdsStay`: `Spec => UnownedFilesUntouched`,
  `Spec => ArtifactIdsAreStable`;
- `DiagnosticsAlwaysSuffice`, `RemovalOrderAlwaysExists`: `[]DiagnosticsSuffice`,
  `[]RemovalOrderExists`.

`LedgerInv` has four parts. `Sound` is what also holds of the pack between the two
halves of a replacement, when lock and ledger are not yet written: a namespace names
one materialization, two materializations of one kit have one version, each
document imports what targets it (`ImportsTell`), what is owned was put there by its
owner or shared with the author (`KitFilesOwned`, `KitPathsOwned`, `TargetsOwned`), and
ledger rows and artifact ids lie apart (`RowsApart`, `IdsApart`, `IdsLeft`). `LockTells`
is the lock, `IdsOwned` (an id in a namespace is that of a file with an owner), and `LedgerContract` that what a
finished operation leaves is accepted by `validation.py`. A finished
operation is one of two shapes (an add, or a removal), and
a replacement is an add over a staged removal, so the lemmas are about those
two. For `DiagnosticsSuffice` each clause of the contract is shown of the two
shapes from the diagnostics being empty (`AccountedIsValid`, `AddedIsValid`,
`RemovedIsValid`); that some id can be allocated rests on no two
paths of one materialization asking for the same suffixed id
(`CollisionsAreSuffixed`). `RemovalOrderExists` follows from a well-founded order: each
coordinate has a set of coordinates below it (`Layered`), larger than that of anything
it depends on; an add puts its own on top of all that are installed, and of
finitely many kits one has no other above it.

`LedgerAssumption` and `KitReleaseAssumption`: paths of different kinds are different
(a module lies below `sdl/kits/`, where no safe asset target and no direct SDL document
is), there are finitely many, the author is no materialization, bytes the author wrote
are no release's, no document is taken for an absent one, and what satisfies the
schema of `kit.yaml` has an id and a version that match its patterns.

**ArtifactResolutionProofs**: any directories, links, manifests, operations and
saves, and any number of changes.

- `NothingOutsideIsEverOpened`: `[]NothingOutsideIsOpened`. `InsideInv` says that no
  directory of the pack ever holds one from outside except as a link (`DirsFit`), which
  `O_NOFOLLOW` refuses, and that descriptors stand on the pack's directories only (`WalkFit`,
  `MemberFit`). A hard link to a file outside is no such entry: `SecretInv` counts
  the changes it takes. None is in the pack before the first, the file is opened only
  through one, and while it is there the status counts two names (`LinkedIsRefused`: the
  other is the one the file has out there), so what is admitted took a second.
- `ResultsAreBound`: `[]ResultIsBound`. `BoundInv` carries the comparison of the
  kept bytes with the manifest through the binding pass and the second inventory.
- `AcceptedTreesExisted`: `[]AcceptedTreeExisted`. `TreeInv` claims, while at most one
  change happened, what its name says, `OneChange`, in six parts. `History`: after the
  change there are two trees, which differ in one path, in the contents of one file
  or in all below one directory that is gone (`TwoTrees`), and what a directory that
  was opened still holds was content of its path at some moment (`LostTells`).
  `WalkTells`: of every name the walk has passed it found the members that were there
  before the change or those that are there after it (`SeenThere`, `SeenGone`), and of the
  names it has yet to visit it has found nothing. `FirstTells`, `ReadingTells`,
  `ManifestTells` and `ArtifactsTell` say the same of the finished inventory, of the member
  being read, of the manifest and of every artifact that was hashed or bound: each was there at
  some moment. The steps of the reader preserve each part (`WalkStepTells`,
  `OpenStepTells`, `ReaderArtifactsTell`), and the author's first change establishes the
  two trees (`OneChangeGoesOn`); after a second nothing is claimed. At the end every
  path fits the manifest in one of the two trees (`EachPathFits`), and since they differ
  in one place only, one tree fits at all paths (`OnePathLeavesOne`,
  `OneDirectoryLeavesOne`). For a file that changed under two names, it is the link
  count the inventory checks which rules out the mixture (`OneFileIsOnePath`).

`LayoutAssumption`: members lie in the pack's directory or one below it, as deep as the
model goes; the manifest is at the top, where `pack-layout.md` 181-183 puts it (section 4
says what happens elsewhere); no member lies in the excluded cache; directories have one
name each, as file systems have it. `ContentAssumption`: a content is not the mark for
nothing. Both are needed for `AcceptedTreesExisted` only.
`PackFilesAssumption`: the names are in a sequence, directories are finitely many, the root is
not the directory outside, and the mark for nothing is no directory or file.
`ResolutionAssumption`: no directory of the pack holds one from outside or a link to
the file outside when the operation begins, and that file has a name out there.

Only model-checked:

- `CIEnds`: liveness is out of the prover's reach, as is ENABLED.
- What the `violation` runs refute.

## 6. What is not modelled

- Components marked `not_modelled` in `PROJECT.json`: experiment identities, command
  lines and maintenance scripts.
- Validation: the ledger contract is in KitLedger, the boundary overlap in
  ReleaseViews, the other joins in PackGates. The readers' limits, the schemas
  (they hold of every document PackGates is given), the judgement of SDL, which is
  RAES's, and the counts of monitoring corpora are not modelled.
- Catalog: runtimes, launch modes and activity counts, which are projections like
  those modelled; the cards; the sources manifest.
- KitCommit: extended attributes and modes, and a successor that deletes members
  (its successor changes all of them).
- KitLedger: authors who create SDL documents, the ledger file as a bound member,
  namespaces and kit names whose hyphens make two preferred ids one, the `KeyError` of `_baseline_file` for a
  file the author deleted (the operation is then disabled) and of
  `artifact_for_path` for a shared target the manifest does not bind, and packs
  whose SDL is in several directories.
- ArtifactResolution: author lanes let RAES parse SDL by path name
  (`digest.py` 286-308), so only reads through descriptors are claimed; names that
  are not canonical.
- PackDistribution: rendering of plans; signatures of modules, for which no caller has
  a verifier. Loading a mixed evidence directory at once stands for loading it
  file by file, since the publisher may leave any mixture. A plan is
  dropped after a failed apply, which only merges states.
- ReleaseBuild: lint, smoke and the command line. `build_release` collects
  some failures the model stops at; builders forget their locals when they
  end. A pack without content identity is released locally without view sets.
- AuthoringSession: calls that only read, size limits, what `write_proposal` leaves
  in a staging directory after a failure.
- ContentCI: the visibility scan, but for its waiting on a FIFO, and the placement join;
  output bytes as such; reuse of process numbers by the system; the time a killed
  process takes to end; two changes of one leaf within the resolution of change times.
- IssueSkeleton: dry runs, labels, texts, the listing limits; a maintainer who renames an
  issue, after which the next run creates it again.

Bounds. Every counter has a named bound (`Republications`, `UserMoves`,
`EditsOf`, `MaxEdits`, `MaxProposals`, `MaxOutput`, `MaxChanges`, `MaxFaults`,
`MaxMeddling`, `Editable`); each only limits how often or where the environment
acts. Deadlock is not checked where a system may stop: all calls made, all runs
done.

## 7. Plan

1. The remaining pure parts as operators against reference definitions: monitoring
   corpora, experiment identities, `release_tag_gate`.
2. Proofs: every invariant and action property of the passing runs has a theorem;
   what is added under 1 is to get one too. `CIEnds` stays with TLC.
