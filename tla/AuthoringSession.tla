---------------------------- MODULE AuthoringSession ----------------------------
(***************************************************************************)
(* authoring.AuthoringSession behind the MCP server: proposals are         *)
(* retained under handles, prepared and applied by handle, and each result *)
(* is remembered so that a client that lost the answer may ask again.      *)
(*                                                                         *)
(* call() runs under one lock and the server runs it synchronously, so all *)
(* calls but one are a step.  Applying a scaffold is wizard.write_proposal,*)
(* which stages and validates beside the target before it publishes: it    *)
(* goes on in steps, as do the command-line wizards and the author, who do *)
(* not know of the lock.  A pack is the set of changes it incorporates,    *)
(* and applying a prepared kit proposal is the compare-and-swap of         *)
(* PackStore, which KitCommit implements.  Handles are numbered in the     *)
(* order the session issues them.                                          *)
(***************************************************************************)
EXTENDS PackWizard, Naturals, FiniteSets

CONSTANTS Packs,          \* direct children of the write root
          Missing,        \* no pack at this path
          MaxProposals,   \* _MAX_PROPOSALS
          MaxEdits,       \* bound on the author's edits
          AllowPrepare, AllowWrites,   \* launch grants
          Faults,         \* TRUE: file system calls and processes may fail
          Wizards,        \* command-line wizards, each writes once
          Session,        \* the session as a writer
          Drafts,         \* wizard documents the clients send
          Documents,      \* wizard documents that admission is judged on
          Sayings         \* question -> what a prompted author says

ASSUME SessionAssumption ==
  /\ MaxProposals \in Nat /\ MaxEdits \in Nat
  /\ {AllowPrepare, AllowWrites, Faults} \subseteq BOOLEAN
  /\ Session \notin Wizards
  /\ Drafts \subseteq Documents

(* A document has these keys, absent ones at their defaults, and its layers  *)
(* are a list of names; what is no such list counts as an unknown layer.     *)
ASSUME DocumentsAssumption ==
  \A raw \in Documents :
    /\ DOMAIN raw = {"version", "unknownKeys", "pack", "route", "answers", "layers"}
    /\ raw.layers \in Seq(STRING)

VARIABLES
  packs,      \* pack path -> the changes its pack incorporates, or Missing
  pending,    \* retained proposals; the handle is the position
  scratch,    \* handles whose preparation directory exists
  closed,
  writes,     \* writer -> where its write_proposal is
  edits,      \* edits the author made so far
  reverted,   \* whether the author went back to an earlier pack already
  commits     \* handle -> how often its bytes were written to a pack (history)

author == <<edits, reverted>>
vars == <<packs, pending, scratch, closed, writes, author, commits>>

Handles == 1 .. MaxProposals
Writers == Wizards \cup {Session}
EditIds == {<<"edit", n>> : n \in 1 .. MaxEdits}
Changes == EditIds \cup {<<"apply", h>> : h \in Handles} \cup {<<"new", w>> : w \in Wizards}
ASSUME MissingAssumption == \A changes \in SUBSET Changes : changes # Missing
Kinds == {"scaffold", "prepare", "kit"}
Results == {"none", "blocked", "prepared", "applied"}
NoHandle == 0
NoDraft == "none"
NoPack == "none"
Proposals == [kind : Kinds, pack : Packs, base : {Missing} \cup SUBSET Changes,
              draft : Drafts \cup {NoDraft}, binary : BOOLEAN,
              from : Handles \cup {NoHandle}, result : Results,
              answer : Handles \cup {NoHandle}]
NotWriting == [step |-> "idle", pack |-> NoPack, handle |-> NoHandle]

Init ==
  /\ packs \in [Packs -> {Missing, {}}]
  /\ pending = <<>>
  /\ scratch = {}
  /\ closed = FALSE
  /\ writes = [w \in Writers |-> NotWriting]
  /\ edits = 0
  /\ reverted = FALSE
  /\ commits = [h \in Handles |-> 0]

--------------------------------------------------------------------------------
(* call: under the lock, and not after close. *)
Callable == ~closed /\ writes[Session] = NotWriting

(* _save: a full session refuses, and slots are never given back. *)
HasRoom == Len(pending) < MaxProposals
Proposal(kind, p, base, draft, binary, from) ==
  [kind |-> kind, pack |-> p, base |-> base, draft |-> draft, binary |-> binary,
   from |-> from, result |-> "none", answer |-> NoHandle]
Retain(retained, proposal) == pending' = Append(retained, proposal)

Scaffold(p, draft) ==
  /\ Callable /\ HasRoom
  /\ Admissible(draft)
  /\ Retain(pending, Proposal("scaffold", p, Missing, draft, FALSE, NoHandle))
  /\ UNCHANGED <<packs, scratch, closed, writes, author, commits>>

Compose(p) ==
  /\ Callable /\ HasRoom
  /\ packs[p] # Missing
  /\ Retain(pending, Proposal("prepare", p, packs[p], NoDraft, FALSE, NoHandle))
  /\ UNCHANGED <<packs, scratch, closed, writes, author, commits>>

(* _execute: the handle is known, the grant given, nothing recorded yet. *)
Executable(h, granted, kind) ==
  /\ Callable
  /\ granted
  /\ h \in DOMAIN pending
  /\ pending[h].kind = kind
  /\ pending[h].result = "none"

(* Defect: no result is remembered. *)
Forget(h, result, answer) == pending

Record(h, result, answer) ==
  [pending EXCEPT ![h].result = result, ![h].answer = answer]

(* Defect: the preparation directory of an earlier call is taken over. *)
PreparesAgain(h) ==
  /\ Executable(h, AllowPrepare, "prepare")
  /\ packs[pending[h].pack] = pending[h].base

(* _prepare up to mkdir: the pack is still the captured base and the        *)
(* preparation directory of this handle does not exist.                     *)
CanPrepare(h) ==
  /\ Executable(h, AllowPrepare, "prepare")
  /\ packs[pending[h].pack] = pending[h].base
  /\ h \notin scratch

Composed(h, binary) ==
  Proposal("kit", pending[h].pack, pending[h].base, NoDraft, binary, h)

(* The composition has diagnostics: that answer is recorded. *)
PrepareBlocked(h) ==
  /\ CanPrepare(h)
  /\ pending' = Record(h, "blocked", NoHandle)
  /\ UNCHANGED <<packs, scratch, closed, writes, author, commits>>

(* The composed proposal is retained and its handle recorded as the answer. *)
Prepare(h, binary) ==
  /\ CanPrepare(h) /\ HasRoom
  /\ Retain(Record(h, "prepared", Len(pending) + 1), Composed(h, binary))
  /\ UNCHANGED <<packs, scratch, closed, writes, author, commits>>

(* The rmtree of the finally clause fails: the directory stays, nothing is  *)
(* recorded, and a proposal already saved stays without a known handle.     *)
PrepareLeaksScratch(h, binary) ==
  /\ Faults
  /\ CanPrepare(h)
  /\ scratch' = scratch \cup {h}
  /\ \/ UNCHANGED pending
     \/ HasRoom /\ Retain(pending, Composed(h, binary))
  /\ UNCHANGED <<packs, closed, writes, author, commits>>

(* _apply of a kit proposal needs exactly the base its review showed. *)
Unchanged(h) == packs[pending[h].pack] = pending[h].base

Apply(h) ==
  /\ Executable(h, AllowWrites, "kit")
  /\ ~pending[h].binary
  /\ Unchanged(h)
  /\ packs' = [packs EXCEPT ![pending[h].pack] = @ \cup {<<"apply", h>>}]
  /\ commits' = [commits EXCEPT ![h] = @ + 1]
  /\ pending' = Record(h, "applied", NoHandle)
  /\ UNCHANGED <<scratch, closed, writes, author>>

Close ==
  /\ Callable
  /\ closed' = TRUE
  /\ pending' = <<>>
  /\ UNCHANGED <<packs, scratch, writes, author, commits>>

--------------------------------------------------------------------------------
(* write_proposal, in the session's _apply and in the command-line wizard.  *)
Writing(w, p, h) == [writes EXCEPT ![w] = [step |-> "staging", pack |-> p, handle |-> h]]
Done(w) == [writes EXCEPT ![w] = IF w = Session THEN NotWriting ELSE [@ EXCEPT !.step = "done"]]

(* Blocking answers, and the early look at the target.  *)
MayWrite(draft, p) == Blocking(draft) = {} /\ packs[p] = Missing

ApplyScaffold(h) ==
  /\ Executable(h, AllowWrites, "scaffold")
  /\ MayWrite(pending[h].draft, pending[h].pack)
  /\ writes' = Writing(Session, pending[h].pack, h)
  /\ UNCHANGED <<packs, pending, scratch, closed, author, commits>>

RunWizard(w, p, draft) ==
  /\ writes[w] = NotWriting
  /\ Admissible(draft) /\ MayWrite(draft, p)
  /\ writes' = Writing(w, p, NoHandle)
  /\ UNCHANGED <<packs, pending, scratch, closed, author, commits>>

(* The files are staged and validate_pack passes, or not and they are removed. *)
StagedAndValidated(w) ==
  /\ writes[w].step = "staging"
  /\ \/ writes' = [writes EXCEPT ![w].step = "publishing"]
     \/ Faults /\ writes' = Done(w)
  /\ UNCHANGED <<packs, pending, scratch, closed, author, commits>>

(* Defect: the early look at the target is relied on. *)
CanMove(p) == TRUE

(* publish_noreplace: RENAME_NOREPLACE. *)
CanPublish(p) == packs[p] = Missing

Publish(w) ==
  LET p == writes[w].pack
      h == writes[w].handle
      created == IF w = Session THEN <<"apply", h>> ELSE <<"new", w>>
  IN /\ writes[w].step = "publishing"
     /\ writes' = Done(w)
     /\ IF CanPublish(p)
        THEN /\ packs' = [packs EXCEPT ![p] = {created}]
             /\ IF w = Session
                THEN /\ commits' = [commits EXCEPT ![h] = @ + 1]
                     /\ pending' = Record(h, "applied", NoHandle)
                ELSE UNCHANGED <<commits, pending>>
        ELSE UNCHANGED <<packs, commits, pending>>
     /\ UNCHANGED <<scratch, closed, author>>

(* A writer's process dies; with the session's, its proposals are gone.     *)
Dies(w) ==
  /\ Faults
  /\ writes[w].step \in {"staging", "publishing"}
  /\ writes' = Done(w)
  /\ IF w = Session THEN closed' = TRUE /\ pending' = <<>>
                    ELSE UNCHANGED <<closed, pending>>
  /\ UNCHANGED <<packs, scratch, author, commits>>

--------------------------------------------------------------------------------
(* The author edits a pack, or puts back the pack a proposal was built on,  *)
(* or the absent one.                                                       *)
AuthorEdits(p) ==
  /\ edits < MaxEdits
  /\ packs[p] # Missing
  /\ edits' = edits + 1
  /\ packs' = [packs EXCEPT ![p] = @ \cup {<<"edit", edits + 1>>}]
  /\ UNCHANGED <<pending, scratch, closed, writes, reverted, commits>>

AuthorReverts(p) ==
  /\ ~reverted
  /\ reverted' = TRUE
  /\ \E h \in DOMAIN pending :
       /\ pending[h].pack = p
       /\ packs[p] # pending[h].base
       /\ packs' = [packs EXCEPT ![p] = pending[h].base]
  /\ UNCHANGED <<pending, scratch, closed, writes, edits, commits>>

SessionStep ==
  \/ \E p \in Packs : Compose(p) \/ \E draft \in Drafts : Scaffold(p, draft)
  \/ \E h \in Handles, binary \in BOOLEAN :
       Prepare(h, binary) \/ PrepareLeaksScratch(h, binary)
  \/ \E h \in Handles : PrepareBlocked(h) \/ Apply(h) \/ ApplyScaffold(h)
  \/ Close

WriterStep ==
  \/ \E w \in Wizards, p \in Packs, draft \in Drafts : RunWizard(w, p, draft)
  \/ \E w \in Writers : StagedAndValidated(w) \/ Publish(w) \/ Dies(w)

Next == SessionStep \/ WriterStep \/ \E p \in Packs : AuthorEdits(p) \/ AuthorReverts(p)

Spec == Init /\ [][Next]_vars

--------------------------------------------------------------------------------
TypeOK ==
  /\ packs \in [Packs -> {Missing} \cup SUBSET Changes]
  /\ Len(pending) \in 0 .. MaxProposals
  /\ \A h \in DOMAIN pending : pending[h] \in Proposals
  /\ scratch \subseteq Handles
  /\ closed \in BOOLEAN
  /\ writes \in [Writers -> [step : {"idle", "staging", "publishing", "done"},
                           pack : Packs \cup {NoPack}, handle : Handles \cup {NoHandle}]]
  /\ edits \in 0 .. MaxEdits
  /\ reverted \in BOOLEAN
  /\ commits \in [Handles -> Nat]

(* docs/public/mcp.md 81-82: repeating a successful apply never writes      *)
(* again, not even after the author undid it by hand; and a handle is       *)
(* answered as applied exactly when its bytes were written, whoever else    *)
(* was writing meanwhile.                                                   *)
AppliedAtMostOnce ==
  /\ \A h \in Handles : commits[h] <= 1
  /\ \A h \in DOMAIN pending : pending[h].result = "applied" <=> commits[h] = 1

(* docs/public/mcp.md 97 and ADR 0034: a changed base, or a target that     *)
(* appeared, fails instead of overwriting someone's work, across compose,   *)
(* prepare and apply and between a wizard's look and its rename.            *)
SessionKeepsWork ==
  [][\A p \in Packs :
       edits' = edits /\ reverted' = reverted /\ packs[p] # Missing =>
         packs'[p] # Missing /\ packs[p] \subseteq packs'[p]]_vars

(* mcp_server.py 66 announces pack_prepare as idempotent: however often it  *)
(* is called, one preparation retains at most one proposal, and none is     *)
(* lost to a client that missed the answer: asking for its preparation      *)
(* again answers its handle, except where the scratch directory could not   *)
(* be removed (authoring.py 390-398, 444-447).                              *)
OneReachableProposal ==
  \A h \in {g \in DOMAIN pending : pending[g].kind = "kit"} :
    /\ \A g \in DOMAIN pending \ {h} :
         pending[g].kind = "kit" => pending[g].from # pending[h].from
    /\ pending[h].from \notin scratch => pending[pending[h].from].answer = h

(* ADR 0034, of every document that is admitted: no two layers generate     *)
(* different contents for one file; what the manifest flags and points to   *)
(* is generated, whatever the order of the layers; and writing is blocked   *)
(* exactly when a publication-ready pack was not cleared with a "yes".      *)
(* What a prompted author says from what is offered is always admitted.     *)
SoundDocuments ==
  \A raw \in Documents : Admissible(raw) =>
    LET proposal == ProposalOf(raw)
        turned == [raw EXCEPT !.layers = Reverse(@)]
    IN /\ ~Conflicting(Selected(raw))
       /\ proposal.points \subseteq DOMAIN proposal.files
       /\ \A layer \in DOMAIN Capabilities :
            Capabilities[layer].flags \cap proposal.flags # {} =>
              DOMAIN Capabilities[layer].files \subseteq DOMAIN proposal.files
       /\ ProposalOf(turned) = proposal
       /\ proposal.blocking = {} <=> Cleared(raw)
Offers(question) == IF question.choices = {} THEN {"text", "blank"}
                    ELSE question.choices \cup {"not-sure", "blank"}
SoundPrompts ==
  \A route \in DOMAIN Routes, said \in Sayings :
    (\A key \in DOMAIN Questions(route) : said[key] \in Offers(Questions(route)[key])) =>
      /\ ~Refuses(route, said)
      /\ Admissible([version |-> "current", unknownKeys |-> FALSE, pack |-> "lab",
                     route |-> route, answers |-> Asked(route, said), layers |-> <<>>])
ProposalsAreSound == Init => SoundDocuments /\ SoundPrompts
================================================================================
