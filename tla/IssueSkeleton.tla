----------------------------- MODULE IssueSkeleton -----------------------------
(***************************************************************************)
(* issue_skeleton.py: one run lists the milestones and the issues of a     *)
(* catalog repository, plans one operation per issue template, and sends   *)
(* them to GitHub one request at a time.  A request may fail, or its       *)
(* answer may be lost after GitHub acted; either ends the run, and the     *)
(* user runs the command again.  Several users may run it at once, and     *)
(* maintainers work on the same issues.                                    *)
(*                                                                         *)
(* All issues here are of one pack, all runs plan one milestone title, and *)
(* GitHub keeps at most one milestone of a title, open or closed, while it *)
(* lists only the open ones.  A body is the template's or an edited one.   *)
(***************************************************************************)
EXTENDS Naturals, Sequences, FiniteSets

CONSTANTS Runs,         \* invocations of the command with --apply
          Templates,    \* number of issue templates, applied in order
          Renamed,      \* templates that have a legacy title
          MaxFaults,    \* bound on requests that fail or lose their answer
          MaxMeddling   \* bound on what maintainers do

ASSUME SkeletonAssumption ==
  /\ {Templates, MaxFaults, MaxMeddling} \subseteq Nat
  /\ Renamed \subseteq 1 .. Templates

VARIABLES
  turns,      \* whether users take turns, one run at a time (fixed)
  milestone,  \* the planned milestone: absent, open or closed
  issues,     \* the issues in the order of their numbers
  pc,         \* run -> what it is about to do
  options,    \* run -> its command-line choices
  target,     \* run -> whether it knows a milestone number
  found,      \* run -> template -> number of the matching issue, or 0
  next,       \* run -> the template its next operation is for
  outcome,    \* run -> how it ended
  faults,     \* requests that went wrong so far
  faulted,    \* runs with such a request (history)
  meddled,    \* what maintainers did so far
  moved,      \* whether they moved an issue to another milestone
  retired     \* whether they closed the milestone

vars == <<turns, milestone, issues, pc, options, target, found, next, outcome, faults,
          faulted, meddled, moved, retired>>
repository == <<milestone, issues>>
maintainers == <<meddled, moved, retired>>

Issue == [template : 1 .. Templates, legacy : BOOLEAN, planned : BOOLEAN,
          edited : BOOLEAN]
Options == {o \in [create : BOOLEAN, refresh : BOOLEAN, byNumber : BOOLEAN] :
              ~(o.create /\ o.byNumber)}    \* create has no effect with a number
Unchosen == [create |-> FALSE, refresh |-> FALSE, byNumber |-> FALSE]
Unlisted == [t \in 1 .. Templates |-> 0]
Working == {"issues", "milestone", "operations"}
Quiet == \A r \in Runs : pc[r] \notin Working

Init ==
  /\ turns \in BOOLEAN
  /\ milestone \in {"absent", "open"}
  /\ issues \in {<<>>} \cup
       {<<[template |-> t, legacy |-> TRUE, planned |-> TRUE, edited |-> FALSE]>> :
          t \in {u \in Renamed : milestone = "open"}}
  /\ pc = [r \in Runs |-> "idle"]
  /\ options = [r \in Runs |-> Unchosen]
  /\ target = [r \in Runs |-> FALSE]
  /\ found = [r \in Runs |-> Unlisted]
  /\ next = [r \in Runs |-> 1]
  /\ outcome = [r \in Runs |-> "none"]
  /\ faults = 0 /\ faulted = {}
  /\ meddled = 0 /\ moved = FALSE /\ retired = FALSE

Goto(r, phase) == pc' = [pc EXCEPT ![r] = phase]

(* Defect: the result is stored where the step belongs. *)
ExitAs(r, result) ==
  /\ Goto(r, result)
  /\ outcome' = [outcome EXCEPT ![r] = result]
  /\ UNCHANGED <<target, options, found, next>>

(* The process ends, and what it knew of the repository with it. *)
Exit(r, result) ==
  /\ Goto(r, "done")
  /\ outcome' = [outcome EXCEPT ![r] = result]
  /\ target' = [target EXCEPT ![r] = FALSE]
  /\ options' = [options EXCEPT ![r] = Unchosen]
  /\ found' = [found EXCEPT ![r] = Unlisted]
  /\ next' = [next EXCEPT ![r] = 1]

Continue(r, phase) ==
  /\ Goto(r, phase)
  /\ UNCHANGED <<outcome, options>>

--------------------------------------------------------------------------------
(* Defect: the title is not looked up among the milestones. *)
GivenNumber(choice) == choice.byNumber

(* resolve_milestone_number *)
Resolved(choice) == choice.byNumber \/ milestone = "open"

(* prepare_operations: list the milestones first, then the issues.  A number *)
(* given on the command line is taken without looking.                       *)
Begin(r, choice) ==
  /\ pc[r] = "idle"
  /\ turns => Quiet
  /\ choice.byNumber => milestone # "absent"
  /\ IF Resolved(choice) \/ choice.create
     THEN /\ Goto(r, "issues")
          /\ target' = [target EXCEPT ![r] = Resolved(choice)]
          /\ options' = [options EXCEPT ![r] = choice]
          /\ UNCHANGED <<found, next, outcome>>
     ELSE Exit(r, "refused")
  /\ UNCHANGED <<turns, repository, faults, faulted, maintainers>>

(* Defect: titles are compared without their legacy forms. *)
CurrentOnly(r, t, i) ==
  /\ issues[i].template = t /\ ~issues[i].legacy
  /\ target[r] => issues[i].planned

(* matching_issue: by title, and by milestone once its number is known. *)
Matches(r, t, i) ==
  /\ issues[i].template = t
  /\ target[r] => issues[i].planned

(* matching_template_issue: the current title before a legacy one.  Of     *)
(* several issues with one title the listing, newest first, decides.       *)
MatchingIssue(r, t) ==
  LET matching == {i \in DOMAIN issues : Matches(r, t, i)}
      current == {i \in matching : ~issues[i].legacy}
      best == IF current # {} THEN current ELSE matching
  IN IF best = {} THEN 0 ELSE CHOOSE i \in best : \A j \in best : j <= i

ListIssues(r) ==
  /\ pc[r] = "issues"
  /\ found' = [found EXCEPT ![r] = [t \in 1 .. Templates |-> MatchingIssue(r, t)]]
  /\ Continue(r, IF target[r] THEN "operations" ELSE "milestone")
  /\ UNCHANGED <<turns, repository, target, next, faults, faulted, maintainers>>

--------------------------------------------------------------------------------
(* A request takes effect and is answered, or takes effect unheard, or fails. *)
Answered == UNCHANGED <<faults, faulted>>

Faulty(r) ==
  /\ faults < MaxFaults
  /\ faults' = faults + 1
  /\ faulted' = faulted \cup {r}
  /\ Exit(r, "failed")

(* GitHub refuses a second milestone of the title, open or closed. *)
CreateMilestone(r) ==
  /\ pc[r] = "milestone"
  /\ \/ /\ milestone = "absent" /\ milestone' = "open"
        /\ \/ /\ Answered
              /\ target' = [target EXCEPT ![r] = TRUE]
              /\ Continue(r, "operations")
              /\ UNCHANGED <<found, next>>
           \/ Faulty(r)
     \/ /\ milestone # "absent"
        /\ Exit(r, "failed") /\ Answered
        /\ UNCHANGED milestone
     \/ Faulty(r) /\ UNCHANGED milestone
  /\ UNCHANGED <<turns, issues, maintainers>>

NewIssue(t) == [template |-> t, legacy |-> FALSE, planned |-> TRUE, edited |-> FALSE]

(* Defect: a matching issue is written over whether or not it was asked for. *)
AlwaysRefresh(r) == IF found[r][next[r]] = 0 THEN "create" ELSE "update"

(* build_operations *)
Operation(r) ==
  IF found[r][next[r]] = 0 THEN "create"
  ELSE IF options[r].refresh THEN "update" ELSE "skip"

Effect(r) ==
  CASE Operation(r) = "create" -> Append(issues, NewIssue(next[r]))
    [] Operation(r) = "update" -> [issues EXCEPT ![found[r][next[r]]] = NewIssue(next[r])]
    [] Operation(r) = "skip" -> issues

(* apply_operations *)
Apply(r) ==
  /\ pc[r] = "operations"
  /\ next[r] <= Templates
  /\ \/ /\ issues' = Effect(r)
        /\ Answered
        /\ next' = [next EXCEPT ![r] = @ + 1]
        /\ UNCHANGED <<pc, outcome, options, target, found>>
     \/ /\ Operation(r) # "skip"
        /\ issues' \in {issues, Effect(r)}
        /\ Faulty(r)
  /\ UNCHANGED <<turns, milestone, maintainers>>

Complete(r) ==
  /\ pc[r] = "operations"
  /\ next[r] > Templates
  /\ Exit(r, "ok")
  /\ UNCHANGED <<turns, repository, faults, faulted, maintainers>>

--------------------------------------------------------------------------------
(* Maintainers. *)
Meddle ==
  /\ meddled < MaxMeddling
  /\ meddled' = meddled + 1
  /\ UNCHANGED <<turns, pc, options, target, found, next, outcome, faults, faulted>>

EditBody(i) ==
  /\ Meddle
  /\ issues' = [issues EXCEPT ![i].edited = TRUE]
  /\ UNCHANGED <<milestone, moved, retired>>

MoveIssue(i) ==
  /\ Meddle
  /\ issues' = [issues EXCEPT ![i].planned = ~@]
  /\ moved' = TRUE
  /\ UNCHANGED <<milestone, retired>>

CloseMilestone ==
  /\ Meddle
  /\ milestone = "open" /\ milestone' = "closed"
  /\ retired' = TRUE
  /\ UNCHANGED <<issues, moved>>

RunStep(r) ==
  \/ \E choice \in Options : Begin(r, choice)
  \/ ListIssues(r) \/ CreateMilestone(r) \/ Apply(r) \/ Complete(r)

MaintainerStep ==
  CloseMilestone \/ \E i \in DOMAIN issues : EditBody(i) \/ MoveIssue(i)

Next == (\E r \in Runs : RunStep(r)) \/ MaintainerStep

Spec == Init /\ [][Next]_vars

--------------------------------------------------------------------------------
TypeOK ==
  /\ turns \in BOOLEAN
  /\ milestone \in {"absent", "open", "closed"}
  /\ \A i \in DOMAIN issues : issues[i] \in Issue
  /\ pc \in [Runs -> Working \cup {"idle", "done"}]
  /\ options \in [Runs -> Options]
  /\ target \in [Runs -> BOOLEAN]
  /\ found \in [Runs -> [1 .. Templates -> 0 .. Len(issues)]]
  /\ next \in [Runs -> 1 .. Templates + 1]
  /\ outcome \in [Runs -> {"none", "ok", "failed", "refused"}]

IssuesOf(t) == {i \in DOMAIN issues : issues[i].template = t}

(* However often requests fail or their answers are lost, running the       *)
(* command again never creates a second issue of a template, and a run that *)
(* succeeds leaves one of each, in the planned milestone: users take turns  *)
(* and maintainers leave the issues in their milestone                      *)
(* (issue_skeleton.py 555-582, 605-624).                                    *)
RerunsConverge ==
  turns /\ ~moved =>
    /\ \A t \in 1 .. Templates : Cardinality(IssuesOf(t)) <= 1
    /\ (\E r \in Runs : outcome[r] = "ok") =>
         \A t \in 1 .. Templates : \E i \in IssuesOf(t) : issues[i].planned

(* No partial failure leaves a repository the command cannot finish: when   *)
(* users take turns and the milestone stays open, a run fails only from a   *)
(* request of its own that went wrong.                                      *)
RunsFailOnlyFromFaults ==
  turns /\ ~retired =>
    \A r \in Runs : outcome[r] = "failed" => r \in faulted

(* "Re-running skips existing skeleton issues, so it won't overwrite edits":*)
(* under any interleaving only a run with --refresh-existing changes an     *)
(* issue that exists (docs/public/pack-issue-skeleton-script.md 70-72).     *)
RerunsKeepIssues ==
  [][\A r \in Runs : RunStep(r) /\ ~options[r].refresh =>
       /\ Len(issues) <= Len(issues')
       /\ \A i \in DOMAIN issues : issues'[i] = issues[i]]_vars
================================================================================
