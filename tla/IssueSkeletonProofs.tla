-------------------------- MODULE IssueSkeletonProofs --------------------------
(***************************************************************************)
(* What TLAPS proves of IssueSkeleton for any runs, templates, faults and  *)
(* maintainers.                                                            *)
(***************************************************************************)
EXTENDS IssueSkeleton, FiniteSetTheorems, SequenceTheorems, TLAPS

(* A numbered listing has a last entry. *)
LEMMA GreatestExists ==
  ASSUME NEW n \in Nat, NEW S \in SUBSET (1 .. n), S # {}
  PROVE  \E i \in S : \A j \in S : j <= i
  <1> DEFINE Above(i) == {j \in S : j > i}
             Tails == {Above(i) : i \in S}
             R == StrictSubsetOrdering(S)
  <1>1. IsFiniteSet(S)
    <2>1. IsFiniteSet(1 .. n)
      BY FS_Interval
    <2> QED BY <2>1, FS_Subset
  <1>2. IsWellFoundedOn(R, SUBSET S)
    BY <1>1, FS_StrictSubsetOrderingWellFounded, FS_FiniteSubsetsOfFinite, Zenon
  <1>3. Tails \subseteq SUBSET S /\ Tails # {}
    OBVIOUS
  <1>4. \E x \in Tails : \A y \in Tails : ~(<<y, x>> \in R)
    <2> HIDE DEF Tails, R
    <2> QED BY <1>2, <1>3, WFMin, Zenon
  <1>5. PICK i \in S : \A y \in Tails : <<y, Above(i)>> \notin R
    BY <1>4
  <1>6. ASSUME NEW j \in S, ~(j <= i) PROVE FALSE
    <2> i \in Int /\ j \in Int /\ \A k \in S : k \in Int
      OBVIOUS
    <2>1. Above(j) \subseteq Above(i) /\ j \in Above(i) /\ j \notin Above(j)
      <3> HIDE DEF Tails, R
      <3>1. j > i /\ ~(j > j)
        BY <1>6
      <3>2. \A k \in S : k > j => k > i
        BY <1>6
      <3> QED BY <3>1, <3>2
    <2>2. <<Above(j), Above(i)>> \in R
      <3> Above(j) \in SUBSET S /\ Above(i) \in SUBSET S /\ Above(j) # Above(i)
        BY <2>1
      <3> HIDE DEF Above
      <3> QED BY <2>1 DEF StrictSubsetOrdering
    <2> QED BY <2>2, <1>5
  <1> QED BY <1>6

--------------------------------------------------------------------------------
(***************************************************************************)
(* Type correctness.                                                       *)
(***************************************************************************)

TypeInv == TypeOK /\ issues \in Seq(Issue)

LEMMA InitType == Init => TypeInv
  <1> SUFFICES ASSUME Init PROVE TypeInv
    OBVIOUS
  <1>1. issues \in Seq(Issue)
    <2>1. ASSUME NEW t \in Renamed
          PROVE  [template |-> t, legacy |-> TRUE, planned |-> TRUE, edited |-> FALSE] \in Issue
      BY SkeletonAssumption DEF Issue
    <2>2. issues = <<>> \/ \E e \in Issue : issues = <<e>>
      BY <2>1 DEF Init
    <2>3. ASSUME NEW e \in Issue PROVE <<e>> \in Seq(Issue)
      OBVIOUS
    <2>4. <<>> \in Seq(Issue)
      OBVIOUS
    <2> QED BY <2>2, <2>3, <2>4, Zenon
  <1>2. \A i \in DOMAIN issues : issues[i] \in Issue
    BY <1>1
  <1>3. Unchosen \in Options /\ Unlisted \in [1 .. Templates -> 0 .. Len(issues)]
    BY <1>1, SkeletonAssumption DEF Unchosen, Options, Unlisted
  <1>4. 1 \in 1 .. Templates + 1
    BY SkeletonAssumption
  <1> QED BY <1>1, <1>2, <1>3, <1>4 DEF Init, TypeInv, TypeOK, Working

(* What a listing finds are numbers of issues. *)
LEMMA MatchingIssueType ==
  ASSUME TypeInv, NEW r \in Runs, NEW t \in 1 .. Templates
  PROVE  /\ MatchingIssue(r, t) \in 0 .. Len(issues)
         /\ MatchingIssue(r, t) # 0 =>
              MatchingIssue(r, t) \in DOMAIN issues /\ Matches(r, t, MatchingIssue(r, t))
         /\ MatchingIssue(r, t) = 0 => \A i \in DOMAIN issues : ~Matches(r, t, i)
  <1> DEFINE matching == {i \in DOMAIN issues : Matches(r, t, i)}
             current == {i \in matching : ~issues[i].legacy}
             best == IF current # {} THEN current ELSE matching
             last == CHOOSE i \in best : \A j \in best : j <= i
  <1>1. MatchingIssue(r, t) = IF best = {} THEN 0 ELSE last
    BY DEF MatchingIssue
  <1>2. Len(issues) \in Nat /\ DOMAIN issues = 1 .. Len(issues)
    BY DEF TypeInv
  <1>3. best \subseteq matching /\ (best = {} => matching = {})
    OBVIOUS
  <1>4. best # {} => last \in best
    <2> HIDE DEF best
    <2> SUFFICES ASSUME best # {} PROVE last \in best
      OBVIOUS
    <2>1. \E i \in best : \A j \in best : j <= i
      BY <1>2, <1>3, GreatestExists
    <2> QED BY <2>1
  <1> HIDE DEF last, best
  <1>5. CASE best = {}
    BY <1>1, <1>2, <1>3, <1>5
  <1>6. CASE best # {}
    BY <1>1, <1>2, <1>3, <1>4, <1>6
  <1> QED BY <1>5, <1>6

LEMMA ExitType ==
  ASSUME TypeInv, NEW r \in Runs, NEW result \in {"ok", "failed", "refused"},
         Exit(r, result), issues' \in Seq(Issue), Len(issues) <= Len(issues'),
         milestone' \in {"absent", "open", "closed"}, turns' = turns
  PROVE  TypeInv'
  BY SkeletonAssumption
  DEF TypeInv, TypeOK, Exit, Goto, Unchosen, Unlisted, Options, Working

LEMMA EffectType ==
  ASSUME TypeInv, NEW r \in Runs, next[r] <= Templates
  PROVE  Effect(r) \in Seq(Issue) /\ Len(issues) <= Len(Effect(r))
  <1>1. NewIssue(next[r]) \in Issue /\ Len(issues) \in Nat
    BY SkeletonAssumption DEF TypeInv, TypeOK, NewIssue, Issue
  <1> DEFINE n == found[r][next[r]]
  <1> n \in 0 .. Len(issues)
    BY SkeletonAssumption DEF TypeInv, TypeOK
  <1>2. CASE Operation(r) = "create"
    BY <1>1, <1>2 DEF Effect, TypeInv
  <1>3. CASE Operation(r) = "update"
    <2>1. n \in 1 .. Len(issues)
      BY <1>1, <1>3 DEF Operation
    <2>2. Effect(r) = [issues EXCEPT ![n] = NewIssue(next[r])]
      BY <1>3 DEF Effect
    <2> HIDE DEF n
    <2> QED BY <1>1, <2>1, <2>2, ExceptSeq DEF TypeInv
  <1>4. CASE Operation(r) = "skip"
    BY <1>1, <1>4 DEF Effect, TypeInv
  <1> QED BY <1>2, <1>3, <1>4 DEF Operation

LEMMA RunType ==
  ASSUME TypeInv, NEW r \in Runs, RunStep(r)
  PROVE  TypeInv'
  <1>1. ASSUME NEW choice \in Options, Begin(r, choice) PROVE TypeInv'
    <2>1. CASE Resolved(choice) \/ choice.create
      BY <1>1, <2>1
         DEF Begin, Goto, Resolved, TypeInv, TypeOK, repository, Working, Options
    <2>2. CASE ~(Resolved(choice) \/ choice.create)
      BY <1>1, <2>2, ExitType DEF Begin, TypeInv, TypeOK, repository
    <2> QED BY <2>1, <2>2
  <1>2. CASE ListIssues(r)
    <2>1. [t \in 1 .. Templates |-> MatchingIssue(r, t)] \in [1 .. Templates -> 0 .. Len(issues)]
      BY MatchingIssueType
    <2> QED BY <1>2, <2>1
               DEF ListIssues, Continue, Goto, TypeInv, TypeOK, repository, Working
  <1>3. CASE CreateMilestone(r)
    <2>1. CASE Exit(r, "failed")
      BY <1>3, <2>1, ExitType DEF CreateMilestone, TypeInv, TypeOK
    <2>2. CASE ~Exit(r, "failed")
      BY <1>3, <2>2
      DEF CreateMilestone, Faulty, Continue, Goto, TypeInv, TypeOK, Working
    <2> QED BY <2>1, <2>2
  <1>4. CASE Apply(r)
    <2>1. CASE Exit(r, "failed")
      <3>1. issues' \in Seq(Issue) /\ Len(issues) <= Len(issues')
        BY <1>4, EffectType DEF Apply, TypeInv
      <3> QED BY <1>4, <2>1, <3>1, ExitType DEF Apply, TypeInv, TypeOK
    <2>2. CASE ~Exit(r, "failed")
      <3>1. issues' \in Seq(Issue) /\ Len(issues) <= Len(issues')
        BY <1>4, EffectType DEF Apply, TypeInv
      <3>2. next' \in [Runs -> 1 .. Templates + 1]
        <4>1. next \in [Runs -> 1 .. Templates + 1] /\ next[r] + 1 \in 1 .. Templates + 1
          BY <1>4, SkeletonAssumption DEF Apply, TypeInv, TypeOK
        <4> QED BY <1>4, <2>2, <4>1 DEF Apply, Faulty
      <3>3. /\ \A i \in DOMAIN issues' : issues'[i] \in Issue
            /\ 0 .. Len(issues) \subseteq 0 .. Len(issues')
        BY <3>1 DEF TypeInv
      <3>4. UNCHANGED <<turns, milestone, pc, outcome, options, target, found>>
        BY <1>4, <2>2 DEF Apply, Faulty
      <3> QED BY <3>1, <3>2, <3>3, <3>4 DEF TypeInv, TypeOK, Working
    <2> QED BY <2>1, <2>2
  <1>5. CASE Complete(r)
    BY <1>5, ExitType DEF Complete, TypeInv, TypeOK, repository
  <1> QED BY <1>1, <1>2, <1>3, <1>4, <1>5 DEF RunStep

(* Maintainers change issues in place. *)
LEMMA MaintainerKeeps ==
  ASSUME TypeInv, NEW i \in DOMAIN issues, EditBody(i) \/ MoveIssue(i)
  PROVE  /\ issues' \in Seq(Issue)
         /\ Len(issues') = Len(issues)
         /\ \A j \in DOMAIN issues' : issues'[j] \in Issue
         /\ \A j \in 1 .. Len(issues) :
              /\ issues'[j].template = issues[j].template
              /\ ~moved' => issues'[j].planned = issues[j].planned
  <1>0. i \in 1 .. Len(issues) /\ issues[i] \in Issue
    BY DEF TypeInv, TypeOK
  <1>1. CASE EditBody(i)
    <2> DEFINE e == [issues[i] EXCEPT !.edited = TRUE]
    <2>1. e \in Issue /\ e.template = issues[i].template /\ e.planned = issues[i].planned
      BY <1>0 DEF Issue
    <2>2. issues' = [issues EXCEPT ![i] = e] /\ issues \in Seq(Issue)
      BY <1>1 DEF EditBody, TypeInv
    <2> HIDE DEF e
    <2> QED BY <1>0, <2>1, <2>2, ExceptSeq
  <1>2. CASE MoveIssue(i)
    <2> DEFINE e == [issues[i] EXCEPT !.planned = ~issues[i].planned]
    <2>1. e \in Issue /\ e.template = issues[i].template
      BY <1>0 DEF Issue
    <2>2. /\ issues' = [issues EXCEPT ![i] = e] /\ issues \in Seq(Issue)
          /\ moved' = TRUE
      BY <1>2 DEF MoveIssue, TypeInv
    <2> HIDE DEF e
    <2> QED BY <1>0, <2>1, <2>2, ExceptSeq
  <1> QED BY <1>1, <1>2

LEMMA MaintainerType ==
  ASSUME TypeInv, MaintainerStep
  PROVE  TypeInv'
  <1>1. CASE CloseMilestone
    BY <1>1 DEF CloseMilestone, Meddle, TypeInv, TypeOK
  <1>2. ASSUME NEW i \in DOMAIN issues, EditBody(i) PROVE TypeInv'
    BY <1>2, MaintainerKeeps DEF EditBody, Meddle, TypeInv, TypeOK
  <1>3. ASSUME NEW i \in DOMAIN issues, MoveIssue(i) PROVE TypeInv'
    BY <1>3, MaintainerKeeps DEF MoveIssue, Meddle, TypeInv, TypeOK
  <1> QED BY <1>1, <1>2, <1>3 DEF MaintainerStep

(* Type correctness of issue_skeleton.py's model, for all constants.        *)
THEOREM TypeCorrect == Spec => [](TypeOK /\ issues \in Seq(Issue))
  <1>1. TypeInv /\ [Next]_vars => TypeInv'
    <2>1. ASSUME TypeInv, UNCHANGED vars PROVE TypeInv'
      BY <2>1 DEF TypeInv, TypeOK, vars, repository, maintainers
    <2> QED BY RunType, MaintainerType, <2>1 DEF Next
  <1>2. TypeInv => TypeOK /\ issues \in Seq(Issue)
    BY DEF TypeInv
  <1> QED BY InitType, <1>1, <1>2, PTL DEF Spec
--------------------------------------------------------------------------------
(***************************************************************************)
(* Reruns converge.  What a run found is right for good, because a number  *)
(* keeps its template; that it missed nothing needs the users' turns and   *)
(* issues that stay in their milestone.                                    *)
(***************************************************************************)

HasIssue(t) == \E i \in DOMAIN issues : issues[i].template = t

OneRunAtATime ==
  turns => \A r, s \in Runs : pc[r] \in Working /\ pc[s] \in Working => r = s

FoundIsRight ==
  \A r \in Runs : pc[r] \in {"milestone", "operations"} =>
    \A t \in 1 .. Templates : found[r][t] # 0 => issues[found[r][t]].template = t

DoneSoFar ==
  /\ \A r \in Runs :
       /\ pc[r] # "operations" => next[r] = 1
       /\ \A t \in 1 .. next[r] - 1 : HasIssue(t)
  /\ \A r \in Runs : outcome[r] = "ok" => \A t \in 1 .. Templates : HasIssue(t)

NothingMissed ==
  turns /\ ~moved =>
    \A r \in Runs : pc[r] \in {"milestone", "operations"} =>
      \A t \in next[r] .. Templates : found[r][t] = 0 => ~HasIssue(t)

OneIssueEach ==
  turns /\ ~moved =>
    \A i, j \in DOMAIN issues : issues[i].template = issues[j].template => i = j

StayPlanned == ~moved => \A i \in DOMAIN issues : issues[i].planned

ConvergeInv ==
  /\ OneRunAtATime
  /\ FoundIsRight
  /\ DoneSoFar
  /\ NothingMissed
  /\ OneIssueEach
  /\ StayPlanned

(* A run that will create the milestone met none that was open.             *)
MilestoneInv ==
  /\ ~retired => milestone # "closed"
  /\ \A r \in Runs :
       /\ pc[r] = "milestone" => ~target[r]
       /\ turns /\ pc[r] \in {"issues", "milestone"} /\ ~target[r] => milestone # "open"
  /\ RunsFailOnlyFromFaults

LEMMA InitConverges == Init => ConvergeInv /\ MilestoneInv
  <1> SUFFICES ASSUME Init PROVE ConvergeInv /\ MilestoneInv
    OBVIOUS
  <1>1. \A i, j \in DOMAIN issues : i = j /\ issues[i].planned
    BY DEF Init
  <1> QED BY <1>1
  DEF Init, ConvergeInv, OneRunAtATime, FoundIsRight, DoneSoFar, NothingMissed,
      OneIssueEach, StayPlanned, MilestoneInv, RunsFailOnlyFromFaults, Working

(* Whatever is done to them, issues keep their numbers and templates.       *)
KeepTemplates ==
  /\ Len(issues) <= Len(issues')
  /\ \A i \in 1 .. Len(issues) : issues'[i].template = issues[i].template

LEMMA EffectKeeps ==
  ASSUME TypeInv, FoundIsRight, NEW r \in Runs, pc[r] = "operations", next[r] <= Templates
  PROVE  /\ Len(issues) <= Len(Effect(r))
         /\ \A i \in 1 .. Len(issues) :
              /\ Effect(r)[i].template = issues[i].template
              /\ issues[i].planned => Effect(r)[i].planned
         /\ \A i \in 1 .. Len(Effect(r)) :
              i > Len(issues) =>
                /\ i = Len(issues) + 1 /\ found[r][next[r]] = 0
                /\ Effect(r)[i].template = next[r] /\ Effect(r)[i].planned
         /\ \E i \in 1 .. Len(Effect(r)) : Effect(r)[i].template = next[r]
  <1> DEFINE n == found[r][next[r]]
             e == NewIssue(next[r])
  <1>1. /\ issues \in Seq(Issue) /\ Len(issues) \in Nat
        /\ e \in Issue /\ e.template = next[r] /\ e.planned
        /\ n \in 0 .. Len(issues) /\ (n # 0 => issues[n].template = next[r])
    BY SkeletonAssumption DEF TypeInv, TypeOK, NewIssue, Issue, FoundIsRight
  <1>2. CASE n = 0
    <2>1. Effect(r) = Append(issues, e)
      BY <1>2 DEF Effect, Operation
    <2> HIDE DEF n, e
    <2>2. /\ Len(Append(issues, e)) = Len(issues) + 1
          /\ \A i \in 1 .. Len(issues) : Append(issues, e)[i] = issues[i]
          /\ Append(issues, e)[Len(issues) + 1] = e
      BY <1>1, AppendProperties
    <2> QED BY <1>1, <1>2, <2>1, <2>2 DEF n, e
  <1>3. CASE n # 0 /\ options[r].refresh
    <2>1. Effect(r) = [issues EXCEPT ![n] = e]
      BY <1>3 DEF Effect, Operation
    <2> HIDE DEF n, e
    <2>2. n \in 1 .. Len(issues)
      BY <1>1, <1>3
    <2>3. /\ Len([issues EXCEPT ![n] = e]) = Len(issues)
          /\ \A j \in 1 .. Len(issues) :
               [issues EXCEPT ![n] = e][j] = IF j = n THEN e ELSE issues[j]
      BY <1>1, <2>2, ExceptSeq
    <2> QED BY <1>1, <1>3, <2>1, <2>2, <2>3
  <1>4. CASE n # 0 /\ ~options[r].refresh
    <2>1. Effect(r) = issues
      BY <1>4 DEF Effect, Operation
    <2> HIDE DEF n, e
    <2> QED BY <1>1, <1>4, <2>1
  <1> QED BY <1>2, <1>3, <1>4

LEMMA StepKeeps ==
  ASSUME TypeInv, FoundIsRight, Next
  PROVE  KeepTemplates
  <1>1. Len(issues) \in Nat /\ DOMAIN issues = 1 .. Len(issues)
    BY DEF TypeInv
  <1>2. ASSUME NEW r \in Runs, RunStep(r) PROVE KeepTemplates
    <2>1. CASE Apply(r)
      BY <1>1, <2>1, EffectKeeps DEF Apply, KeepTemplates
    <2>2. CASE ~Apply(r)
      BY <1>1, <1>2, <2>2
      DEF RunStep, Begin, ListIssues, CreateMilestone, Complete, repository,
          KeepTemplates
    <2> QED BY <2>1, <2>2
  <1>3. CASE MaintainerStep
    BY <1>1, <1>3, MaintainerKeeps DEF MaintainerStep, CloseMilestone, KeepTemplates
  <1> QED BY <1>2, <1>3 DEF Next

(* Whether users take turns is fixed, and what maintainers did is not undone. *)
LEMMA HistoryStays ==
  ASSUME Next
  PROVE  (turns' => turns) /\ (~moved' => ~moved) /\ (~retired' => ~retired)
  <1>1. ASSUME NEW r \in Runs, RunStep(r) PROVE UNCHANGED <<turns, moved, retired>>
    BY <1>1
    DEF RunStep, Begin, ListIssues, CreateMilestone, Apply, Complete, maintainers
  <1>2. CASE MaintainerStep
    BY <1>2 DEF MaintainerStep, CloseMilestone, EditBody, MoveIssue, Meddle
  <1> QED BY <1>1, <1>2 DEF Next

LEMMA IssuesStay ==
  ASSUME TypeInv, KeepTemplates, TypeInv', NEW t, HasIssue(t)
  PROVE  HasIssue(t)'
  BY DEF TypeInv, KeepTemplates, HasIssue

--------------------------------------------------------------------------------
(* Another run begins only when nobody is at work.                          *)
LEMMA OneRunStep ==
  ASSUME TypeInv, OneRunAtATime, Next
  PROVE  OneRunAtATime'
  <1> USE DEF OneRunAtATime
  <1>1. ASSUME NEW r \in Runs, RunStep(r) PROVE OneRunAtATime'
    <2>1. ASSUME NEW choice \in Options, Begin(r, choice) PROVE OneRunAtATime'
      BY <2>1 DEF Begin, Exit, Goto, Quiet, Working, TypeInv, TypeOK
    <2>2. CASE ~\E choice \in Options : Begin(r, choice)
      <3>1. turns' = turns /\ pc[r] \in Working /\ \E phase : Goto(r, phase) \/ pc' = pc
        BY <1>1, <2>2
        DEF RunStep, ListIssues, CreateMilestone, Apply, Complete, Continue, Exit,
            Faulty,
            Working
      <3> QED BY <3>1 DEF Goto, TypeInv, TypeOK
    <2> QED BY <2>1, <2>2
  <1>2. CASE MaintainerStep
    BY <1>2 DEF MaintainerStep, CloseMilestone, EditBody, MoveIssue, Meddle
  <1> QED BY <1>1, <1>2 DEF Next

LEMMA FoundStep ==
  ASSUME TypeInv, TypeInv', FoundIsRight, KeepTemplates, Next
  PROVE  FoundIsRight'
  <1> USE DEF FoundIsRight, KeepTemplates
  <1>0. /\ Len(issues) \in Nat /\ found \in [Runs -> [1 .. Templates -> 0 .. Len(issues)]]
        /\ DOMAIN issues = 1 .. Len(issues)
    BY DEF TypeInv, TypeOK
  <1>9. ASSUME NEW s \in Runs, NEW t \in 1 .. Templates, found[s][t] # 0
         PROVE  found[s][t] \in 1 .. Len(issues)
    <2>1. found[s][t] \in 0 .. Len(issues)
      BY <1>0
    <2> HIDE DEF FoundIsRight, KeepTemplates
    <2> QED BY <1>0, <1>9, <2>1
  <1>10. ASSUME \A s \in Runs : pc'[s] \in {"milestone", "operations"} =>
                 pc[s] \in {"milestone", "operations"} /\ found'[s] = found[s]
        PROVE  FoundIsRight'
    <2> SUFFICES ASSUME NEW s \in Runs, pc'[s] \in {"milestone", "operations"},
                        NEW t \in 1 .. Templates, found'[s][t] # 0
                 PROVE  issues'[found'[s][t]].template = t
      OBVIOUS
    <2>1. found'[s][t] = found[s][t] /\ issues[found[s][t]].template = t
      BY <1>10
    <2> QED BY <1>9, <2>1
  <1>1. ASSUME UNCHANGED <<pc, found>> PROVE FoundIsRight'
    BY <1>10, <1>1
  <1>2. ASSUME NEW r \in Runs, NEW result, Exit(r, result) PROVE FoundIsRight'
    BY <1>10, <1>2 DEF Exit, Goto, TypeInv, TypeOK
  <1>3. ASSUME NEW r \in Runs, NEW choice \in Options, Begin(r, choice)
        PROVE  FoundIsRight'
    <2>1. CASE Exit(r, "refused")
      BY <1>2, <2>1
    <2>2. CASE Goto(r, "issues") /\ UNCHANGED found
      <3>1. pc' = [pc EXCEPT ![r] = "issues"]
        BY <2>2 DEF Goto
      <3> QED BY <1>10, <2>2, <3>1 DEF TypeInv, TypeOK
    <2> QED BY <1>3, <2>1, <2>2 DEF Begin
  <1>4. ASSUME NEW r \in Runs, ListIssues(r) PROVE FoundIsRight'
    <2>1. /\ found' = [found EXCEPT ![r] = [t \in 1 .. Templates |-> MatchingIssue(r, t)]]
          /\ issues' = issues /\ \A s \in Runs \ {r} : pc'[s] = pc[s]
      BY <1>4 DEF ListIssues, Continue, Goto, repository, TypeInv, TypeOK
    <2>2. \A t \in 1 .. Templates :
            MatchingIssue(r, t) # 0 => issues[MatchingIssue(r, t)].template = t
      BY MatchingIssueType DEF Matches
    <2> QED BY <1>0, <2>1, <2>2
  <1>5. ASSUME NEW r \in Runs, CreateMilestone(r) PROVE FoundIsRight'
    <2>1. CASE Exit(r, "failed")
      BY <1>2, <2>1
    <2>2. CASE ~Exit(r, "failed")
      BY <1>0, <1>5, <2>2
      DEF CreateMilestone, Faulty, Continue, Goto, TypeInv, TypeOK
    <2> QED BY <2>1, <2>2
  <1>6. ASSUME NEW r \in Runs, Apply(r) PROVE FoundIsRight'
    BY <1>1, <1>2, <1>6 DEF Apply, Faulty
  <1>7. ASSUME NEW r \in Runs, Complete(r) PROVE FoundIsRight'
    BY <1>2, <1>7 DEF Complete
  <1>8. CASE MaintainerStep
    BY <1>1, <1>8 DEF MaintainerStep, CloseMilestone, EditBody, MoveIssue, Meddle
  <1> QED BY <1>3, <1>4, <1>5, <1>6, <1>7, <1>8 DEF Next, RunStep

LEMMA DoneStep ==
  ASSUME TypeInv, TypeInv', FoundIsRight, DoneSoFar, KeepTemplates, Next
  PROVE  DoneSoFar'
  <1> USE DEF DoneSoFar
  <1>0. \A t : HasIssue(t) => HasIssue(t)'
    BY IssuesStay
  <1>1. ASSUME NEW r \in Runs, NEW result, Exit(r, result),
               result = "ok" => \A t \in 1 .. Templates : HasIssue(t)
        PROVE  DoneSoFar'
    BY <1>0, <1>1 DEF Exit, Goto, TypeInv, TypeOK
  <1>2. ASSUME NEW r \in Runs, NEW phase, Goto(r, phase), pc[r] # "operations",
               UNCHANGED <<next, outcome>>
        PROVE  DoneSoFar'
    BY <1>0, <1>2 DEF Goto, TypeInv, TypeOK
  <1>3. ASSUME UNCHANGED <<pc, next, outcome>> PROVE DoneSoFar'
    BY <1>0, <1>3
  <1>4. ASSUME NEW r \in Runs, Apply(r), ~Exit(r, "failed") PROVE DoneSoFar'
    <2>1. PICK t \in 1 .. Templates : t = next[r]
      BY <1>4, SkeletonAssumption DEF Apply, TypeInv, TypeOK
    <2>2. HasIssue(t)'
      <3>1. issues' = Effect(r) /\ DOMAIN issues' = 1 .. Len(issues')
        BY <1>4 DEF Apply, Faulty, TypeInv
      <3> QED BY <1>4, <2>1, <3>1, EffectKeeps DEF Apply, HasIssue
    <2>3. next' = [next EXCEPT ![r] = t + 1] /\ next \in [Runs -> 1 .. Templates + 1]
      BY <1>4, <2>1 DEF Apply, Faulty, TypeInv, TypeOK
    <2>4. UNCHANGED <<pc, outcome>> /\ pc[r] = "operations"
      BY <1>4 DEF Apply, Faulty
    <2>5. \A u \in 1 .. t : HasIssue(u)'
      BY <1>0, <2>1, <2>2, SkeletonAssumption
    <2> QED BY <1>0, <2>1, <2>3, <2>4, <2>5, SkeletonAssumption
  <1>5. ASSUME NEW r \in Runs, Complete(r) PROVE DoneSoFar'
    <2>1. 1 .. Templates \subseteq 1 .. next[r] - 1
      BY <1>5, SkeletonAssumption DEF Complete, TypeInv, TypeOK
    <2> QED BY <1>1, <1>5, <2>1 DEF Complete
  <1>6. ASSUME NEW r \in Runs, RunStep(r) PROVE DoneSoFar'
    <2>1. CASE Exit(r, "failed") \/ Exit(r, "refused")
      BY <1>1, <2>1
    <2>2. CASE Apply(r) \/ Complete(r)
      BY <1>4, <1>5, <2>1, <2>2
    <2>3. CASE ~(Apply(r) \/ Complete(r)) /\ ~(Exit(r, "failed") \/ Exit(r, "refused"))
      BY <1>2, <1>6, <2>3
      DEF RunStep, Begin, ListIssues, CreateMilestone, Faulty, Continue
    <2> QED BY <2>1, <2>2, <2>3
  <1>7. CASE MaintainerStep
    BY <1>3, <1>7 DEF MaintainerStep, CloseMilestone, EditBody, MoveIssue, Meddle
  <1> QED BY <1>6, <1>7 DEF Next

(* In turns, a step that leaves a run at work is that run's.                *)
LEMMA TurnsStep ==
  ASSUME TypeInv, OneRunAtATime, turns, NEW r \in Runs, RunStep(r),
         NEW s \in Runs, pc'[s] \in Working
  PROVE  r = s
  <1> SUFFICES ASSUME r # s PROVE FALSE
    OBVIOUS
  <1>1. pc[s] \in Working
    BY DEF RunStep, Begin, ListIssues, CreateMilestone, Apply, Complete, Continue, Exit,
           Faulty, Goto, TypeInv, TypeOK
  <1>2. pc[r] \notin Working
    BY <1>1 DEF OneRunAtATime
  <1>3. PICK choice \in Options : Begin(r, choice)
    BY <1>2 DEF RunStep, ListIssues, CreateMilestone, Apply, Complete, Working
  <1> QED BY <1>1, <1>3 DEF Begin, Quiet

LEMMA MissedStep ==
  ASSUME TypeInv, TypeInv', OneRunAtATime, FoundIsRight, NothingMissed, StayPlanned, Next
  PROVE  NothingMissed'
  <1> SUFFICES ASSUME turns', ~moved', NEW s \in Runs,
                      pc'[s] \in {"milestone", "operations"},
                      NEW t \in next'[s] .. Templates, found'[s][t] = 0
               PROVE  ~HasIssue(t)'
    BY DEF NothingMissed
  <1>0. /\ turns /\ ~moved
        /\ Len(issues) \in Nat /\ DOMAIN issues = 1 .. Len(issues)
        /\ DOMAIN issues' = 1 .. Len(issues')
        /\ next[s] \in Nat /\ next'[s] \in 1 .. Templates + 1 /\ t \in 1 .. Templates
    BY HistoryStays, SkeletonAssumption DEF TypeInv, TypeOK
  <1>1. ASSUME pc[s] \in {"milestone", "operations"}, found'[s] = found[s],
               next'[s] >= next[s]
        PROVE  ~HasIssue(t)
    <2>1. t \in next[s] .. Templates
      BY <1>0, <1>1
    <2> QED BY <1>0, <1>1, <2>1 DEF NothingMissed
  <1>2. CASE ListIssues(s)
    <2>1. MatchingIssue(s, t) = 0 /\ issues' = issues
      BY <1>0, <1>2 DEF ListIssues, repository, TypeInv, TypeOK
    <2>2. \A i \in DOMAIN issues : issues[i].template # t
      BY <1>0, <2>1, MatchingIssueType DEF Matches, StayPlanned
    <2> QED BY <2>1, <2>2 DEF HasIssue
  <1>3. CASE CreateMilestone(s)
    <2>1. UNCHANGED <<issues, found, next>> /\ pc[s] = "milestone"
      BY <1>3 DEF CreateMilestone, Faulty, Exit, Goto, TypeInv, TypeOK
    <2> QED BY <1>0, <1>1, <2>1 DEF HasIssue
  <1>4. CASE Apply(s)
    <2>1. /\ UNCHANGED found /\ pc[s] = "operations" /\ issues' = Effect(s)
          /\ next'[s] = next[s] + 1 /\ next[s] <= Templates
      BY <1>4 DEF Apply, Faulty, Exit, Goto, TypeInv, TypeOK
    <2>2. ~HasIssue(t)
      BY <1>0, <1>1, <2>1
    <2>3. ASSUME NEW i \in 1 .. Len(issues'), issues'[i].template = t PROVE FALSE
      <3>1. CASE i <= Len(issues)
        BY <1>0, <2>1, <2>2, <2>3, <3>1, EffectKeeps DEF HasIssue
      <3>2. CASE i > Len(issues)
        <4>1. issues'[i].template = next[s]
          BY <2>1, <3>2, EffectKeeps
        <4> QED BY <1>0, <2>1, <2>3, <4>1
      <3> QED BY <1>0, <3>1, <3>2
    <2> QED BY <1>0, <2>3 DEF HasIssue
  <1>5. ASSUME NEW r \in Runs, RunStep(r) PROVE ~HasIssue(t)'
    <2>1. r = s
      BY <1>0, <1>5, TurnsStep DEF Working
    <2>2. ~Complete(s) /\ \A choice \in Options : ~Begin(s, choice)
      BY DEF Complete, Begin, Exit, Goto, TypeInv, TypeOK
    <2> QED BY <1>2, <1>3, <1>4, <1>5, <2>1, <2>2 DEF RunStep
  <1>6. CASE MaintainerStep
    <2>1. UNCHANGED <<pc, found, next>> /\ Len(issues') = Len(issues)
          /\ \A i \in 1 .. Len(issues) : issues'[i].template = issues[i].template
      BY <1>6, MaintainerKeeps
      DEF MaintainerStep, CloseMilestone, EditBody, MoveIssue, Meddle
    <2> QED BY <1>0, <1>1, <2>1 DEF HasIssue
  <1> QED BY <1>5, <1>6 DEF Next

LEMMA OneIssueStep ==
  ASSUME TypeInv, TypeInv', NothingMissed, OneIssueEach, FoundIsRight, Next
  PROVE  OneIssueEach'
  <1> SUFFICES ASSUME turns', ~moved', NEW i \in DOMAIN issues', NEW j \in DOMAIN issues',
                      issues'[i].template = issues'[j].template
               PROVE  i = j
    BY DEF OneIssueEach
  <1>0. /\ turns /\ ~moved
        /\ Len(issues) \in Nat /\ DOMAIN issues = 1 .. Len(issues)
        /\ DOMAIN issues' = 1 .. Len(issues')
    BY HistoryStays DEF TypeInv
  <1>1. CASE issues' = issues
    BY <1>0, <1>1 DEF OneIssueEach
  <1>2. ASSUME NEW r \in Runs, Apply(r), issues' = Effect(r) PROVE i = j
    <2>1. pc[r] = "operations" /\ next[r] <= Templates /\ next[r] \in next[r] .. Templates
      BY <1>2, SkeletonAssumption DEF Apply, TypeInv, TypeOK
    <2>2. ASSUME NEW k \in 1 .. Len(issues'), k > Len(issues)
          PROVE  /\ k = Len(issues) + 1 /\ issues'[k].template = next[r]
                 /\ \A l \in 1 .. Len(issues) : issues[l].template # next[r]
      <3>1. /\ k = Len(issues) + 1 /\ found[r][next[r]] = 0
            /\ issues'[k].template = next[r]
        BY <1>2, <2>1, <2>2, EffectKeeps
      <3> QED BY <1>0, <2>1, <3>1 DEF NothingMissed, HasIssue
    <2>3. \A k \in 1 .. Len(issues) : issues'[k].template = issues[k].template
      BY <1>2, <2>1, EffectKeeps
    <2>4. CASE i > Len(issues) \/ j > Len(issues)
      BY <1>0, <2>2, <2>3, <2>4
    <2>5. CASE i <= Len(issues) /\ j <= Len(issues)
      BY <1>0, <2>3, <2>5 DEF OneIssueEach
    <2> QED BY <1>0, <2>4, <2>5
  <1>3. ASSUME NEW r \in Runs, RunStep(r) PROVE i = j
    BY <1>1, <1>2, <1>3
    DEF RunStep, Begin, ListIssues, CreateMilestone, Apply, Complete, repository
  <1>4. CASE MaintainerStep
    <2>1. /\ Len(issues') = Len(issues)
          /\ \A k \in 1 .. Len(issues) : issues'[k].template = issues[k].template
      BY <1>4, MaintainerKeeps DEF MaintainerStep, CloseMilestone
    <2> QED BY <1>0, <2>1 DEF OneIssueEach
  <1> QED BY <1>3, <1>4 DEF Next

LEMMA PlannedStep ==
  ASSUME TypeInv, TypeInv', FoundIsRight, StayPlanned, Next
  PROVE  StayPlanned'
  <1> SUFFICES ASSUME ~moved', NEW i \in DOMAIN issues' PROVE issues'[i].planned
    BY DEF StayPlanned
  <1>0. /\ ~moved /\ Len(issues) \in Nat /\ DOMAIN issues = 1 .. Len(issues)
        /\ DOMAIN issues' = 1 .. Len(issues')
    BY HistoryStays DEF TypeInv
  <1>1. CASE issues' = issues
    BY <1>0, <1>1 DEF StayPlanned
  <1>2. ASSUME NEW r \in Runs, Apply(r), issues' = Effect(r) PROVE issues'[i].planned
    <2>1. CASE i <= Len(issues)
      BY <1>0, <1>2, <2>1, EffectKeeps DEF Apply, StayPlanned
    <2>2. CASE i > Len(issues)
      BY <1>0, <1>2, <2>2, EffectKeeps DEF Apply
    <2> QED BY <1>0, <2>1, <2>2
  <1>3. ASSUME NEW r \in Runs, RunStep(r) PROVE issues'[i].planned
    BY <1>1, <1>2, <1>3
    DEF RunStep, Begin, ListIssues, CreateMilestone, Apply, Complete, repository
  <1>4. CASE MaintainerStep
    BY <1>0, <1>4, MaintainerKeeps DEF MaintainerStep, CloseMilestone, StayPlanned
  <1> QED BY <1>3, <1>4 DEF Next

LEMMA ConvergeStep ==
  ASSUME TypeInv, TypeInv', ConvergeInv, [Next]_vars
  PROVE  ConvergeInv'
  <1>1. CASE Next
    BY <1>1, StepKeeps, OneRunStep, FoundStep, DoneStep, MissedStep, OneIssueStep,
       PlannedStep
    DEF ConvergeInv
  <1>2. CASE UNCHANGED vars
    BY <1>2
    DEF vars, repository, maintainers, ConvergeInv, OneRunAtATime, FoundIsRight,
        DoneSoFar,
        NothingMissed, OneIssueEach, StayPlanned, HasIssue
  <1> QED BY <1>1, <1>2

(* However often requests fail or lose their answers, rerunning the command *)
(* never creates a second issue of a template, and a run that succeeds      *)
(* leaves one of each, for any number of runs, templates and faults.        *)
THEOREM RerunsAlwaysConverge == Spec => []RerunsConverge
  <1>1. TypeInv /\ ConvergeInv => RerunsConverge
    <2> SUFFICES ASSUME TypeInv, ConvergeInv, turns, ~moved
                 PROVE  /\ \A t \in 1 .. Templates : Cardinality(IssuesOf(t)) <= 1
                        /\ (\E r \in Runs : outcome[r] = "ok") =>
                             \A t \in 1 .. Templates : \E i \in IssuesOf(t) : issues[i].planned
      BY DEF RerunsConverge
    <2>1. ASSUME NEW t \in 1 .. Templates PROVE Cardinality(IssuesOf(t)) <= 1
      <3>1. IssuesOf(t) = {} \/ \E i : IssuesOf(t) = {i}
        BY DEF ConvergeInv, OneIssueEach, IssuesOf
      <3>2. Cardinality(IssuesOf(t)) \in {0, 1}
        BY <3>1, FS_EmptySet, FS_Singleton, Zenon
      <3> QED BY <3>2
    <2>2. ASSUME NEW r \in Runs, outcome[r] = "ok", NEW t \in 1 .. Templates
          PROVE  \E i \in IssuesOf(t) : issues[i].planned
      BY <2>2 DEF ConvergeInv, DoneSoFar, StayPlanned, HasIssue, IssuesOf
    <2> QED BY <2>1, <2>2
  <1>2. TypeInv /\ TypeInv' /\ ConvergeInv /\ [Next]_vars => ConvergeInv'
    BY ConvergeStep
  <1>3. Init => ConvergeInv
    BY InitConverges
  <1>4. Spec => []TypeInv
    BY TypeCorrect DEF TypeInv
  <1> QED BY <1>1, <1>2, <1>3, <1>4, PTL DEF Spec

--------------------------------------------------------------------------------
(***************************************************************************)
(* A partial failure leaves a repository the command can finish.           *)
(***************************************************************************)

LEMMA MilestoneStep ==
  ASSUME TypeInv, TypeInv', OneRunAtATime, MilestoneInv, Next
  PROVE  MilestoneInv'
  <1>0. (turns' => turns) /\ (~retired' => ~retired)
    BY HistoryStays
  <1>1. ~retired' => milestone' # "closed"
    BY <1>0
    DEF Next, RunStep, MaintainerStep, Begin, ListIssues, CreateMilestone, Apply,
        Complete,
        CloseMilestone, EditBody, MoveIssue, repository, MilestoneInv
  <1>2. ASSUME NEW s \in Runs, pc'[s] = "milestone" PROVE ~target'[s]
    <2>1. ASSUME NEW r \in Runs, RunStep(r) PROVE ~target'[s]
      BY <1>2, <2>1
      DEF RunStep, Begin, ListIssues, CreateMilestone, Apply, Complete, Faulty, Exit,
          Continue,
          Goto, MilestoneInv, TypeInv, TypeOK
    <2>2. CASE MaintainerStep
      BY <1>2, <2>2
      DEF MaintainerStep, CloseMilestone, EditBody, MoveIssue, Meddle, MilestoneInv
    <2> QED BY <2>1, <2>2 DEF Next
  <1>3. ASSUME turns', NEW s \in Runs, pc'[s] \in {"issues", "milestone"}, ~target'[s]
        PROVE  milestone' # "open"
    <2>1. ASSUME NEW r \in Runs, RunStep(r) PROVE milestone' # "open"
      <3>1. r = s
        BY <1>0, <1>3, <2>1, TurnsStep DEF Working
      <3>2. ASSUME NEW choice \in Options, Begin(s, choice) PROVE milestone' # "open"
        <4>1. target'[s] = Resolved(choice) /\ milestone' = milestone
          BY <1>3, <3>2 DEF Begin, Exit, Goto, repository, TypeInv, TypeOK
        <4> QED BY <1>3, <4>1 DEF Resolved
      <3>3. CASE ListIssues(s)
        BY <1>0, <1>3, <3>3 DEF ListIssues, repository, MilestoneInv
      <3>4. ~CreateMilestone(s) /\ ~Apply(s) /\ ~Complete(s)
        BY <1>3
        DEF CreateMilestone, Apply, Complete, Faulty, Exit, Continue, Goto, TypeInv,
            TypeOK
      <3> QED BY <2>1, <3>1, <3>2, <3>3, <3>4 DEF RunStep
    <2>2. CASE MaintainerStep
      BY <1>0, <1>3, <2>2
      DEF MaintainerStep, CloseMilestone, EditBody, MoveIssue, Meddle, MilestoneInv
    <2> QED BY <2>1, <2>2 DEF Next
  <1>4. RunsFailOnlyFromFaults'
    <2> SUFFICES ASSUME turns', ~retired', NEW s \in Runs, outcome'[s] = "failed"
                 PROVE  s \in faulted'
      BY DEF RunsFailOnlyFromFaults
    <2>1. outcome[s] = "failed" => s \in faulted
      BY <1>0 DEF MilestoneInv, RunsFailOnlyFromFaults
    <2>2. CASE outcome[s] = "failed"
      BY <2>1, <2>2
      DEF Next, RunStep, MaintainerStep, Begin, ListIssues, CreateMilestone, Apply,
          Complete,
          Answered, Faulty, CloseMilestone, EditBody, MoveIssue, Meddle
    <2>3. CASE outcome[s] # "failed"
      <3>1. CASE CreateMilestone(s)
        <4>1. milestone = "absent"
          BY <1>0, <3>1 DEF CreateMilestone, MilestoneInv, TypeInv, TypeOK
        <4> QED BY <2>3, <3>1, <4>1 DEF CreateMilestone, Continue, Faulty
      <3>2. CASE Apply(s)
        BY <2>3, <3>2 DEF Apply, Faulty
      <3>3. ASSUME NEW r \in Runs, RunStep(r) PROVE CreateMilestone(s) \/ Apply(s)
        <4>1. CASE Exit(r, "failed")
          <5>1. outcome' = [outcome EXCEPT ![r] = "failed"]
            BY <4>1, Zenon DEF Exit
          <5>2. r = s /\ outcome'[r] = "failed"
            BY <2>3, <5>1 DEF TypeInv, TypeOK
          <5>3. ~ListIssues(r) /\ ~Complete(r) /\ \A choice \in Options : ~Begin(r, choice)
            <6>1. outcome' # outcome /\ ~Exit(r, "ok") /\ ~Exit(r, "refused")
              BY <2>3, <5>2 DEF Exit, TypeInv, TypeOK
            <6> QED BY <6>1 DEF ListIssues, Complete, Begin, Continue
          <5> QED BY <3>3, <5>2, <5>3 DEF RunStep
        <4>2. CASE ~Exit(r, "failed")
          BY <2>3, <3>3, <4>2
          DEF RunStep, Begin, ListIssues, CreateMilestone, Apply, Complete, Faulty,
              Exit,
              Continue, Goto, TypeInv, TypeOK
        <4> QED BY <4>1, <4>2
      <3>4. ~MaintainerStep
        BY <2>3 DEF MaintainerStep, CloseMilestone, EditBody, MoveIssue, Meddle
      <3> QED BY <3>1, <3>2, <3>3, <3>4 DEF Next
    <2> QED BY <2>2, <2>3
  <1> QED BY <1>1, <1>2, <1>3, <1>4 DEF MilestoneInv

(* While users take turns and the milestone stays open, a run fails only    *)
(* from a request of its own that went wrong: whatever an earlier run left  *)
(* half done, the next one can finish.                                      *)
THEOREM FailuresAreFaults == Spec => []RunsFailOnlyFromFaults
  <1>1. ConvergeInv /\ MilestoneInv /\ TypeInv /\ TypeInv' /\ [Next]_vars =>
          ConvergeInv' /\ MilestoneInv'
    <2> SUFFICES ASSUME ConvergeInv, MilestoneInv, TypeInv, TypeInv', [Next]_vars
                 PROVE  ConvergeInv' /\ MilestoneInv'
      OBVIOUS
    <2>1. CASE Next
      <3>1. MilestoneInv'
        BY <2>1, MilestoneStep DEF ConvergeInv
      <3> QED BY <3>1, ConvergeStep
    <2>2. CASE UNCHANGED vars
      <3>1. MilestoneInv'
        BY <2>2 DEF vars, maintainers, repository, MilestoneInv, RunsFailOnlyFromFaults
      <3> QED BY <3>1, ConvergeStep
    <2> QED BY <2>1, <2>2
  <1>2. Spec => []TypeInv
    BY TypeCorrect DEF TypeInv
  <1>3. MilestoneInv => RunsFailOnlyFromFaults
    BY DEF MilestoneInv
  <1> QED BY <1>1, <1>2, <1>3, InitConverges, PTL DEF Spec

--------------------------------------------------------------------------------
(* Under any interleaving a run without --refresh-existing only appends     *)
(* issues: no edit of an existing one is lost.                              *)
THEOREM RerunsAlwaysKeepIssues == Spec => RerunsKeepIssues
  <1>1. ASSUME TypeInv, NEW r \in Runs, RunStep(r), ~options[r].refresh
        PROVE  /\ Len(issues) <= Len(issues')
               /\ \A i \in DOMAIN issues : issues'[i] = issues[i]
    <2>0. /\ issues \in Seq(Issue) /\ Len(issues) \in Nat
          /\ DOMAIN issues = 1 .. Len(issues)
      BY <1>1 DEF TypeInv
    <2>1. CASE issues' = issues
      BY <2>0, <2>1
    <2>2. CASE Apply(r) /\ issues' = Effect(r)
      <3>1. CASE Operation(r) = "create"
        <4>1. issues' = Append(issues, NewIssue(next[r])) /\ NewIssue(next[r]) \in Issue
          BY <1>1, <2>2, <3>1, SkeletonAssumption
             DEF Apply, Effect, NewIssue, Issue, TypeInv, TypeOK
        <4> QED BY <2>0, <4>1, AppendProperties
      <3>2. CASE Operation(r) = "skip"
        BY <2>0, <2>2, <3>2 DEF Effect
      <3> QED BY <1>1, <3>1, <3>2 DEF Operation
    <2> QED
      BY <1>1, <2>1, <2>2
      DEF RunStep, Begin, ListIssues, CreateMilestone, Apply, Complete, repository
  <1>2. TypeInv =>
          [\A r \in Runs : RunStep(r) /\ ~options[r].refresh =>
             /\ Len(issues) <= Len(issues')
             /\ \A i \in DOMAIN issues : issues'[i] = issues[i]]_vars
    BY <1>1
  <1>3. Spec => []TypeInv
    BY TypeCorrect DEF TypeInv
  <1> QED BY <1>2, <1>3, PTL DEF RerunsKeepIssues
================================================================================
