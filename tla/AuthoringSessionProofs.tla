------------------------- MODULE AuthoringSessionProofs -------------------------
(***************************************************************************)
(* What TLAPS proves of AuthoringSession for any packs, drafts, wizards,   *)
(* bounds and faults.                                                      *)
(***************************************************************************)
EXTENDS AuthoringSession, SequenceTheorems, NaturalsInduction, WellFoundedInduction, TLAPS

(***************************************************************************)
(* The inductive invariant.                                                *)
(***************************************************************************)

TypeInv == TypeOK /\ pending \in Seq(Proposals)

(* A session that is publishing a scaffold is open, and holds the proposal  *)
(* it publishes as it was when apply looked at it.                          *)
Publishing ==
  /\ closed => writes[Session] = NotWriting
  /\ writes[Session] # NotWriting =>
       /\ writes[Session].handle \in DOMAIN pending
       /\ pending[writes[Session].handle].kind = "scaffold"
       /\ pending[writes[Session].handle].result = "none"
  /\ writes[Session].step # "done"
  /\ writes[Session].step = "idle" => writes[Session] = NotWriting

(* Bytes are written for retained proposals alone; closing only forgets.    *)
OnlyRetained ==
  /\ closed => pending = <<>>
  /\ ~closed => \A h \in Handles \ DOMAIN pending : commits[h] = 0

(* What is not answered yet names no handle, and what was composed was      *)
(* composed for an open pack by the preparation it comes from.              *)
Composition ==
  /\ \A h \in DOMAIN pending :
       /\ pending[h].result = "none" => pending[h].answer = NoHandle
       /\ pending[h].kind \in {"prepare", "kit"} => pending[h].base # Missing
       /\ pending[h].kind = "kit" =>
            pending[h].from \in DOMAIN pending /\ pending[pending[h].from].kind = "prepare"
  /\ OneReachableProposal

SessionInv ==
  /\ TypeInv
  /\ Publishing
  /\ OnlyRetained
  /\ AppliedAtMostOnce
  /\ Composition

--------------------------------------------------------------------------------
(* Handles are the retained positions, and a proposal has its fields.       *)
LEMMA HandleFacts ==
  ASSUME TypeInv
  PROVE  /\ Len(pending) \in Nat /\ Len(pending) <= MaxProposals
         /\ DOMAIN pending = 1 .. Len(pending) /\ DOMAIN pending \subseteq Handles
         /\ Handles \subseteq Nat /\ NoHandle \notin Handles
         /\ \A h \in DOMAIN pending : pending[h] \in Proposals
         /\ \A h \in Handles : commits[h] \in Nat
  BY SessionAssumption DEF TypeInv, TypeOK, Handles, NoHandle

LEMMA Recorded ==
  ASSUME TypeInv, NEW h \in DOMAIN pending, NEW result \in Results,
         NEW answer \in Handles \cup {NoHandle}, NEW q, q = Record(h, result, answer)
  PROVE  /\ q \in Seq(Proposals) /\ Len(q) = Len(pending) /\ DOMAIN q = DOMAIN pending
         /\ \A g \in DOMAIN pending :
              /\ g # h => q[g] = pending[g]
              /\ q[g].kind = pending[g].kind /\ q[g].base = pending[g].base
              /\ q[g].from = pending[g].from
         /\ q[h].result = result /\ q[h].answer = answer
  <1> DEFINE e == [pending[h] EXCEPT !.result = result, !.answer = answer]
  <1>1. pending[h] \in Proposals /\ h \in 1 .. Len(pending) /\ pending \in Seq(Proposals)
    BY HandleFacts DEF TypeInv
  <1>2. /\ e \in Proposals /\ e.kind = pending[h].kind /\ e.base = pending[h].base
        /\ e.from = pending[h].from /\ e.result = result /\ e.answer = answer
    BY <1>1 DEF Proposals
  <1>3. q = [pending EXCEPT ![h] = e]
    BY <1>1 DEF Record
  <1> HIDE DEF e
  <1> QED BY <1>1, <1>2, <1>3, ExceptSeq

LEMMA InitSession == Init => SessionInv
  <1> SUFFICES ASSUME Init PROVE SessionInv
    OBVIOUS
  <1>1. pending = <<>> /\ DOMAIN pending = {} /\ Len(pending) = 0
    BY DEF Init
  <1>2. TypeInv
    <2>1. packs \in [Packs -> {Missing} \cup SUBSET Changes]
      BY DEF Init
    <2>2. pending \in Seq(Proposals)
      BY <1>1
    <2>3. writes \in [Writers -> [step : {"idle", "staging", "publishing", "done"},
                                 pack : Packs \cup {NoPack}, handle : Handles \cup {NoHandle}]]
      BY DEF Init, NotWriting
    <2>4. /\ commits \in [Handles -> Nat] /\ edits \in 0 .. MaxEdits
          /\ Len(pending) \in 0 .. MaxProposals
      BY <1>1, SessionAssumption DEF Init
    <2> QED BY <1>1, <2>1, <2>2, <2>3, <2>4 DEF Init, TypeInv, TypeOK
  <1>3. Publishing
    BY DEF Init, Publishing, NotWriting, Writers
  <1>4. OnlyRetained /\ AppliedAtMostOnce /\ Composition
    BY <1>1 DEF Init, OnlyRetained, AppliedAtMostOnce, Composition, OneReachableProposal
  <1> QED BY <1>2, <1>3, <1>4 DEF SessionInv

(* The frame of a call that only retains or records a proposal.             *)
LEMMA CallFrame ==
  ASSUME SessionInv, Callable, UNCHANGED <<packs, closed, writes, author>>,
         pending' \in Seq(Proposals), Len(pending') <= MaxProposals,
         scratch' \subseteq Handles, commits' \in [Handles -> Nat]
  PROVE  TypeInv' /\ Publishing' /\ ~closed'
  <1>1. TypeInv'
    BY DEF SessionInv, TypeInv, TypeOK, author
  <1> QED BY <1>1 DEF SessionInv, Publishing, Callable, NotWriting

(* A new proposal that no preparation holds.                                *)
LEMMA RetainNew ==
  ASSUME SessionInv, Callable, HasRoom, NEW e \in Proposals, Retain(pending, e),
         e.result = "none", e.answer = NoHandle, e.kind \in {"scaffold", "prepare"},
         e.kind = "prepare" => e.base # Missing,
         UNCHANGED <<packs, scratch, closed, writes, author, commits>>
  PROVE  SessionInv'
  <1> DEFINE n == Len(pending) + 1
  <1>0. TypeInv
    BY DEF SessionInv
  <1>1. /\ pending' \in Seq(Proposals) /\ Len(pending') = n
        /\ DOMAIN pending' = 1 .. n /\ DOMAIN pending = 1 .. n - 1 /\ n \in Handles
        /\ pending'[n] = e /\ \A g \in DOMAIN pending : pending'[g] = pending[g]
    BY <1>0, HandleFacts, AppendProperties, SessionAssumption
       DEF Retain, HasRoom, TypeInv, Handles
  <1>2. TypeInv' /\ Publishing' /\ ~closed'
    BY <1>0, <1>1, CallFrame, SessionAssumption DEF HasRoom, TypeInv, TypeOK
  <1>3. OnlyRetained' /\ AppliedAtMostOnce'
    BY <1>0, <1>1, <1>2, HandleFacts
       DEF SessionInv, OnlyRetained, AppliedAtMostOnce, Callable
  <1>4. Composition'
    BY <1>0, <1>1, HandleFacts DEF SessionInv, Composition, OneReachableProposal
  <1> QED BY <1>2, <1>3, <1>4 DEF SessionInv

LEMMA ScaffoldStep ==
  ASSUME SessionInv, NEW p \in Packs, NEW draft \in Drafts, Scaffold(p, draft)
  PROVE  SessionInv'
  <1> DEFINE e == Proposal("scaffold", p, Missing, draft, FALSE, NoHandle)
  <1>1. e \in Proposals /\ e.result = "none" /\ e.answer = NoHandle /\ e.kind = "scaffold"
    BY DEF Proposal, Proposals, Kinds, Results
  <1>2. Retain(pending, e)
    BY DEF Scaffold
  <1> HIDE DEF e
  <1> QED BY <1>1, <1>2, RetainNew DEF Scaffold

LEMMA ComposeStep ==
  ASSUME SessionInv, NEW p \in Packs, Compose(p)
  PROVE  SessionInv'
  <1> DEFINE e == Proposal("prepare", p, packs[p], NoDraft, FALSE, NoHandle)
  <1>1. packs[p] \in {Missing} \cup SUBSET Changes
    BY DEF SessionInv, TypeInv, TypeOK
  <1>2. /\ e \in Proposals /\ e.result = "none" /\ e.answer = NoHandle /\ e.kind = "prepare"
        /\ e.base = packs[p]
    BY <1>1 DEF Proposal, Proposals, Kinds, Results
  <1>3. Retain(pending, e) /\ packs[p] # Missing
    BY DEF Compose
  <1> HIDE DEF e
  <1> QED BY <1>2, <1>3, RetainNew DEF Compose

(* No kit proposal comes from a preparation that has no answer yet and      *)
(* whose directory does not exist.                                          *)
LEMMA NotPreparedYet ==
  ASSUME SessionInv, NEW h \in Handles, CanPrepare(h)
  PROVE  /\ h \in DOMAIN pending /\ pending[h].kind = "prepare" /\ pending[h].base # Missing
         /\ pending[h].result = "none" /\ pending[h].pack \in Packs /\ commits[h] # 1
         /\ pending[h].base \in {Missing} \cup SUBSET Changes /\ h \notin scratch
         /\ \A g \in DOMAIN pending : pending[g].kind = "kit" => pending[g].from # h
  <1>1. /\ h \in DOMAIN pending /\ pending[h].kind = "prepare"
        /\ pending[h].result = "none" /\ h \notin scratch
    BY DEF CanPrepare, Executable
  <1>2. pending[h] \in Proposals /\ \A g \in DOMAIN pending : g # NoHandle
    BY <1>1, HandleFacts DEF SessionInv
  <1>3. pending[h].answer = NoHandle /\ pending[h].base # Missing /\ commits[h] # 1
    BY <1>1 DEF SessionInv, Composition, AppliedAtMostOnce
  <1>4. \A g \in DOMAIN pending : pending[g].kind = "kit" => pending[g].from # h
    BY <1>1, <1>2, <1>3 DEF SessionInv, Composition, OneReachableProposal
  <1> QED BY <1>1, <1>2, <1>3, <1>4 DEF Proposals

(* Answering a proposal other than an answered preparation keeps what is    *)
(* known of the others.                                                     *)
LEMMA AnswerKeepsComposition ==
  ASSUME Composition, NEW h \in DOMAIN pending,
         DOMAIN pending' = DOMAIN pending, UNCHANGED scratch,
         \A g \in DOMAIN pending :
           /\ g # h => pending'[g] = pending[g]
           /\ pending'[g].kind = pending[g].kind /\ pending'[g].base = pending[g].base
           /\ pending'[g].from = pending[g].from,
         pending'[h].answer = NoHandle,
         \A g \in DOMAIN pending : pending[g].kind = "kit" => pending[g].from # h
  PROVE  Composition'
  <1>1. ASSUME NEW g \in DOMAIN pending
        PROVE  /\ pending'[g].result = "none" => pending'[g].answer = NoHandle
               /\ pending'[g].kind \in {"prepare", "kit"} => pending'[g].base # Missing
    BY DEF Composition
  <1>2. ASSUME NEW g \in DOMAIN pending, pending'[g].kind = "kit"
        PROVE  /\ pending'[g].from \in DOMAIN pending
               /\ pending'[pending'[g].from].kind = "prepare"
               /\ pending'[g].from \notin scratch => pending'[pending'[g].from].answer = g
               /\ \A f \in DOMAIN pending \ {g} :
                    pending'[f].kind = "kit" => pending'[f].from # pending'[g].from
    <2>1. /\ pending[g].kind = "kit" /\ pending'[g].from = pending[g].from
          /\ pending[g].from \in DOMAIN pending /\ pending[g].from # h
          /\ pending[pending[g].from].kind = "prepare"
      BY <1>2 DEF Composition
    <2>2. pending'[pending[g].from] = pending[pending[g].from]
      BY <2>1
    <2>3. /\ pending[g].from \notin scratch => pending[pending[g].from].answer = g
          /\ \A f \in DOMAIN pending \ {g} :
               pending[f].kind = "kit" => pending[f].from # pending[g].from
      BY <2>1 DEF Composition, OneReachableProposal
    <2> QED BY <2>1, <2>2, <2>3
  <1> QED BY <1>1, <1>2 DEF Composition, OneReachableProposal

LEMMA BlockedStep ==
  ASSUME SessionInv, NEW h \in Handles, PrepareBlocked(h)
  PROVE  SessionInv'
  <1>0. TypeInv /\ CanPrepare(h) /\ Callable
    BY DEF SessionInv, PrepareBlocked, CanPrepare, Executable
  <1>1. /\ pending' \in Seq(Proposals) /\ Len(pending') = Len(pending)
        /\ DOMAIN pending' = DOMAIN pending
        /\ \A g \in DOMAIN pending :
             /\ g # h => pending'[g] = pending[g]
             /\ pending'[g].kind = pending[g].kind /\ pending'[g].base = pending[g].base
             /\ pending'[g].from = pending[g].from
        /\ pending'[h].result = "blocked" /\ pending'[h].answer = NoHandle
    BY <1>0, NotPreparedYet, Recorded DEF PrepareBlocked, Results
  <1>2. TypeInv' /\ Publishing' /\ ~closed'
    BY <1>0, <1>1, CallFrame, HandleFacts DEF PrepareBlocked, TypeInv, TypeOK
  <1>3. OnlyRetained' /\ AppliedAtMostOnce'
    BY <1>0, <1>1, <1>2, NotPreparedYet
    DEF PrepareBlocked, SessionInv, OnlyRetained, AppliedAtMostOnce, Callable
  <1>4. Composition'
    BY <1>0, <1>1, NotPreparedYet, AnswerKeepsComposition DEF PrepareBlocked, SessionInv
  <1> QED BY <1>2, <1>3, <1>4 DEF SessionInv

(* The composed proposal, a reachable or a leaked one, is its preparation's *)
(* only one.                                                                *)
LEMMA ComposedKit ==
  ASSUME SessionInv, NEW h \in Handles, NEW binary \in BOOLEAN, CanPrepare(h),
         NEW e, e = Composed(h, binary)
  PROVE  /\ e \in Proposals /\ e.result = "none" /\ e.answer = NoHandle /\ e.kind = "kit"
         /\ e.base = pending[h].base /\ e.from = h
  BY NotPreparedYet DEF Composed, Proposal, Proposals, Kinds, Results

LEMMA PrepareStep ==
  ASSUME SessionInv, NEW h \in Handles, NEW binary \in BOOLEAN, Prepare(h, binary)
  PROVE  SessionInv'
  <1> DEFINE n == Len(pending) + 1
             e == Composed(h, binary)
             q == Record(h, "prepared", n)
  <1>0. TypeInv /\ CanPrepare(h) /\ Callable /\ HasRoom /\ pending' = Append(q, e)
    BY DEF SessionInv, Prepare, CanPrepare, Executable, Retain
  <1>1. /\ e \in Proposals /\ e.result = "none" /\ e.answer = NoHandle /\ e.kind = "kit"
        /\ e.base = pending[h].base /\ e.from = h
    BY <1>0, ComposedKit
  <1> HIDE DEF e
  <1>2. n \in Handles /\ DOMAIN pending = 1 .. n - 1 /\ n \notin DOMAIN pending /\ n # NoHandle
    BY <1>0, HandleFacts, SessionAssumption DEF HasRoom, Handles
  <1>3. /\ q \in Seq(Proposals) /\ Len(q) = Len(pending) /\ DOMAIN q = DOMAIN pending
        /\ \A g \in DOMAIN pending :
             /\ g # h => q[g] = pending[g]
             /\ q[g].kind = pending[g].kind /\ q[g].base = pending[g].base
             /\ q[g].from = pending[g].from
        /\ q[h].result = "prepared" /\ q[h].answer = n
    BY <1>0, <1>2, NotPreparedYet, Recorded DEF Results
  <1> HIDE DEF q
  <1>4. /\ pending' \in Seq(Proposals) /\ Len(pending') = n /\ DOMAIN pending' = 1 .. n
        /\ pending'[n] = e
        /\ \A g \in DOMAIN pending :
             /\ g # h => pending'[g] = pending[g]
             /\ pending'[g].kind = pending[g].kind /\ pending'[g].base = pending[g].base
             /\ pending'[g].from = pending[g].from
        /\ pending'[h].result = "prepared" /\ pending'[h].answer = n
    <2>1. h \in 1 .. Len(q)
      BY <1>0, <1>3, <1>2, NotPreparedYet, HandleFacts
    <2> QED BY <1>0, <1>1, <1>2, <1>3, <2>1, HandleFacts, AppendProperties
  <1> HIDE DEF n
  <1>5. TypeInv' /\ Publishing' /\ ~closed'
    BY <1>0, <1>2, <1>4, CallFrame DEF Prepare, TypeInv, TypeOK, Handles
  <1>6. DOMAIN pending' = DOMAIN pending \cup {n} /\ commits' = commits /\ scratch' = scratch
    BY <1>2, <1>4, HandleFacts, <1>0 DEF Prepare, n
  <1>7. OnlyRetained'
    BY <1>0, <1>5, <1>6 DEF SessionInv, OnlyRetained, Callable
  <1>8. AppliedAtMostOnce'
    <2>1. commits[n] = 0
      BY <1>0, <1>2 DEF SessionInv, OnlyRetained, Callable
    <2>2. ASSUME NEW g \in DOMAIN pending
          PROVE  pending'[g].result = "applied" <=> commits[g] = 1
      <3>1. CASE g = h
        BY <1>0, <1>4, <3>1, NotPreparedYet
      <3>2. CASE g # h
        BY <1>4, <3>2 DEF SessionInv, AppliedAtMostOnce
      <3> QED BY <3>1, <3>2
    <2>3. pending'[n].result # "applied"
      BY <1>1, <1>4
    <2>4. \A g \in Handles : commits'[g] <= 1
      BY <1>6 DEF SessionInv, AppliedAtMostOnce
    <2>5. \A g \in DOMAIN pending' : pending'[g].result = "applied" <=> commits'[g] = 1
      BY <1>6, <2>1, <2>2, <2>3
    <2> QED BY <2>4, <2>5 DEF AppliedAtMostOnce
  <1>9. Composition'
    <2>1. /\ h \in DOMAIN pending /\ pending[h].kind = "prepare" /\ pending[h].base # Missing
          /\ \A g \in DOMAIN pending : pending[g].kind = "kit" => g # h /\ pending[g].from # h
      BY <1>0, NotPreparedYet
    <2>2. ASSUME NEW g \in DOMAIN pending'
          PROVE  /\ pending'[g].result = "none" => pending'[g].answer = NoHandle
                 /\ pending'[g].kind \in {"prepare", "kit"} => pending'[g].base # Missing
                 /\ pending'[g].kind = "kit" =>
                      /\ pending'[g].from \in DOMAIN pending'
                      /\ pending'[pending'[g].from].kind = "prepare"
      <3>1. CASE g = n
        BY <1>1, <1>2, <1>4, <1>6, <2>1, <3>1
      <3>2. CASE g = h
        BY <1>4, <2>1, <3>2
      <3>3. CASE g \in DOMAIN pending /\ g # h
        <4>1. pending'[g] = pending[g]
          BY <1>4, <3>3
        <4>2. /\ pending[g].result = "none" => pending[g].answer = NoHandle
              /\ pending[g].kind \in {"prepare", "kit"} => pending[g].base # Missing
              /\ pending[g].kind = "kit" => pending[g].from \in DOMAIN pending
              /\ pending[g].kind = "kit" => pending[pending[g].from].kind = "prepare"
          BY <3>3 DEF SessionInv, Composition
        <4>3. \A f \in DOMAIN pending : pending'[f].kind = pending[f].kind
          BY <1>4
        <4> QED BY <1>6, <4>1, <4>2, <4>3
      <3> QED BY <1>6, <3>1, <3>2, <3>3
    <2>3. ASSUME NEW g \in DOMAIN pending', pending'[g].kind = "kit"
          PROVE  /\ \A f \in DOMAIN pending' \ {g} :
                      pending'[f].kind = "kit" => pending'[f].from # pending'[g].from
                 /\ pending'[g].from \notin scratch => pending'[pending'[g].from].answer = g
      <3>1. CASE g = n
        <4>1. pending'[g].from = h /\ pending'[h].answer = g
          BY <1>1, <1>4, <3>1
        <4>2. ASSUME NEW f \in DOMAIN pending, pending'[f].kind = "kit" PROVE pending'[f].from # h
          BY <1>4, <2>1, <4>2
        <4> QED BY <1>6, <3>1, <4>1, <4>2
      <3>2. CASE g \in DOMAIN pending
        <4>1. /\ pending[g].kind = "kit" /\ pending'[g].from = pending[g].from
              /\ pending[g].from \in DOMAIN pending /\ pending[g].from # h
          BY <1>4, <2>1, <2>3, <3>2 DEF SessionInv, Composition
        <4>2. pending'[pending[g].from] = pending[pending[g].from]
          BY <1>4, <4>1
        <4>3. /\ pending[g].from \notin scratch => pending[pending[g].from].answer = g
              /\ \A f \in DOMAIN pending \ {g} :
                   pending[f].kind = "kit" => pending[f].from # pending[g].from
          BY <3>2, <4>1 DEF SessionInv, Composition, OneReachableProposal
        <4>4. ASSUME NEW f \in DOMAIN pending \ {g}, pending'[f].kind = "kit"
              PROVE  pending'[f].from # pending[g].from
          BY <1>4, <4>3, <4>4
        <4>5. pending'[n].from # pending[g].from
          BY <1>1, <1>4, <4>1
        <4> QED BY <1>6, <4>1, <4>2, <4>3, <4>4, <4>5
      <3> QED BY <1>6, <3>1, <3>2
    <2> QED BY <1>6, <2>2, <2>3 DEF Composition, OneReachableProposal
  <1> QED BY <1>5, <1>7, <1>8, <1>9 DEF SessionInv

LEMMA LeakStep ==
  ASSUME SessionInv, NEW h \in Handles, NEW binary \in BOOLEAN, PrepareLeaksScratch(h, binary)
  PROVE  SessionInv'
  <1> DEFINE n == Len(pending) + 1
             e == Composed(h, binary)
  <1>0. /\ TypeInv /\ CanPrepare(h) /\ Callable /\ scratch' = scratch \cup {h}
        /\ UNCHANGED <<packs, closed, writes, author, commits>>
    BY DEF SessionInv, PrepareLeaksScratch, CanPrepare, Executable
  <1>1. scratch' \subseteq Handles /\ commits' \in [Handles -> Nat]
    BY <1>0 DEF TypeInv, TypeOK
  <1>2. CASE UNCHANGED pending
    <2>1. TypeInv' /\ Publishing' /\ ~closed'
      BY <1>0, <1>1, <1>2, CallFrame, HandleFacts DEF TypeInv
    <2>2. OnlyRetained' /\ AppliedAtMostOnce' /\ Composition'
      BY <1>0, <1>2
      DEF SessionInv, OnlyRetained, AppliedAtMostOnce, Composition, OneReachableProposal
    <2> QED BY <2>1, <2>2 DEF SessionInv
  <1>3. CASE HasRoom /\ pending' = Append(pending, e)
    <2>1. /\ e \in Proposals /\ e.result = "none" /\ e.answer = NoHandle /\ e.kind = "kit"
          /\ e.base = pending[h].base /\ e.from = h
      BY <1>0, ComposedKit
    <2> HIDE DEF e
    <2>2. /\ n \in Handles /\ DOMAIN pending = 1 .. n - 1 /\ n \notin DOMAIN pending
          /\ n # NoHandle
      BY <1>0, <1>3, HandleFacts, SessionAssumption DEF HasRoom, Handles
    <2>3. /\ pending' \in Seq(Proposals) /\ Len(pending') = n /\ DOMAIN pending' = 1 .. n
          /\ pending'[n] = e /\ \A g \in DOMAIN pending : pending'[g] = pending[g]
      BY <1>0, <1>3, <2>1, <2>2, HandleFacts, AppendProperties DEF TypeInv
    <2>4. TypeInv' /\ Publishing' /\ ~closed'
      BY <1>0, <1>1, <2>2, <2>3, CallFrame DEF Handles
    <2>5. DOMAIN pending' = DOMAIN pending \cup {n}
      BY <2>2, <2>3, <1>0, HandleFacts
    <2> HIDE DEF n
    <2>6. OnlyRetained' /\ AppliedAtMostOnce'
      BY <1>0, <2>1, <2>2, <2>3, <2>4, <2>5
      DEF SessionInv, OnlyRetained, AppliedAtMostOnce, Callable
    <2>7. Composition'
      BY <1>0, <2>1, <2>2, <2>3, <2>5, NotPreparedYet
      DEF SessionInv, Composition, OneReachableProposal
    <2> QED BY <2>4, <2>6, <2>7 DEF SessionInv
  <1> QED BY <1>2, <1>3 DEF PrepareLeaksScratch, Retain

(* Apply and Publish: the bytes are written and the answer is recorded.     *)
LEMMA RecordApplied ==
  ASSUME SessionInv, ~closed, NEW h \in DOMAIN pending, pending[h].kind \in {"scaffold", "kit"},
         pending[h].result = "none", pending' = Record(h, "applied", NoHandle),
         commits' = [commits EXCEPT ![h] = @ + 1], UNCHANGED <<scratch, closed>>
  PROVE  /\ pending' \in Seq(Proposals) /\ Len(pending') = Len(pending)
         /\ commits' \in [Handles -> Nat]
         /\ OnlyRetained' /\ AppliedAtMostOnce' /\ Composition'
  <1>0. TypeInv /\ h \in Handles /\ commits \in [Handles -> Nat]
    BY HandleFacts DEF SessionInv, TypeInv, TypeOK
  <1>1. /\ pending' \in Seq(Proposals) /\ Len(pending') = Len(pending)
        /\ DOMAIN pending' = DOMAIN pending
        /\ \A g \in DOMAIN pending :
             /\ g # h => pending'[g] = pending[g]
             /\ pending'[g].kind = pending[g].kind /\ pending'[g].base = pending[g].base
             /\ pending'[g].from = pending[g].from
        /\ pending'[h].result = "applied" /\ pending'[h].answer = NoHandle
    BY <1>0, Recorded DEF Results
  <1>2. commits[h] = 0
    BY <1>0 DEF SessionInv, AppliedAtMostOnce
  <1>3. commits' \in [Handles -> Nat] /\ commits'[h] = 1
        /\ \A g \in Handles : g # h => commits'[g] = commits[g]
    BY <1>0, <1>2
  <1>4. OnlyRetained' /\ AppliedAtMostOnce'
    BY <1>0, <1>1, <1>3, HandleFacts DEF SessionInv, OnlyRetained, AppliedAtMostOnce
  <1>5. Composition'
    <2>1. \A g \in DOMAIN pending : pending[g].kind = "kit" => pending[g].from # h
      BY DEF SessionInv, Composition
    <2> QED BY <1>1, <2>1, AnswerKeepsComposition DEF SessionInv
  <1> QED BY <1>1, <1>3, <1>4, <1>5

LEMMA ApplyStep ==
  ASSUME SessionInv, NEW h \in Handles, Apply(h)
  PROVE  SessionInv'
  <1>0. /\ TypeInv /\ Callable /\ h \in DOMAIN pending /\ pending[h].kind = "kit"
        /\ pending[h].result = "none"
    BY DEF SessionInv, Apply, Executable
  <1>1. packs' \in [Packs -> {Missing} \cup SUBSET Changes]
    <2>1. packs[pending[h].pack] \in SUBSET Changes /\ <<"apply", h>> \in Changes
      <3>1. pending[h] \in Proposals /\ pending[h].base # Missing
        BY <1>0, HandleFacts DEF SessionInv, Composition
      <3> QED BY <3>1 DEF Apply, Unchanged, Proposals, Changes
    <2> QED BY <1>0, <2>1 DEF Apply, TypeInv, TypeOK
  <1>2. /\ pending' \in Seq(Proposals) /\ Len(pending') = Len(pending)
        /\ commits' \in [Handles -> Nat]
        /\ OnlyRetained' /\ AppliedAtMostOnce' /\ Composition'
    BY <1>0, RecordApplied DEF Apply, Callable
  <1>3. TypeInv'
    BY <1>0, <1>1, <1>2 DEF Apply, author, TypeInv, TypeOK
  <1>4. Publishing'
    BY <1>0 DEF Apply, Publishing, Callable, NotWriting
  <1> QED BY <1>2, <1>3, <1>4 DEF SessionInv

LEMMA CloseStep ==
  ASSUME SessionInv, Close
  PROVE  SessionInv'
  <1>0. /\ pending' = <<>> /\ DOMAIN pending' = {} /\ Len(pending') = 0
        /\ pending' \in Seq(Proposals)
    BY DEF Close
  <1>1. TypeInv'
    BY <1>0, HandleFacts, SessionAssumption
       DEF Close, author, SessionInv, TypeInv, TypeOK
  <1>2. Publishing'
    BY DEF Close, Callable, Publishing, NotWriting
  <1>3. OnlyRetained' /\ AppliedAtMostOnce' /\ Composition'
    BY <1>0
    DEF Close, SessionInv, OnlyRetained, AppliedAtMostOnce, Composition,
        OneReachableProposal
  <1> QED BY <1>1, <1>2, <1>3 DEF SessionInv

--------------------------------------------------------------------------------
(* Writers beside the session touch neither its proposals nor its answers.  *)
LEMMA BesideSession ==
  ASSUME SessionInv, UNCHANGED <<pending, scratch, closed, commits, writes>>
  PROVE  Publishing' /\ OnlyRetained' /\ AppliedAtMostOnce' /\ Composition'
  BY DEF SessionInv, Publishing, OnlyRetained, AppliedAtMostOnce, Composition,
         OneReachableProposal

WriteStates == [step : {"idle", "staging", "publishing", "done"},
                pack : Packs \cup {NoPack}, handle : Handles \cup {NoHandle}]

(* A writer that stops has a state of a writer, and the session then none.  *)
LEMMA DoneType ==
  ASSUME TypeInv, NEW w \in Writers
  PROVE  Done(w) \in [Writers -> WriteStates]
  BY DEF TypeInv, TypeOK, Done, NotWriting, WriteStates

LEMMA ApplyScaffoldStep ==
  ASSUME SessionInv, NEW h \in Handles, ApplyScaffold(h)
  PROVE  SessionInv'
  <1>0. /\ TypeInv /\ ~closed /\ h \in DOMAIN pending /\ pending[h].kind = "scaffold"
        /\ pending[h].result = "none" /\ Session \in Writers
        /\ writes' = Writing(Session, pending[h].pack, h)
        /\ UNCHANGED <<packs, pending, scratch, closed, author, commits>>
    BY DEF SessionInv, ApplyScaffold, Executable, Callable, Writers
  <1>1. pending[h].pack \in Packs
    BY <1>0, HandleFacts DEF Proposals
  <1>2. writes' \in [Writers -> WriteStates]
        /\ writes'[Session] = [step |-> "staging", pack |-> pending[h].pack, handle |-> h]
    BY <1>0, <1>1 DEF Writing, WriteStates, TypeInv, TypeOK
  <1>3. TypeInv'
    BY <1>0, <1>2 DEF WriteStates, TypeInv, TypeOK, author
  <1>4. Publishing'
    BY <1>0, <1>2 DEF Publishing, SessionInv
  <1>5. OnlyRetained' /\ AppliedAtMostOnce' /\ Composition'
    BY <1>0
       DEF SessionInv, OnlyRetained, AppliedAtMostOnce, Composition,
           OneReachableProposal
  <1> QED BY <1>3, <1>4, <1>5 DEF SessionInv

(* A step of a writer that changes no proposal.                             *)
LEMMA WriterGoesOn ==
  ASSUME SessionInv, UNCHANGED <<pending, scratch, closed, commits, author>>,
         packs' \in [Packs -> {Missing} \cup SUBSET Changes],
         writes' \in [Writers -> WriteStates],
         \/ writes'[Session] = writes[Session]
         \/ writes'[Session] = NotWriting
         \/ /\ writes[Session] # NotWriting
            /\ writes'[Session].handle = writes[Session].handle
            /\ writes'[Session].step = "publishing"
  PROVE  SessionInv'
  <1>1. TypeInv'
    BY DEF SessionInv, TypeInv, TypeOK, WriteStates, author
  <1>2. Publishing'
    BY DEF SessionInv, Publishing, NotWriting
  <1>3. OnlyRetained' /\ AppliedAtMostOnce' /\ Composition'
    BY DEF SessionInv, OnlyRetained, AppliedAtMostOnce, Composition,
       OneReachableProposal
  <1> QED BY <1>1, <1>2, <1>3 DEF SessionInv

LEMMA WizardStep ==
  ASSUME SessionInv, NEW w \in Wizards, NEW p \in Packs, NEW draft \in Drafts,
         RunWizard(w, p, draft)
  PROVE  SessionInv'
  <1>1. writes' \in [Writers -> WriteStates] /\ writes'[Session] = writes[Session]
    BY SessionAssumption
    DEF RunWizard, Writing, WriteStates, Writers, SessionInv, TypeInv, TypeOK
  <1>2. packs' \in [Packs -> {Missing} \cup SUBSET Changes]
    BY DEF RunWizard, SessionInv, TypeInv, TypeOK
  <1> QED BY <1>1, <1>2, WriterGoesOn DEF RunWizard

LEMMA StagedStep ==
  ASSUME SessionInv, NEW w \in Writers, StagedAndValidated(w)
  PROVE  SessionInv'
  <1>0. TypeInv /\ writes[w].step = "staging" /\ Session \in Writers
    BY DEF SessionInv, StagedAndValidated, Writers
  <1>1. packs' \in [Packs -> {Missing} \cup SUBSET Changes]
    BY <1>0 DEF StagedAndValidated, TypeInv, TypeOK
  <1>2. CASE writes' = [writes EXCEPT ![w].step = "publishing"]
    <2>1. writes' \in [Writers -> WriteStates]
      BY <1>0, <1>2 DEF WriteStates, TypeInv, TypeOK
    <2>2. CASE w = Session
      <3>1. /\ writes[Session] # NotWriting
            /\ writes'[Session].handle = writes[Session].handle
            /\ writes'[Session].step = "publishing"
        BY <1>0, <1>2, <2>2 DEF NotWriting, TypeInv, TypeOK
      <3> QED BY <1>1, <2>1, <3>1, WriterGoesOn DEF StagedAndValidated
    <2>3. CASE w # Session
      <3>1. writes'[Session] = writes[Session]
        BY <1>0, <1>2, <2>3 DEF TypeInv, TypeOK
      <3> QED BY <1>1, <2>1, <3>1, WriterGoesOn DEF StagedAndValidated
    <2> QED BY <2>2, <2>3
  <1>3. CASE writes' = Done(w)
    <2>1. writes' \in [Writers -> WriteStates]
      BY <1>0, <1>3, DoneType
    <2>2. writes'[Session] = writes[Session] \/ writes'[Session] = NotWriting
      BY <1>0, <1>3 DEF Done, TypeInv, TypeOK
    <2> QED BY <1>1, <2>1, <2>2, WriterGoesOn DEF StagedAndValidated
  <1> QED BY <1>2, <1>3 DEF StagedAndValidated

LEMMA PublishStep ==
  ASSUME SessionInv, NEW w \in Writers, Publish(w)
  PROVE  SessionInv'
  <1> DEFINE p == writes[w].pack
             h == writes[w].handle
             created == IF w = Session THEN <<"apply", h>> ELSE <<"new", w>>
  <1>0. TypeInv /\ writes[w].step = "publishing" /\ Session \in Writers
    BY DEF SessionInv, Publish, Writers
  <1>1. writes' \in [Writers -> WriteStates]
    BY <1>0, DoneType DEF Publish
  <1>2. CASE w = Session /\ CanPublish(p)
    <2>1. /\ ~closed /\ h \in DOMAIN pending /\ pending[h].kind = "scaffold"
          /\ pending[h].result = "none"
      <3>1. writes[Session] # NotWriting
        BY <1>0, <1>2 DEF NotWriting
      <3> QED BY <1>2, <3>1 DEF SessionInv, Publishing
    <2>2. /\ packs' = [packs EXCEPT ![p] = {created}]
          /\ commits' = [commits EXCEPT ![h] = @ + 1]
          /\ pending' = Record(h, "applied", NoHandle)
          /\ UNCHANGED <<scratch, closed, author>>
      BY <1>2 DEF Publish
    <2>3. {created} \in SUBSET Changes
      BY <1>0, <1>2, <2>1, HandleFacts DEF Changes
    <2>4. packs' \in [Packs -> {Missing} \cup SUBSET Changes]
      <3> HIDE DEF created, p
      <3> QED BY <1>0, <2>2, <2>3 DEF TypeInv, TypeOK
    <2>5. /\ pending' \in Seq(Proposals) /\ Len(pending') = Len(pending)
          /\ commits' \in [Handles -> Nat]
          /\ OnlyRetained' /\ AppliedAtMostOnce' /\ Composition'
      <3> HIDE DEF h
      <3> QED BY <2>1, <2>2, RecordApplied
    <2>6. TypeInv'
      <3> HIDE DEF created, p, h
      <3> QED BY <1>0, <1>1, <2>2, <2>4, <2>5 DEF WriteStates, TypeInv, TypeOK, author
    <2>7. Publishing'
      <3>1. writes'[Session] = NotWriting
        BY <1>0, <1>2 DEF Publish, Done, TypeInv, TypeOK
      <3> QED BY <3>1 DEF Publishing, NotWriting
    <2> QED BY <2>5, <2>6, <2>7 DEF SessionInv
  <1>3. CASE ~(w = Session /\ CanPublish(p))
    <2>1. UNCHANGED <<pending, scratch, closed, commits, author>>
      BY <1>3 DEF Publish
    <2>2. packs' \in [Packs -> {Missing} \cup SUBSET Changes]
      <3>1. CASE CanPublish(p)
        <4>1. {created} \in SUBSET Changes /\ packs' = [packs EXCEPT ![p] = {created}]
          BY <1>3, <3>1 DEF Publish, Changes, Writers
        <4> HIDE DEF created, p
        <4> QED BY <1>0, <4>1 DEF TypeInv, TypeOK
      <3>2. CASE ~CanPublish(p)
        BY <1>0, <3>2 DEF Publish, TypeInv, TypeOK
      <3> QED BY <3>1, <3>2
    <2>3. writes'[Session] = writes[Session] \/ writes'[Session] = NotWriting
      BY <1>0 DEF Publish, Done, TypeInv, TypeOK
    <2> QED BY <1>1, <2>1, <2>2, <2>3, WriterGoesOn
  <1> QED BY <1>2, <1>3

LEMMA DiesStep ==
  ASSUME SessionInv, NEW w \in Writers, Dies(w)
  PROVE  SessionInv'
  <1>0. TypeInv /\ Session \in Writers
    BY DEF SessionInv, Writers
  <1>1. /\ writes' \in [Writers -> WriteStates]
        /\ packs' \in [Packs -> {Missing} \cup SUBSET Changes]
    BY <1>0, DoneType DEF Dies, TypeInv, TypeOK
  <1>2. CASE w = Session
    <2>1. /\ pending' = <<>> /\ DOMAIN pending' = {} /\ Len(pending') = 0
          /\ pending' \in Seq(Proposals)
      BY <1>2 DEF Dies
    <2>2. TypeInv'
      BY <1>0, <1>1, <1>2, <2>1, SessionAssumption
      DEF Dies, author, WriteStates, TypeInv, TypeOK
    <2>3. Publishing'
      <3>1. writes'[Session] = NotWriting
        BY <1>0, <1>2 DEF Dies, Done, TypeInv, TypeOK
      <3> QED BY <3>1 DEF Publishing, NotWriting
    <2>4. OnlyRetained' /\ AppliedAtMostOnce' /\ Composition'
      BY <1>2, <2>1
      DEF Dies, SessionInv, OnlyRetained, AppliedAtMostOnce, Composition,
          OneReachableProposal
    <2> QED BY <2>2, <2>3, <2>4 DEF SessionInv
  <1>3. CASE w # Session
    <2>1. writes'[Session] = writes[Session]
      BY <1>0, <1>3 DEF Dies, Done, TypeInv, TypeOK
    <2> QED BY <1>1, <1>3, <2>1, WriterGoesOn DEF Dies
  <1> QED BY <1>2, <1>3

LEMMA AuthorStep ==
  ASSUME SessionInv, NEW p \in Packs, AuthorEdits(p) \/ AuthorReverts(p)
  PROVE  SessionInv'
  <1>0. TypeInv
    BY DEF SessionInv
  <1>1. packs' \in [Packs -> {Missing} \cup SUBSET Changes] /\ edits' \in 0 .. MaxEdits
        /\ reverted' \in BOOLEAN
    <2>1. CASE AuthorEdits(p)
      <3>1. <<"edit", edits + 1>> \in Changes /\ edits + 1 \in 0 .. MaxEdits
        BY <1>0, <2>1, SessionAssumption
           DEF AuthorEdits, Changes, EditIds, TypeInv, TypeOK
      <3>2. packs[p] \in SUBSET Changes
        BY <1>0, <2>1 DEF AuthorEdits, TypeInv, TypeOK
      <3> QED BY <1>0, <2>1, <3>1, <3>2 DEF AuthorEdits, TypeInv, TypeOK
    <2>2. CASE AuthorReverts(p)
      BY <1>0, <2>2, HandleFacts DEF AuthorReverts, Proposals, TypeInv, TypeOK
    <2> QED BY <2>1, <2>2
  <1>2. TypeInv'
    BY <1>0, <1>1 DEF AuthorEdits, AuthorReverts, TypeInv, TypeOK
  <1> QED BY <1>2, BesideSession DEF AuthorEdits, AuthorReverts, SessionInv

LEMMA SessionStepKeeps ==
  ASSUME SessionInv, [Next]_vars
  PROVE  SessionInv'
  <1>1. CASE SessionStep
    BY <1>1, ScaffoldStep, ComposeStep, PrepareStep, LeakStep, BlockedStep, ApplyStep,
       ApplyScaffoldStep, CloseStep
    DEF SessionStep
  <1>2. CASE WriterStep
    BY <1>2, WizardStep, StagedStep, PublishStep, DiesStep DEF WriterStep
  <1>3. ASSUME NEW p \in Packs, AuthorEdits(p) \/ AuthorReverts(p) PROVE SessionInv'
    BY <1>3, AuthorStep
  <1>4. CASE UNCHANGED vars
    <2>1. TypeInv'
      BY <1>4 DEF vars, author, SessionInv, TypeInv, TypeOK
    <2> QED BY <1>4, <2>1, BesideSession DEF vars, SessionInv
  <1> QED BY <1>1, <1>2, <1>3, <1>4 DEF Next

--------------------------------------------------------------------------------
(* Type correctness of the session's model, for all constants.              *)
THEOREM TypeCorrect == Spec => []TypeOK
  <1>1. SessionInv => TypeOK
    BY DEF SessionInv, TypeInv
  <1> QED BY <1>1, InitSession, SessionStepKeeps, PTL DEF Spec

(* Repeating an apply never writes again, and a handle is answered as       *)
(* applied exactly when its bytes were written: for any session, writers    *)
(* and faults.                                                              *)
THEOREM NeverAppliedTwice == Spec => []AppliedAtMostOnce
  <1>1. SessionInv => AppliedAtMostOnce
    BY DEF SessionInv
  <1> QED BY <1>1, InitSession, SessionStepKeeps, PTL DEF Spec

(* However often a preparation is asked for, it retains one proposal, which *)
(* asking again answers.                                                    *)
THEOREM PreparationsAreReachable == Spec => []OneReachableProposal
  <1>1. SessionInv => OneReachableProposal
    BY DEF SessionInv, Composition
  <1> QED BY <1>1, InitSession, SessionStepKeeps, PTL DEF Spec

(* No call and no wizard overwrites or removes what a pack incorporates.    *)
THEOREM SessionAlwaysKeepsWork == Spec => SessionKeepsWork
  <1>1. ASSUME SessionInv, Next, NEW p \in Packs, edits' = edits, reverted' = reverted,
               packs[p] # Missing
        PROVE  packs'[p] # Missing /\ packs[p] \subseteq packs'[p]
    <2>0. TypeInv
      BY <1>1 DEF SessionInv
    <2>1. CASE packs' = packs
      BY <1>1, <2>1
    <2>2. ASSUME NEW h \in Handles, Apply(h)
          PROVE  packs'[p] # Missing /\ packs[p] \subseteq packs'[p]
      <3>1. packs'[p] \in SUBSET Changes /\ packs[p] \subseteq packs'[p]
        <4>1. packs[p] \in SUBSET Changes /\ <<"apply", h>> \in Changes
          BY <1>1, <2>0 DEF Changes, TypeInv, TypeOK
        <4> QED BY <2>0, <2>2, <4>1 DEF Apply, TypeInv, TypeOK
      <3> QED BY <3>1, MissingAssumption
    <2>3. ASSUME NEW w \in Writers, Publish(w)
          PROVE  packs'[p] # Missing /\ packs[p] \subseteq packs'[p]
      <3>1. packs'[p] = packs[p]
        BY <1>1, <2>0, <2>3 DEF Publish, CanPublish, TypeInv, TypeOK
      <3> QED BY <1>1, <3>1
    <2>4. ASSUME NEW q \in Packs, AuthorEdits(q) \/ AuthorReverts(q) PROVE FALSE
      BY <1>1, <2>0, <2>4 DEF AuthorEdits, AuthorReverts, TypeInv, TypeOK
    <2>5. CASE SessionStep
      BY <2>1, <2>2, <2>5
      DEF SessionStep, Scaffold, Compose, Prepare, PrepareLeaksScratch, PrepareBlocked,
          ApplyScaffold, Close
    <2>6. CASE WriterStep
      BY <2>1, <2>3, <2>6 DEF WriterStep, RunWizard, StagedAndValidated, Dies
    <2> QED BY <1>1, <2>4, <2>5, <2>6 DEF Next
  <1>2. SessionInv /\ [Next]_vars =>
          [\A p \in Packs :
             edits' = edits /\ reverted' = reverted /\ packs[p] # Missing =>
               packs'[p] # Missing /\ packs[p] \subseteq packs'[p]]_vars
    BY <1>1
  <1> QED BY <1>2, InitSession, SessionStepKeeps, PTL DEF Spec, SessionKeepsWork

--------------------------------------------------------------------------------
(* What admission makes of a document, by induction along its layers.       *)
(* A set of numbers has a least one.                                        *)
LEMMA Least ==
  ASSUME NEW S \in SUBSET Nat, S # {}
  PROVE  \E n \in S : \A m \in S : n <= m
  <1>1. IsWellFoundedOn(OpToRel(<, Nat), Nat)
    BY NatLessThanWellFounded
  <1>2. PICK n \in S : \A m \in S : <<m, n>> \notin OpToRel(<, Nat)
    BY <1>1, WFMin
  <1>3. \A m \in S : ~(m < n)
    BY <1>2 DEF OpToRel
  <1> QED BY <1>3

(* What holds of no element yet, and of one more with each step, holds of all. *)
LEMMA Induction ==
  ASSUME NEW N \in Nat, NEW S, 0 \in S, \A n \in 1 .. N : n - 1 \in S => n \in S
  PROVE  0 .. N \subseteq S
  <1> SUFFICES ASSUME (0 .. N) \ S # {} PROVE FALSE
    OBVIOUS
  <1>1. (0 .. N) \ S \in SUBSET Nat
    OBVIOUS
  <1>2. PICK k \in (0 .. N) \ S : \A m \in (0 .. N) \ S : k <= m
    BY <1>1, Least
  <1>3. k # 0 /\ k \in 1 .. N /\ k - 1 \in 0 .. N /\ ~(k <= k - 1)
    BY <1>2
  <1> QED BY <1>2, <1>3

(* The first k values of the recursion that starts with base and takes step. *)
Follows(f, B, base, grow, k) ==
  /\ f \in [0 .. k -> B] /\ f[0] = base
  /\ \A n \in 1 .. k : f[n] = grow[<<f[n - 1], n>>]

LEMMA Recursion ==
  ASSUME NEW B, NEW base \in B, NEW N \in Nat, NEW grow \in [B \X (1 .. N) -> B]
  PROVE  \E f : Follows(f, B, base, grow, N)
  <1> DEFINE S == {k \in 0 .. N : \E f : Follows(f, B, base, grow, k)}
  <1>1. 0 \in S
    <2>1. Follows([n \in 0 .. 0 |-> base], B, base, grow, 0)
      BY DEF Follows
    <2> QED BY <2>1
  <1>2. ASSUME NEW k \in 1 .. N, k - 1 \in S PROVE k \in S
    <2>1. PICK f : Follows(f, B, base, grow, k - 1)
      BY <1>2
    <2> DEFINE g == [n \in 0 .. k |-> IF n = k THEN grow[<<f[k - 1], k>>] ELSE f[n]]
    <2>2. grow[<<f[k - 1], k>>] \in B
      BY <2>1 DEF Follows
    <2>3. g \in [0 .. k -> B] /\ g[0] = base
      BY <2>1, <2>2 DEF Follows
    <2>4. ASSUME NEW n \in 1 .. k PROVE g[n] = grow[<<g[n - 1], n>>]
      <3>1. n - 1 \in 0 .. k - 1 /\ n - 1 # k /\ n \in 0 .. k
        OBVIOUS
      <3>2. g[n - 1] = f[n - 1]
        BY <3>1
      <3>3. CASE n = k
        <4>1. g[n] = grow[<<f[k - 1], k>>]
          BY <3>1, <3>3
        <4> QED BY <3>2, <3>3, <4>1
      <3>4. CASE n # k
        <4>1. n \in 1 .. k - 1
          BY <3>4
        <4>2. g[n] = f[n]
          BY <3>1, <3>4
        <4>3. f[n] = grow[<<f[n - 1], n>>]
          BY <2>1, <4>1 DEF Follows
        <4> QED BY <3>2, <4>2, <4>3
      <3> QED BY <3>3, <3>4
    <2> HIDE DEF g
    <2>5. Follows(g, B, base, grow, k)
      BY <2>3, <2>4 DEF Follows
    <2> QED BY <2>5
  <1> HIDE DEF S
  <1>3. N \in S
    BY <1>1, <1>2, Induction
  <1> QED BY <1>3 DEF S

Layers == DOMAIN Capabilities

(* What is generated at a path, whoever generates it.                       *)
Generated(path) ==
  CASE path = "pack.yaml" -> "manifest"
    [] path = "sdl/scenario" -> "sdl"
    [] path = "docs/concepts.md" -> "concepts"
    [] path = "docs/attack-path.md" -> "attack path"
    [] path = "docs/provenance-ledger.yaml" -> "ledger"
    [] path = "flags/placement.yaml" -> "placement"
    [] path = "challenges/challenges.yaml" -> "challenges"
    [] path = "ctfd/README.md" -> "loader"
    [] path = "build/README.md" -> "build"
    [] path = "tests/README.md" -> "tests"
    [] path = "docs/walkthroughs/README.md" -> "walkthroughs"
    [] path = "docs/golden-readiness-checklist.md" -> "golden checklist"
    [] path = "pack.compatibility.yaml" -> "compatibility"
    [] path = "README.md" -> "participant readme"
    [] path = "profiles/bundles.yaml" -> "bundles"
    [] path = "profiles/_shared/README.md" -> "shared"
    [] OTHER -> "nothing"

(* A function that says of its paths what is generated there.               *)
Agrees(files) == files = [path \in DOMAIN files |-> Generated(path)]

Key(row) == row.key
Value(row) == row.value

LEMMA RowFacts == \A key, value : Key(Row(key, value)) = key /\ Value(Row(key, value)) = value
  BY DEF Key, Value, Row

LEMMA TableFacts ==
  ASSUME NEW R
  PROVE  /\ DOMAIN Table(R) = {Key(row) : row \in R}
         /\ \A key \in DOMAIN Table(R) :
              \E row \in R : Key(row) = key /\ Table(R)[key] = Value(row)
  BY DEF Table, Key, Value

LEMMA KeyInTable ==
  ASSUME NEW R, NEW key, NEW value, Row(key, value) \in R
  PROVE  key \in DOMAIN Table(R)
  <1>1. Key(Row(key, value)) = key
    BY RowFacts
  <1>2. Key(Row(key, value)) \in {Key(row) : row \in R}
    OBVIOUS
  <1>3. DOMAIN Table(R) = {Key(row) : row \in R}
    BY TableFacts
  <1> QED BY <1>1, <1>2, <1>3

(* A row of what is generated.                                              *)
Sound(row) == Value(row) = Generated(Key(row))

LEMMA RowAgrees ==
  ASSUME NEW key, NEW value, Generated(key) = value
  PROVE  Sound(Row(key, value))
  <1>1. Key(Row(key, value)) = key /\ Value(Row(key, value)) = value
    BY RowFacts
  <1> QED BY <1>1 DEF Sound

LEMMA GeneratedContents ==
  /\ Generated("pack.yaml") = "manifest" /\ Generated("sdl/scenario") = "sdl"
  /\ Generated("docs/concepts.md") = "concepts"
  /\ Generated("docs/attack-path.md") = "attack path"
  /\ Generated("docs/provenance-ledger.yaml") = "ledger"
  /\ Generated("flags/placement.yaml") = "placement"
  /\ Generated("challenges/challenges.yaml") = "challenges"
  /\ Generated("ctfd/README.md") = "loader"
  /\ Generated("build/README.md") = "build"
  /\ Generated("tests/README.md") = "tests"
  /\ Generated("docs/walkthroughs/README.md") = "walkthroughs"
  /\ Generated("docs/golden-readiness-checklist.md") = "golden checklist"
  /\ Generated("pack.compatibility.yaml") = "compatibility"
  /\ Generated("README.md") = "participant readme"
  /\ Generated("profiles/bundles.yaml") = "bundles"
  /\ Generated("profiles/_shared/README.md") = "shared"
  BY DEF Generated

LEMMA RowsAgree ==
  /\ Sound(Row("pack.yaml", "manifest"))
  /\ Sound(Row("sdl/scenario", "sdl"))
  /\ Sound(Row("docs/concepts.md", "concepts"))
  /\ Sound(Row("docs/attack-path.md", "attack path"))
  /\ Sound(Row("docs/provenance-ledger.yaml", "ledger"))
  /\ Sound(Row("flags/placement.yaml", "placement"))
  /\ Sound(Row("challenges/challenges.yaml", "challenges"))
  /\ Sound(Row("ctfd/README.md", "loader"))
  /\ Sound(Row("build/README.md", "build"))
  /\ Sound(Row("tests/README.md", "tests"))
  /\ Sound(Row("docs/walkthroughs/README.md", "walkthroughs"))
  /\ Sound(GoldenChecklist)
  /\ Sound(Row("pack.compatibility.yaml", "compatibility"))
  /\ Sound(Row("README.md", "participant readme"))
  /\ Sound(Row("profiles/bundles.yaml", "bundles"))
  /\ Sound(Row("profiles/_shared/README.md", "shared"))
  BY RowAgrees, GeneratedContents DEF GoldenChecklist

LEMMA TableAgrees ==
  ASSUME NEW R, \A row \in R : Sound(row)
  PROVE  Agrees(Table(R)) /\ DOMAIN Table(R) = {Key(row) : row \in R}
  <1>1. \A key \in DOMAIN Table(R) : Table(R)[key] = Generated(key)
    BY TableFacts DEF Sound
  <1>2. Table(R) = [key \in DOMAIN Table(R) |-> Table(R)[key]]
    BY DEF Table
  <1> QED BY <1>1, <1>2, TableFacts DEF Agrees

LEMMA RequiredAgree ==
  Agrees(RequiredFiles) /\ "docs/provenance-ledger.yaml" \in DOMAIN RequiredFiles
  <1> DEFINE rows == {Row("pack.yaml", "manifest"), Row("sdl/scenario", "sdl"),
                      Row("docs/concepts.md", "concepts"),
                      Row("docs/attack-path.md", "attack path"),
                      Row("docs/provenance-ledger.yaml", "ledger")}
  <1>1. \A row \in rows : Sound(row)
    BY RowsAgree
  <1>2. Row("docs/provenance-ledger.yaml", "ledger") \in rows
    OBVIOUS
  <1>3. RequiredFiles = Table(rows)
    BY DEF RequiredFiles
  <1> HIDE DEF rows
  <1> QED BY <1>1, <1>2, <1>3, TableAgrees, KeyInTable

(* What is so of each layer: it agrees on its files, generates what it       *)
(* points to and raises a flag that no other layer raises.                   *)
LEMMA LayerNames ==
  Layers = {"flag_layer", "reference_triangle", "compatibility", "profile_bundles"}
  BY DEF Layers, Capabilities

LEMMA LayersAgree ==
  ASSUME NEW layer \in Layers
  PROVE  Agrees(Capabilities[layer].files)
  <1>1. CASE layer = "flag_layer"
    <2> DEFINE rows == {Row("flags/placement.yaml", "placement"),
                        Row("challenges/challenges.yaml", "challenges"),
                        Row("ctfd/README.md", "loader")}
    <2>1. \A row \in rows : Sound(row)
      BY RowsAgree
    <2>2. Capabilities[layer].files = Table(rows)
      BY <1>1 DEF Capabilities
    <2> HIDE DEF rows
    <2> QED BY <2>1, <2>2, TableAgrees
  <1>2. CASE layer = "reference_triangle"
    <2> DEFINE rows == {Row("build/README.md", "build"), Row("tests/README.md", "tests"),
                        Row("docs/walkthroughs/README.md", "walkthroughs"), GoldenChecklist}
    <2>1. \A row \in rows : Sound(row)
      BY RowsAgree
    <2>2. Capabilities[layer].files = Table(rows)
      BY <1>2 DEF Capabilities
    <2> HIDE DEF rows
    <2> QED BY <2>1, <2>2, TableAgrees
  <1>3. CASE layer = "compatibility"
    <2> DEFINE rows == {Row("pack.compatibility.yaml", "compatibility"),
                        Row("README.md", "participant readme"), GoldenChecklist}
    <2>1. \A row \in rows : Sound(row)
      BY RowsAgree
    <2>2. Capabilities[layer].files = Table(rows)
      BY <1>3 DEF Capabilities
    <2> HIDE DEF rows
    <2> QED BY <2>1, <2>2, TableAgrees
  <1>4. CASE layer = "profile_bundles"
    <2> DEFINE rows == {Row("profiles/bundles.yaml", "bundles"),
                        Row("profiles/_shared/README.md", "shared")}
    <2>1. \A row \in rows : Sound(row)
      BY RowsAgree
    <2>2. Capabilities[layer].files = Table(rows)
      BY <1>4 DEF Capabilities
    <2> HIDE DEF rows
    <2> QED BY <2>1, <2>2, TableAgrees
  <1> QED BY <1>1, <1>2, <1>3, <1>4, LayerNames

LEMMA LayerPoints ==
  ASSUME NEW layer \in Layers
  PROVE  Capabilities[layer].points \subseteq DOMAIN Capabilities[layer].files
  <1>1. CASE layer = "compatibility"
    <2> DEFINE rows == {Row("pack.compatibility.yaml", "compatibility"),
                        Row("README.md", "participant readme"), GoldenChecklist}
    <2>1. Capabilities[layer].files = Table(rows)
      BY <1>1 DEF Capabilities
    <2>2. Row("pack.compatibility.yaml", "compatibility") \in rows
      OBVIOUS
    <2>3. Capabilities[layer].points = {"pack.compatibility.yaml"}
      BY <1>1 DEF Capabilities
    <2> HIDE DEF rows
    <2>4. "pack.compatibility.yaml" \in DOMAIN Table(rows)
      BY <2>2, KeyInTable
    <2> QED BY <2>1, <2>3, <2>4
  <1>2. CASE layer # "compatibility"
    <2>1. /\ Capabilities["flag_layer"].points = {}
          /\ Capabilities["reference_triangle"].points = {}
          /\ Capabilities["profile_bundles"].points = {}
      BY DEF Capabilities
    <2> QED BY <1>2, <2>1, LayerNames
  <1> QED BY <1>1, <1>2

LEMMA LayerFlags ==
  ASSUME NEW layer \in Layers, NEW other \in Layers,
         Capabilities[layer].flags \cap Capabilities[other].flags # {}
  PROVE  layer = other
  <1>1. /\ Capabilities["flag_layer"].flags = {"flag_layer"}
        /\ Capabilities["reference_triangle"].flags = {"reference_triangle"}
        /\ Capabilities["compatibility"].flags = {}
        /\ Capabilities["profile_bundles"].flags = {"profile_bundles"}
    BY DEF Capabilities
  <1> QED BY <1>1, LayerNames

LEMMA RouteLayers ==
  ASSUME NEW route \in DOMAIN Routes
  PROVE  Routes[route] \in Seq(Layers)
  <1> DEFINE rows == {Row("minimal", <<>>),
                      Row("runnable-local", <<"reference_triangle">>),
                      Row("ai-agent-eval", <<"profile_bundles">>),
                      Row("security-exercise", <<"flag_layer">>),
                      Row("dr-recovery", <<"reference_triangle">>),
                      Row("product-integration", <<"compatibility">>),
                      Row("publication-ready", <<"compatibility">>)}
  <1>1. \A layer \in Layers : <<layer>> \in Seq(Layers)
    OBVIOUS
  <1>2. \A row \in rows : Value(row) \in Seq(Layers)
    <2>1. /\ <<>> \in Seq(Layers) /\ <<"reference_triangle">> \in Seq(Layers)
          /\ <<"profile_bundles">> \in Seq(Layers) /\ <<"flag_layer">> \in Seq(Layers)
          /\ <<"compatibility">> \in Seq(Layers)
      BY <1>1, LayerNames
    <2>2. \A key, value : value \in Seq(Layers) => Value(Row(key, value)) \in Seq(Layers)
      BY RowFacts
    <2> QED BY <2>1, <2>2
  <1>3. Routes = Table(rows)
    BY DEF Routes
  <1> HIDE DEF rows
  <1>4. \A key \in DOMAIN Table(rows) : \E row \in rows : Table(rows)[key] = Value(row)
    BY TableFacts
  <1>5. route \in DOMAIN Table(rows) /\ Routes[route] = Table(rows)[route]
    BY <1>3
  <1> QED BY <1>2, <1>4, <1>5

--------------------------------------------------------------------------------
(* The paths that the first n layers and the required files lie at.         *)
PathsTo(layers, n) ==
  DOMAIN RequiredFiles \cup UNION {DOMAIN Capabilities[layers[i]].files : i \in 1 .. n}

(* Merging what agrees loses nothing, whoever comes later.                  *)
LEMMA MergeAgrees ==
  ASSUME NEW S, NEW f, Agrees(f)
  PROVE  Merged([path \in S |-> Generated(path)], f)
           = [path \in S \cup DOMAIN f |-> Generated(path)]
  <1>1. \A path \in DOMAIN f : f[path] = Generated(path)
    BY DEF Agrees
  <1> QED BY <1>1 DEF Merged

LEMMA FilesAreGenerated ==
  ASSUME NEW layers \in Seq(Layers), NEW n \in 0 .. Len(layers)
  PROVE  FilesTo(layers)[n] = [path \in PathsTo(layers, n) |-> Generated(path)]
  <1> DEFINE N == Len(layers)
             Whole(k) == [path \in PathsTo(layers, k) |-> Generated(path)]
             Next1(g, k) == Merged(g, Capabilities[layers[k]].files)
             body(g) == [k \in 0 .. N |-> IF k = 0 THEN RequiredFiles ELSE Next1(g[k - 1], k)]
             h == CHOOSE g : g = body(g)
             c == [k \in 0 .. N |-> Whole(k)]
  <1>0. N \in Nat /\ \A k \in 1 .. N : layers[k] \in Layers
    OBVIOUS
  <1>1. FilesTo(layers) = h
    BY Zenon DEF FilesTo
  <1>2. Whole(0) = RequiredFiles
    <2>0. 1 .. 0 = {}
      OBVIOUS
    <2>1. PathsTo(layers, 0) = DOMAIN RequiredFiles
      BY <2>0 DEF PathsTo
    <2> QED BY <2>1, RequiredAgree DEF Agrees
  <1>3. ASSUME NEW k \in 1 .. N PROVE Next1(Whole(k - 1), k) = Whole(k)
    <2>1. Agrees(Capabilities[layers[k]].files)
      BY <1>0, LayersAgree
    <2>2. 1 .. k = (1 .. k - 1) \cup {k}
      BY <1>0
    <2>3. PathsTo(layers, k)
            = PathsTo(layers, k - 1) \cup DOMAIN Capabilities[layers[k]].files
      BY <2>2 DEF PathsTo
    <2> QED BY <2>1, <2>3, MergeAgrees
  <1>n. \A k \in 1 .. N : k # 0 /\ k \in 0 .. N /\ k - 1 \in 0 .. N
    BY <1>0
  <1> HIDE DEF Whole, Next1, N
  <1>4. c = body(c)
    <2>1. ASSUME NEW k \in 0 .. N PROVE c[k] = body(c)[k]
      <3>1. CASE k = 0
        BY <1>2, <3>1
      <3>2. CASE k # 0
        <4>1. k \in 1 .. N
          BY <1>0, <3>2
        <4> QED BY <4>1, <1>3, <1>n
      <3> QED BY <3>1, <3>2
    <2> QED BY <2>1
  <1>5. h = body(h)
    <2> HIDE DEF body, c
    <2> QED BY <1>4
  <1> HIDE DEF h
  <1>6. h[0] = RequiredFiles /\ \A k \in 1 .. N : h[k] = Next1(h[k - 1], k)
    BY <1>0, <1>5, <1>n
  <1> DEFINE S == {k \in Nat : h[k] = Whole(k)}
  <1>7. 0 .. N \subseteq S
    <2>1. 0 \in S
      BY <1>2, <1>6
    <2>2. ASSUME NEW k \in 1 .. N, k - 1 \in S PROVE k \in S
      <3>1. k \in Nat /\ h[k - 1] = Whole(k - 1)
        BY <1>0, <2>2
      <3> QED BY <1>3, <1>6, <3>1
    <2> HIDE DEF S
    <2> QED BY <1>0, <2>1, <2>2, Induction
  <1>8. n \in S
    BY <1>7 DEF N
  <1> QED BY <1>1, <1>8 DEF Whole

(* What is selected is what is wanted.                                      *)
LEMMA OnceKeepsAll ==
  ASSUME NEW wanted \in Seq(Layers)
  PROVE  Once(wanted) \in Seq(Layers) /\ ToSet(Once(wanted)) = ToSet(wanted)
  <1> DEFINE N == Len(wanted)
             Next1(x, n) == IF wanted[n] \in ToSet(x) THEN x ELSE Append(x, wanted[n])
             grow == [z \in Seq(Layers) \X (1 .. N) |-> Next1(z[1], z[2])]
             body(g) == [n \in 0 .. N |-> IF n = 0 THEN <<>> ELSE Next1(g[n - 1], n)]
             h == CHOOSE g : g = body(g)
  <1>0. N \in Nat /\ \A k \in 1 .. N : wanted[k] \in Layers
    OBVIOUS
  <1>1. Once(wanted) = h[N]
    BY Zenon DEF Once
  <1>2. ASSUME NEW x \in Seq(Layers), NEW n \in 1 .. N PROVE Next1(x, n) \in Seq(Layers)
    BY <1>0
  <1>n. \A k \in 1 .. N : k # 0 /\ k \in 0 .. N /\ k - 1 \in 0 .. N
    BY <1>0
  <1> HIDE DEF N, Next1
  <1>4. ASSUME NEW x \in Seq(Layers), NEW n \in 1 .. N PROVE grow[<<x, n>>] = Next1(x, n)
    OBVIOUS
  <1>5. grow \in [Seq(Layers) \X (1 .. N) -> Seq(Layers)]
    BY <1>2
  <1> HIDE DEF grow
  <1>6. PICK f : Follows(f, Seq(Layers), <<>>, grow, N)
    <2>1. <<>> \in Seq(Layers)
      OBVIOUS
    <2> QED BY <1>0, <1>5, <2>1, Recursion
  <1>7. ASSUME NEW n \in 1 .. N PROVE f[n] = Next1(f[n - 1], n)
    <2>2. f[n - 1] \in Seq(Layers)
      BY <1>6, <1>n DEF Follows
    <2> QED BY <1>4, <1>6, <2>2 DEF Follows
  <1>8. f = body(f)
    BY <1>6, <1>7 DEF Follows
  <1>9. h = body(h)
    <2> HIDE DEF body
    <2> QED BY <1>8
  <1> HIDE DEF h
  <1>10. h[0] = <<>> /\ \A n \in 1 .. N : h[n] = Next1(h[n - 1], n)
    BY <1>0, <1>9, <1>n
  <1> DEFINE S == {n \in Nat : /\ h[n] \in Seq(Layers)
                               /\ ToSet(h[n]) = {wanted[i] : i \in 1 .. n}}
  <1>11. 0 .. N \subseteq S
    <2>1. 0 \in S
      <3>1. 1 .. 0 = {} /\ <<>> \in Seq(Layers) /\ ToSet(<<>>) = {}
        BY DEF ToSet
      <3> QED BY <1>10, <3>1
    <2>2. ASSUME NEW n \in 1 .. N, n - 1 \in S PROVE n \in S
      <3>1. /\ h[n - 1] \in Seq(Layers) /\ h[n] = Next1(h[n - 1], n)
            /\ ToSet(h[n - 1]) = {wanted[i] : i \in 1 .. n - 1}
        BY <1>10, <2>2
      <3>2. 1 .. n = (1 .. n - 1) \cup {n}
        BY <1>0
      <3>3. ToSet(h[n]) = ToSet(h[n - 1]) \cup {wanted[n]}
        <4>1. CASE wanted[n] \in ToSet(h[n - 1])
          BY <3>1, <4>1 DEF Next1
        <4>2. CASE wanted[n] \notin ToSet(h[n - 1])
          <5>1. h[n] = Append(h[n - 1], wanted[n]) /\ wanted[n] \in Layers
            BY <1>0, <3>1, <4>2 DEF Next1, N
          <5>2. h[n] \in Seq(Layers) /\ Len(h[n]) = Len(h[n - 1]) + 1
                /\ h[n][Len(h[n - 1]) + 1] = wanted[n]
                /\ \A i \in 1 .. Len(h[n - 1]) : h[n][i] = h[n - 1][i]
            BY <3>1, <5>1, AppendProperties
          <5>3. DOMAIN h[n] = 1 .. Len(h[n - 1]) + 1 /\ DOMAIN h[n - 1] = 1 .. Len(h[n - 1])
                /\ Len(h[n - 1]) \in Nat
            BY <3>1, <5>2
          <5>4. 1 .. Len(h[n - 1]) + 1 = (1 .. Len(h[n - 1])) \cup {Len(h[n - 1]) + 1}
            BY <5>3
          <5>5. ToSet(h[n]) = {h[n][i] : i \in 1 .. Len(h[n - 1])} \cup {wanted[n]}
            <6>1. ToSet(h[n]) = {h[n][i] : i \in (1 .. Len(h[n - 1])) \cup {Len(h[n - 1]) + 1}}
              BY <5>3, <5>4 DEF ToSet
            <6> QED BY <5>2, <6>1
          <5>6. {h[n][i] : i \in 1 .. Len(h[n - 1])} = {h[n - 1][i] : i \in 1 .. Len(h[n - 1])}
            BY <5>2
          <5> QED BY <5>3, <5>5, <5>6 DEF ToSet
        <4> QED BY <4>1, <4>2
      <3>4. {wanted[i] : i \in 1 .. n} = {wanted[i] : i \in 1 .. n - 1} \cup {wanted[n]}
        BY <3>2
      <3>5. h[n] \in Seq(Layers) /\ n \in Nat
        BY <1>0, <1>2, <3>1
      <3> QED BY <3>1, <3>3, <3>4, <3>5
    <2> HIDE DEF S
    <2> QED BY <1>0, <2>1, <2>2, Induction
  <1>e. N \in 0 .. N
    BY <1>0
  <1>12. h[N] \in Seq(Layers) /\ ToSet(h[N]) = {wanted[i] : i \in 1 .. N}
    BY <1>e, <1>11
  <1>13. ToSet(wanted) = {wanted[i] : i \in 1 .. N}
    BY DEF ToSet, N
  <1> QED BY <1>1, <1>12, <1>13

(* What the files and layers of a proposal are, by the set of its layers.   *)
LEMMA FilesOfSelected ==
  ASSUME NEW layers \in Seq(Layers)
  PROVE  FilesTo(layers)[Len(layers)]
           = [path \in DOMAIN RequiredFiles
                         \cup UNION {DOMAIN Capabilities[layer].files : layer \in ToSet(layers)}
                |-> Generated(path)]
  <1>1. Len(layers) \in Nat /\ Len(layers) \in 0 .. Len(layers)
    OBVIOUS
  <1>2. ToSet(layers) = {layers[i] : i \in 1 .. Len(layers)}
    BY DEF ToSet
  <1>3. PathsTo(layers, Len(layers))
          = DOMAIN RequiredFiles
              \cup UNION {DOMAIN Capabilities[layer].files : layer \in ToSet(layers)}
    BY <1>2 DEF PathsTo
  <1> QED BY <1>1, <1>3, FilesAreGenerated

LEMMA NothingConflicts ==
  ASSUME NEW layers \in Seq(Layers)
  PROVE  ~Conflicting(layers)
  <1> SUFFICES ASSUME NEW i \in DOMAIN layers,
                      NEW path \in DOMAIN FilesTo(layers)[i - 1]
                                     \cap DOMAIN Capabilities[layers[i]].files
               PROVE  FilesTo(layers)[i - 1][path] = Capabilities[layers[i]].files[path]
    BY DEF Conflicting
  <1>1. i - 1 \in 0 .. Len(layers) /\ layers[i] \in Layers
    OBVIOUS
  <1>2. FilesTo(layers)[i - 1] = [p \in PathsTo(layers, i - 1) |-> Generated(p)]
    BY <1>1, FilesAreGenerated
  <1>3. Agrees(Capabilities[layers[i]].files)
    BY <1>1, LayersAgree
  <1> QED BY <1>2, <1>3 DEF Agrees

(* The questions: only a publication-ready pack has a required one.         *)
LEMMA QuestionFacts ==
  ASSUME NEW route
  PROVE  /\ DOMAIN Questions(route)
              = {"title", "description"}
                  \cup (IF route = "publication-ready" THEN {"publication_cleared"} ELSE {})
         /\ \A key \in {"title", "description"} : Questions(route)[key] = FreeQuestion
         /\ route = "publication-ready" =>
              Questions(route)["publication_cleared"] = ClearedQuestion
  <1> DEFINE rows == {Row("title", FreeQuestion), Row("description", FreeQuestion)}
                       \cup (IF route = "publication-ready"
                             THEN {Row("publication_cleared", ClearedQuestion)} ELSE {})
  <1>1. Questions(route) = Table(rows)
    BY DEF Questions
  <1>2. /\ Key(Row("title", FreeQuestion)) = "title"
        /\ Value(Row("title", FreeQuestion)) = FreeQuestion
        /\ Key(Row("description", FreeQuestion)) = "description"
        /\ Value(Row("description", FreeQuestion)) = FreeQuestion
        /\ Key(Row("publication_cleared", ClearedQuestion)) = "publication_cleared"
        /\ Value(Row("publication_cleared", ClearedQuestion)) = ClearedQuestion
    BY RowFacts
  <1>3. {Key(row) : row \in rows}
          = {"title", "description"}
              \cup (IF route = "publication-ready" THEN {"publication_cleared"} ELSE {})
    BY <1>2
  <1>4. \A row \in rows :
          /\ Key(row) \in {"title", "description"} => Value(row) = FreeQuestion
          /\ Key(row) = "publication_cleared" => Value(row) = ClearedQuestion
    BY <1>2
  <1> HIDE DEF rows
  <1>5. /\ DOMAIN Questions(route) = {Key(row) : row \in rows}
        /\ \A key \in DOMAIN Questions(route) :
             \E row \in rows : Key(row) = key /\ Questions(route)[key] = Value(row)
    BY <1>1, TableFacts
  <1> QED BY <1>3, <1>4, <1>5

LEMMA SelectedLayers ==
  ASSUME NEW raw, raw.route \in DOMAIN Routes, raw.layers \in Seq(Layers)
  PROVE  /\ Selected(raw) \in Seq(Layers)
         /\ ToSet(Selected(raw)) = ToSet(Routes[raw.route]) \cup ToSet(raw.layers)
  <1> DEFINE a == Routes[raw.route]
             b == raw.layers
  <1>1. a \in Seq(Layers) /\ b \in Seq(Layers)
    BY RouteLayers
  <1>2. Selected(raw) = Once(a \o b)
    BY DEF Selected
  <1> HIDE DEF a, b
  <1>3. a \o b \in Seq(Layers) /\ ToSet(a \o b) = ToSet(a) \cup ToSet(b)
    <2>1. a \o b \in Seq(Layers) /\ Len(a \o b) = Len(a) + Len(b)
      BY <1>1
    <2>2. \A i \in 1 .. Len(a) : i \in 1 .. Len(a \o b) /\ (a \o b)[i] = a[i]
      BY <1>1, <2>1
    <2>3. \A i \in 1 .. Len(b) : Len(a) + i \in 1 .. Len(a \o b) /\ (a \o b)[Len(a) + i] = b[i]
      BY <1>1, <2>1
    <2>4. \A i \in 1 .. Len(a \o b) : i \in 1 .. Len(a) \/ i - Len(a) \in 1 .. Len(b)
      BY <1>1, <2>1
    <2>5. \A i \in 1 .. Len(a \o b) : i = Len(a) + (i - Len(a))
      BY <1>1
    <2> DEFINE c == a \o b
    <2>6. /\ ToSet(a) = {a[i] : i \in 1 .. Len(a)} /\ ToSet(b) = {b[i] : i \in 1 .. Len(b)}
          /\ ToSet(c) = {c[i] : i \in 1 .. Len(c)}
      BY <1>1, <2>1 DEF ToSet
    <2> HIDE DEF c
    <2>7. ToSet(c) \subseteq ToSet(a) \cup ToSet(b)
      <3> SUFFICES ASSUME NEW i \in 1 .. Len(c) PROVE c[i] \in ToSet(a) \cup ToSet(b)
        BY <2>6
      <3>1. CASE i \in 1 .. Len(a)
        BY <2>2, <2>6, <3>1 DEF c
      <3>2. CASE i - Len(a) \in 1 .. Len(b)
        <4>1. c[i] = b[i - Len(a)]
          BY <2>3, <2>5, <3>2 DEF c
        <4> QED BY <2>6, <3>2, <4>1
      <3> QED BY <2>4, <3>1, <3>2 DEF c
    <2>8. ToSet(a) \subseteq ToSet(c)
      BY <2>2, <2>6 DEF c
    <2>9. ToSet(b) \subseteq ToSet(c)
      <3> SUFFICES ASSUME NEW i \in 1 .. Len(b) PROVE b[i] \in ToSet(c)
        BY <2>6
      <3>1. Len(a) + i \in 1 .. Len(c) /\ c[Len(a) + i] = b[i]
        BY <2>3 DEF c
      <3> QED BY <2>6, <3>1
    <2> QED BY <2>1, <2>7, <2>8, <2>9 DEF c
  <1>4. Once(a \o b) \in Seq(Layers) /\ ToSet(Once(a \o b)) = ToSet(a \o b)
    BY <1>3, OnceKeepsAll
  <1> QED BY <1>2, <1>3, <1>4 DEF a, b

LEMMA ReversedLayers ==
  ASSUME NEW layers \in Seq(Layers)
  PROVE  Reverse(layers) \in Seq(Layers) /\ ToSet(Reverse(layers)) = ToSet(layers)
  <1> DEFINE N == Len(layers)
             r == Reverse(layers)
  <1>1. N \in Nat /\ layers \in [1 .. N -> Layers]
    OBVIOUS
  <1>2. \A i \in 1 .. N : N - i + 1 \in 1 .. N /\ N - (N - i + 1) + 1 = i
    BY <1>1
  <1>3. r = [i \in 1 .. N |-> layers[N - i + 1]]
    BY DEF Reverse
  <1> HIDE DEF N, r
  <1>4. r \in [1 .. N -> Layers]
    BY <1>1, <1>2, <1>3
  <1>5. r \in Seq(Layers)
    BY <1>1, <1>4, SeqDef
  <1>6. ToSet(r) = {layers[N - i + 1] : i \in 1 .. N}
    BY <1>3 DEF ToSet
  <1>7. ToSet(layers) = {layers[i] : i \in 1 .. N}
    BY <1>1 DEF ToSet
  <1>8. {layers[N - i + 1] : i \in 1 .. N} = {layers[i] : i \in 1 .. N}
    BY <1>2
  <1> QED BY <1>5, <1>6, <1>7, <1>8 DEF r

(* A proposal depends on the set of its layers, the route and the answers.  *)
LEMMA ProposalBySet ==
  ASSUME NEW raw, raw.route \in DOMAIN Routes, raw.layers \in Seq(Layers),
         NEW S, S = ToSet(Selected(raw))
  PROVE  ProposalOf(raw) =
           [files |-> [path \in DOMAIN RequiredFiles
                                  \cup UNION {DOMAIN Capabilities[layer].files : layer \in S}
                         |-> Generated(path)],
            flags |-> UNION {Capabilities[layer].flags : layer \in S},
            points |-> {"docs/provenance-ledger.yaml"}
                         \cup UNION {Capabilities[layer].points : layer \in S},
            blocking |-> Blocking(raw)]
  <1> DEFINE layers == Selected(raw)
  <1>1. layers \in Seq(Layers)
    BY SelectedLayers
  <1>2. ProposalOf(raw) =
          [files |-> FilesTo(layers)[Len(layers)],
           flags |-> UNION {Capabilities[layer].flags : layer \in S},
           points |-> {"docs/provenance-ledger.yaml"}
                        \cup UNION {Capabilities[layer].points : layer \in S},
           blocking |-> Blocking(raw)]
    BY DEF ProposalOf
  <1> HIDE DEF layers
  <1> QED BY <1>1, <1>2, FilesOfSelected DEF layers

LEMMA BlockedUnlessCleared ==
  ASSUME NEW raw
  PROVE  Blocking(raw) = {} <=> Cleared(raw)
  <1> DEFINE Q == Questions(raw.route)
  <1>0. /\ FreeQuestion.required = FALSE /\ ClearedQuestion.required = TRUE
        /\ ClearedQuestion.requires = {"yes"}
    BY DEF FreeQuestion, ClearedQuestion
  <1>1. \A key \in {"title", "description"} : ~Q[key].required
    BY <1>0, QuestionFacts
  <1>2. CASE raw.route = "publication-ready"
    <2>1. /\ DOMAIN Q = {"title", "description", "publication_cleared"}
          /\ Q["publication_cleared"] = ClearedQuestion
      BY <1>2, QuestionFacts
    <2>2. Blocking(raw) = {} <=> ~Unresolved(ClearedQuestion, "publication_cleared", raw.answers)
      BY <1>0, <1>1, <2>1 DEF Blocking
    <2>3. ~Unresolved(ClearedQuestion, "publication_cleared", raw.answers)
            <=> /\ "publication_cleared" \in DOMAIN raw.answers
                /\ raw.answers["publication_cleared"] = "yes"
      BY <1>0 DEF Unresolved
    <2> QED BY <1>2, <2>2, <2>3 DEF Cleared
  <1>3. CASE raw.route # "publication-ready"
    <2>1. DOMAIN Q = {"title", "description"}
      BY <1>3, QuestionFacts
    <2>2. Blocking(raw) = {}
      BY <1>1, <2>1 DEF Blocking
    <2> QED BY <1>3, <2>2 DEF Cleared
  <1> QED BY <1>2, <1>3

LEMMA DocumentsAreSound == SoundDocuments
  <1> SUFFICES ASSUME NEW raw \in Documents, Admissible(raw),
                      NEW proposal, proposal = ProposalOf(raw),
                      NEW turned, turned = [raw EXCEPT !.layers = Reverse(@)]
               PROVE  /\ ~Conflicting(Selected(raw))
                      /\ proposal.points \subseteq DOMAIN proposal.files
                      /\ \A layer \in Layers :
                           Capabilities[layer].flags \cap proposal.flags # {} =>
                             DOMAIN Capabilities[layer].files \subseteq DOMAIN proposal.files
                      /\ ProposalOf(turned) = proposal
                      /\ proposal.blocking = {} <=> Cleared(raw)
    BY DEF SoundDocuments, Layers
  <1>1. raw.route \in DOMAIN Routes /\ raw.layers \in Seq(Layers)
    <2>1. raw.layers \in Seq(STRING) /\ ToSet(raw.layers) \subseteq Layers
      BY DocumentsAssumption DEF Admissible, Layers
    <2>2. \A i \in 1 .. Len(raw.layers) : raw.layers[i] \in Layers
      BY <2>1 DEF ToSet
    <2>3. raw.layers \in Seq(Layers)
      BY <2>1, <2>2
    <2> QED BY <2>3 DEF Admissible
  <1>2. /\ turned.route = raw.route /\ turned.answers = raw.answers
        /\ turned.layers = Reverse(raw.layers)
    BY DocumentsAssumption
  <1>3. turned.layers \in Seq(Layers) /\ ToSet(turned.layers) = ToSet(raw.layers)
    BY <1>1, <1>2, ReversedLayers
  <1> DEFINE S == ToSet(Selected(raw))
             files == [path \in DOMAIN RequiredFiles
                                  \cup UNION {DOMAIN Capabilities[layer].files : layer \in S}
                         |-> Generated(path)]
             flags == UNION {Capabilities[layer].flags : layer \in S}
             points == {"docs/provenance-ledger.yaml"}
                         \cup UNION {Capabilities[layer].points : layer \in S}
  <1>4. Selected(raw) \in Seq(Layers) /\ S \subseteq Layers
    BY <1>1, SelectedLayers DEF ToSet
  <1>5. S = ToSet(Selected(turned))
    BY <1>1, <1>2, <1>3, SelectedLayers
  <1>6. proposal = [files |-> files, flags |-> flags, points |-> points,
                    blocking |-> Blocking(raw)]
    BY <1>1, ProposalBySet
  <1>7. ProposalOf(turned) = [files |-> files, flags |-> flags, points |-> points,
                              blocking |-> Blocking(turned)]
    BY <1>1, <1>2, <1>3, <1>5, ProposalBySet
  <1>8. Blocking(turned) = Blocking(raw)
    BY <1>2 DEF Blocking
  <1>9. ~Conflicting(Selected(raw))
    BY <1>4, NothingConflicts
  <1> HIDE DEF S
  <1>10. points \subseteq DOMAIN files
    BY <1>4, RequiredAgree, LayerPoints
  <1>11. ASSUME NEW layer \in Layers, Capabilities[layer].flags \cap flags # {}
         PROVE  DOMAIN Capabilities[layer].files \subseteq DOMAIN files
    <2>1. PICK other \in S : Capabilities[layer].flags \cap Capabilities[other].flags # {}
      BY <1>11
    <2>2. layer = other
      BY <1>4, <2>1, LayerFlags
    <2> QED BY <2>1, <2>2
  <1> HIDE DEF files, flags, points
  <1>12. /\ proposal.files = files /\ proposal.flags = flags /\ proposal.points = points
         /\ proposal.blocking = Blocking(raw)
    BY <1>6
  <1> QED BY <1>6, <1>7, <1>8, <1>9, <1>10, <1>11, <1>12, BlockedUnlessCleared

LEMMA PromptsAreSound == SoundPrompts
  <1> SUFFICES ASSUME NEW route \in DOMAIN Routes, NEW said \in Sayings,
                      \A key \in DOMAIN Questions(route) :
                        said[key] \in Offers(Questions(route)[key])
               PROVE  /\ ~Refuses(route, said)
                      /\ Admissible([version |-> "current", unknownKeys |-> FALSE,
                                     pack |-> "lab", route |-> route,
                                     answers |-> Asked(route, said), layers |-> <<>>])
    BY DEF SoundPrompts
  <1>1. \A key \in DOMAIN Questions(route) :
          \/ Questions(route)[key] = FreeQuestion /\ said[key] \in {"text", "blank"}
          \/ /\ Questions(route)[key] = ClearedQuestion
             /\ said[key] \in {"yes", "no", "not-sure", "blank"}
    <2>1. Offers(FreeQuestion) = {"text", "blank"}
      BY DEF Offers, FreeQuestion
    <2>2. Offers(ClearedQuestion) = {"yes", "no", "not-sure", "blank"}
      BY DEF Offers, ClearedQuestion
    <2>3. \A key \in DOMAIN Questions(route) :
            Questions(route)[key] = FreeQuestion \/ Questions(route)[key] = ClearedQuestion
      BY QuestionFacts
    <2> QED BY <2>1, <2>2, <2>3
  <1>2. ~Refuses(route, said)
    BY <1>1 DEF Refuses, FreeQuestion, ClearedQuestion
  <1>3. \A key \in DOMAIN Asked(route, said) :
          /\ key \in DOMAIN Questions(route)
          /\ AnswerFits(Questions(route)[key], Asked(route, said)[key])
    BY <1>1 DEF Asked, AnswerFits, FreeQuestion, ClearedQuestion
  <1>4. ToSet(<<>>) = {}
    BY DEF ToSet
  <1> QED BY <1>2, <1>3, <1>4 DEF Admissible

(* ADR 0034, whatever documents are admitted and whatever a prompted author *)
(* says: layers never disagree about a file, what the manifest flags and    *)
(* points to is generated whatever the order of the layers, and writing is  *)
(* blocked exactly when a publication-ready pack was not cleared.           *)
THEOREM ProposalsAreAlwaysSound == ProposalsAreSound
  BY DocumentsAreSound, PromptsAreSound DEF ProposalsAreSound
================================================================================
