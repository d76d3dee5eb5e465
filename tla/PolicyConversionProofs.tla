------------------------ MODULE PolicyConversionProofs ------------------------
(***************************************************************************)
(* Proofs about PolicyConversion, for any policies, owners, keys and        *)
(* titles.                                                                 *)
(***************************************************************************)
EXTENDS PolicyConversion, SequenceTheorems, TLAPS

-------------------------------------------------------------------------------
(* The inductive invariant: what a request knows while it holds its locks   *)
(* stays true until it is answered.                                        *)

ConvertingPcs == {"policy_locked", "key_free", "policy_free"}
CorrectingPcs == {"project_locked", "decision_read"}

(* What a request s has read and found out still holds, though it was read  *)
(* steps ago.                                                              *)
ConversionHolds(s) ==
  /\ s.request \in Conversion
  /\ s.name = EffectiveName(s.request)
  /\ s.recommended = policy[s.request.policy].recommended
  /\ s.pc \in {"key_free", "policy_free"} =>
       /\ WithKey(s.request.key) = {}
       /\ s.recommended
       /\ s.current = policy[s.request.policy].primary /\ s.current # 0
  /\ s.pc = "policy_free" => OfPolicy(s.request.policy) = {}

CorrectionHolds(s) ==
  /\ s.request \in Correction
  /\ project[s.request.project].version = s.request.version
  /\ s.own = project[s.request.project].decision
  /\ s.pc = "decision_read" =>
       s.current = policy[project[s.request.project].policy].primary

InOrder(s) ==
  /\ s.pc # "away" => s.request \in Conversion \cup Correction
  /\ s.pc # "away" /\ s.request \in Correction =>
       s.request.project \in DOMAIN project
  /\ s.pc \in ConvertingPcs => ConversionHolds(s)
  /\ s.pc \in CorrectingPcs => CorrectionHolds(s)

(* Two requests hold the same policy, or the same project.                 *)
SharePolicy(s, t) == \E p \in Policies : HoldsPolicy(s, p) /\ HoldsPolicy(t, p)
ShareProject(s, t) ==
  \E i \in DOMAIN project : HoldsProject(s, i) /\ HoldsProject(t, i)

LocksExclude ==
  \A a, b \in Owners :
    SharePolicy(session[a], session[b]) \/ ShareProject(session[a], session[b])
      => a = b

IInv ==
  /\ TypeOK
  /\ \A o \in Owners : InOrder(session[o])
  /\ LocksExclude
  /\ OneProject

-------------------------------------------------------------------------------
(* Facts about the rows.                                                   *)

(* A request is a conversion or a correction, as its kind says.             *)
LEMMA KindTells ==
  ASSUME NEW r \in Conversion \cup Correction
  PROVE  /\ r.kind = "convert" => r \in Conversion
         /\ r.kind = "correct" => r \in Correction
         /\ r \in Correction => r.kind = "correct"
BY DEF Conversion, Correction

(* A conversion's name is a title: its own or the policy's.                *)
LEMMA NameType ==
  ASSUME TypeOK, NEW r \in Conversion
  PROVE  EffectiveName(r) \in Titles
BY NamesAssumption DEF TypeOK, Policy, Conversion, EffectiveName

(* A session at rest has its type.                                         *)
LEMMA AwayType == Away \in Session
<1>1. 0 \in 0..MaxDecisions
  BY BoundsAssumption
<1>2. NoValue \in Nullable(Conversion \cup Correction) /\ NoValue \in Nullable(Titles)
  BY DEF Nullable
<1> QED
  BY <1>1, <1>2 DEF Away, Session, Replies

(* A request at rest, or not yet begun, holds nothing.                      *)
LEMMA HoldsNothing ==
  ASSUME NEW s, s.pc \in {"away", "asked"}
  PROVE  \A x : ~HoldsPolicy(s, x) /\ ~HoldsProject(s, x)
BY DEF HoldsPolicy, HoldsProject

(* What the invariant says of one project.                                 *)
LEMMA RowIs ==
  ASSUME IInv, NEW i \in DOMAIN project
  PROVE  /\ project \in Seq(Project) /\ project[i] \in Project
         /\ project[i].policy \in Policies
         /\ project[i].decision \in 1..MaxDecisions
         /\ project[i].decision \in 0..MaxDecisions
         /\ project[i].version \in Nat
<1>1. project \in Seq(Project)
  BY DEF IInv, TypeOK
<1>2. project[i] \in Project
  BY <1>1
<1>3. /\ project[i].policy \in Policies
      /\ project[i].decision \in 1..MaxDecisions
      /\ project[i].version \in Nat
  BY <1>2 DEF Project
<1> QED
  BY <1>1, <1>2, <1>3, BoundsAssumption

(* What the invariant says of one request.                                 *)
LEMMA SessionIs ==
  ASSUME IInv, NEW o \in Owners
  PROVE  /\ session \in [Owners -> Session] /\ session[o] \in Session
         /\ InOrder(session[o])
         /\ session[o].pc # "away" => session[o].request \in Conversion \cup Correction
         /\ session[o].pc \in CorrectingPcs =>
              session[o].request.project \in DOMAIN project
BY DEF IInv, TypeOK, InOrder, CorrectionHolds, CorrectingPcs

(* What a request holds it holds alone.                                    *)
LEMMA HoldsAlone ==
  ASSUME IInv, NEW a \in Owners, NEW b \in Owners \ {a}
  PROVE  /\ \A x \in Policies : ~(HoldsPolicy(session[a], x) /\ HoldsPolicy(session[b], x))
         /\ \A i \in DOMAIN project :
              ~(HoldsProject(session[a], i) /\ HoldsProject(session[b], i))
BY DEF IInv, LocksExclude, SharePolicy, ShareProject

-------------------------------------------------------------------------------
(* Steps of two kinds.                                                     *)

(* One that changes one session and no row: what the request has found is   *)
(* true, and its locks its own.                                            *)
LEMMA SessionStep ==
  ASSUME IInv, NEW o \in Owners, NEW s \in Session,
         session' = [session EXCEPT ![o] = s],
         UNCHANGED <<policy, project>>,
         InOrder(s),
         \A other \in Owners \ {o} :
           ~SharePolicy(s, session[other]) /\ ~ShareProject(s, session[other])
  PROVE  IInv'
<1>1. session \in [Owners -> Session]
  BY DEF IInv, TypeOK
<1>2. TypeOK'
  BY <1>1 DEF IInv, TypeOK
<1>3. ASSUME NEW b \in Owners
      PROVE  InOrder(session[b])'
  BY <1>1 DEF IInv, InOrder, ConversionHolds, CorrectionHolds, WithKey, OfPolicy,
              EffectiveName
<1>4. LocksExclude'
  BY <1>1 DEF IInv, LocksExclude, SharePolicy, ShareProject, HoldsPolicy, HoldsProject
<1>5. OneProject'
  BY DEF IInv, OneProject
<1> QED
  BY <1>2, <1>3, <1>4, <1>5 DEF IInv

(* One that changes rows that no request holds but the one that ends with   *)
(* it, and adds no row that a request has found missing.                   *)
LEMMA RowStep ==
  ASSUME IInv, TypeOK', OneProject',
         \A b \in Owners : session'[b] = session[b] \/ session'[b].pc = "away",
         DOMAIN project \subseteq DOMAIN project',
         \A i \in DOMAIN project : project'[i].policy = project[i].policy,
         \A b \in Owners : session'[b] = session[b] =>
           /\ \A i \in DOMAIN project :
                HoldsProject(session[b], i) => project'[i] = project[i]
           /\ \A x \in Policies : HoldsPolicy(session[b], x) => policy'[x] = policy[x]
           /\ session[b].pc \in {"key_free", "policy_free"} =>
                \A i \in DOMAIN project' : project'[i].key # session[b].request.key
           /\ session[b].pc = "policy_free" =>
                \A i \in DOMAIN project' : project'[i].policy # session[b].request.policy
  PROVE  IInv'
<1>1. ASSUME NEW b \in Owners, session'[b].pc = "away"
      PROVE  InOrder(session[b])'
  BY <1>1 DEF InOrder, ConvertingPcs, CorrectingPcs
<1>2. ASSUME NEW b \in Owners, session'[b] = session[b]
      PROVE  InOrder(session[b])'
  <2>1. InOrder(session[b])
    BY SessionIs
  <2>2. CASE session[b].pc \in ConvertingPcs
    <3>1. /\ ConversionHolds(session[b])
          /\ session[b].request.policy \in Policies
          /\ HoldsPolicy(session[b], session[b].request.policy)
      BY <2>1, <2>2 DEF InOrder, ConversionHolds, HoldsPolicy, ConvertingPcs, Conversion
    <3>2. policy'[session[b].request.policy] = policy[session[b].request.policy]
      BY <1>2, <3>1
    <3>3. EffectiveName(session[b].request)' = EffectiveName(session[b].request)
      BY <1>2, <3>2 DEF EffectiveName
    <3>4. ConversionHolds(session[b])'
      BY <1>2, <3>1, <3>2, <3>3 DEF ConversionHolds, WithKey, OfPolicy
    <3> QED
      BY <1>2, <2>1, <2>2, <3>4 DEF InOrder, ConvertingPcs, CorrectingPcs
  <2>3. CASE session[b].pc \in CorrectingPcs
    <3> DEFINE k == session[b].request.project
    <3>1. /\ CorrectionHolds(session[b])
          /\ k \in DOMAIN project
          /\ HoldsProject(session[b], k)
      BY <2>1, <2>3, SessionIs DEF InOrder, HoldsProject, CorrectingPcs
    <3>2. project'[k] = project[k] /\ k \in DOMAIN project'
      BY <1>2, <3>1
    <3>3. session[b].pc = "decision_read" =>
            policy'[project[k].policy] = policy[project[k].policy]
      <4>1. project[k].policy \in Policies
        BY <3>1, RowIs
      <4> QED
        BY <1>2, <4>1 DEF HoldsPolicy
    <3>4. CorrectionHolds(session[b])'
      BY <1>2, <3>1, <3>2, <3>3 DEF CorrectionHolds
    <3> QED
      BY <1>2, <2>1, <2>3, <3>2, <3>4 DEF InOrder, ConvertingPcs, CorrectingPcs
  <2>4. CASE session[b].pc \notin ConvertingPcs \cup CorrectingPcs
    BY <1>2, <2>1, <2>4 DEF InOrder
  <2> QED
    BY <2>2, <2>3, <2>4
<1>3. LocksExclude'
  <2>1. ASSUME NEW b \in Owners, session'[b] = session[b]
        PROVE  /\ \A x : HoldsPolicy(session[b], x)' => HoldsPolicy(session[b], x)
               /\ \A i : HoldsProject(session[b], i)' =>
                    HoldsProject(session[b], i) /\ i \in DOMAIN project
    BY <2>1, SessionIs DEF HoldsPolicy, HoldsProject, CorrectingPcs
  <2>2. ASSUME NEW b \in Owners, session'[b].pc = "away"
        PROVE  \A x : ~HoldsPolicy(session[b], x)' /\ ~HoldsProject(session[b], x)'
    BY <2>2 DEF HoldsPolicy, HoldsProject
  <2>3. ASSUME NEW a \in Owners, NEW b \in Owners \ {a}
        PROVE  ~SharePolicy(session[a], session[b])' /\ ~ShareProject(session[a], session[b])'
    BY <2>1, <2>2, HoldsAlone DEF SharePolicy, ShareProject
  <2> QED
    BY <2>3 DEF LocksExclude
<1> QED
  BY <1>1, <1>2, <1>3 DEF IInv

(* An answer, by commit or rollback, releases all locks.                   *)
LEMMA AnswerStep ==
  ASSUME IInv, NEW o \in Owners, NEW reply \in Replies, Answered(o, reply),
         UNCHANGED <<policy, project>>
  PROVE  IInv'
<1> DEFINE s == [Away EXCEPT !.reply = reply]
<1>1. s \in Session /\ s.pc = "away"
  <2>1. s \in Session
    BY AwayType DEF Session
  <2>2. s.pc = "away"
    BY DEF Away
  <2> QED
    BY <2>1, <2>2
<1>2. session' = [session EXCEPT ![o] = s]
  BY DEF Answered
<1> HIDE DEF s
<1>3. InOrder(s)
  BY <1>1 DEF InOrder, ConvertingPcs, CorrectingPcs
<1>4. \A t : ~SharePolicy(s, t) /\ ~ShareProject(s, t)
  BY <1>1, HoldsNothing DEF SharePolicy, ShareProject
<1> QED
  BY <1>1, <1>2, <1>3, <1>4, SessionStep

(* A conversion that goes on: it has its policy, as before or now.          *)
LEMMA ConvertingStep ==
  ASSUME IInv, NEW o \in Owners, NEW s \in Session,
         session' = [session EXCEPT ![o] = s],
         UNCHANGED <<policy, project>>,
         s.pc \in ConvertingPcs, ConversionHolds(s),
         s.request = session[o].request,
         session[o].pc \in ConvertingPcs \/ PolicyFree(session[o].request.policy)
  PROVE  IInv'
<1>1. InOrder(s)
  BY DEF InOrder, ConversionHolds, ConvertingPcs, CorrectingPcs, Conversion, Correction
<1>2. \A x : HoldsPolicy(s, x) => x = session[o].request.policy
  BY DEF HoldsPolicy, ConvertingPcs
<1>3. \A i : ~HoldsProject(s, i)
  BY DEF HoldsProject, ConvertingPcs
<1>4. ASSUME NEW other \in Owners \ {o}
      PROVE  ~SharePolicy(s, session[other]) /\ ~ShareProject(s, session[other])
  <2>1. ASSUME session[o].request.policy \in Policies
        PROVE  ~HoldsPolicy(session[other], session[o].request.policy)
    <3>1. CASE session[o].pc \in ConvertingPcs
      <4>1. HoldsPolicy(session[o], session[o].request.policy)
        BY <3>1 DEF HoldsPolicy, ConvertingPcs
      <4> QED
        BY <2>1, <4>1, HoldsAlone
    <3>2. CASE PolicyFree(session[o].request.policy)
      BY <3>2 DEF PolicyFree
    <3> QED
      BY <3>1, <3>2
  <2> QED
    BY <1>2, <1>3, <2>1 DEF SharePolicy, ShareProject
<1> QED
  BY <1>1, <1>4, SessionStep

(* A correction that goes on: it has its project, as before or now, and its *)
(* policy if nobody had it.                                                *)
LEMMA CorrectingStep ==
  ASSUME IInv, NEW o \in Owners, NEW s \in Session,
         session' = [session EXCEPT ![o] = s],
         UNCHANGED <<policy, project>>,
         s.pc \in CorrectingPcs, CorrectionHolds(s),
         s.request = session[o].request,
         s.request.project \in DOMAIN project,
         session[o].pc \in CorrectingPcs \/ ProjectFree(s.request.project),
         s.pc = "decision_read" => PolicyFree(project[s.request.project].policy)
  PROVE  IInv'
<1>1. InOrder(s)
  BY DEF InOrder, CorrectionHolds, ConvertingPcs, CorrectingPcs
<1>2. \A x : HoldsPolicy(s, x) => PolicyFree(x)
  BY DEF HoldsPolicy, CorrectingPcs
<1>3. \A i : HoldsProject(s, i) => i = s.request.project
  BY DEF HoldsProject
<1>4. ASSUME NEW other \in Owners \ {o}
      PROVE  ~SharePolicy(s, session[other]) /\ ~ShareProject(s, session[other])
  <2>1. ~HoldsProject(session[other], s.request.project)
    <3>1. CASE session[o].pc \in CorrectingPcs
      <4>1. HoldsProject(session[o], s.request.project)
        BY <3>1 DEF HoldsProject, CorrectingPcs
      <4> QED
        BY <4>1, HoldsAlone
    <3>2. CASE ProjectFree(s.request.project)
      BY <3>2 DEF ProjectFree
    <3> QED
      BY <3>1, <3>2
  <2> QED
    BY <1>2, <1>3, <2>1 DEF SharePolicy, ShareProject, PolicyFree
<1> QED
  BY <1>1, <1>4, SessionStep

-------------------------------------------------------------------------------
(* The steps of a request that change no row.                              *)

(* A request names a project that exists.                                  *)
LEMMA AskStep ==
  ASSUME IInv, NEW o \in Owners, Ask(o)
  PROVE  IInv'
<1>1. PICK r \in Conversion \cup
         [kind: {"correct"}, project: DOMAIN project, version: 1..(MaxVersion - 1),
          decision: 1..MaxDecisions] :
         session' = [session EXCEPT ![o] =
           [Away EXCEPT !.pc = "asked", !.request = r, !.visible = Len(project)]]
  BY DEF Ask
<1> DEFINE s == [Away EXCEPT !.pc = "asked", !.request = r, !.visible = Len(project)]
<1>2. project \in Seq(Project) /\ Len(project) \in Nat /\ DOMAIN project \subseteq Nat
  BY DEF IInv, TypeOK
<1>3. r \in Conversion \cup Correction
  BY <1>2, BoundsAssumption DEF Correction
<1>4. /\ s.pc = "asked"
      /\ s.request = r
      /\ s \in Session
  <2>1. s.pc = "asked" /\ s.request = r
    BY DEF Away
  <2>2. r \in Nullable(Conversion \cup Correction)
    BY <1>3 DEF Nullable
  <2>3. s \in Session
    BY <1>2, <2>2, AwayType DEF Session
  <2> QED
    BY <2>1, <2>3
<1>5. session' = [session EXCEPT ![o] = s]
  BY <1>1
<1> HIDE DEF s
<1>6. r \in Correction => r.project \in DOMAIN project
  BY DEF Correction, Conversion
<1>7. InOrder(s)
  BY <1>3, <1>4, <1>6 DEF InOrder, ConvertingPcs, CorrectingPcs
<1>8. \A t : ~SharePolicy(s, t) /\ ~ShareProject(s, t)
  BY <1>4, HoldsNothing DEF SharePolicy, ShareProject
<1>9. UNCHANGED <<policy, project>>
  BY DEF Ask
<1> QED
  BY <1>4, <1>5, <1>7, <1>8, <1>9, SessionStep

(* A policy is locked, and read, when nobody else has it.                  *)
LEMMA LockPolicyStep ==
  ASSUME IInv, NEW o \in Owners, LockPolicy(o)
  PROVE  IInv'
<1> DEFINE r == session[o].request
           s == [session[o] EXCEPT !.pc = "policy_locked", !.name = EffectiveName(r),
                                   !.recommended = policy[r.policy].recommended]
<1>1. /\ session[o].pc = "asked"
      /\ r.kind = "convert"
      /\ PolicyFree(r.policy)
      /\ session' = [session EXCEPT ![o] = s]
      /\ UNCHANGED <<policy, project>>
  BY SessionIs DEF LockPolicy, Session
<1>2. r \in Conversion
  BY <1>1, SessionIs, KindTells
<1>3. EffectiveName(r) \in Titles /\ policy[r.policy].recommended \in BOOLEAN
  BY <1>2, NameType DEF IInv, TypeOK, Conversion, Policy
<1>4. /\ s \in Session /\ s.pc = "policy_locked" /\ s.request = r
      /\ s.name = EffectiveName(r) /\ s.recommended = policy[r.policy].recommended
  BY <1>3, SessionIs DEF Session, Nullable
<1> HIDE DEF s
<1>5. ConversionHolds(s)
  BY <1>2, <1>4 DEF ConversionHolds
<1> QED
  BY <1>1, <1>4, <1>5, ConvertingStep DEF ConvertingPcs

(* The key is free and the policy convertible, under the lock.             *)
LEMMA KeyFreeStep ==
  ASSUME IInv, NEW o \in Owners, KeyFree(o)
  PROVE  IInv'
<1> DEFINE r == session[o].request
           now == policy[r.policy].primary
           s == [session[o] EXCEPT !.pc = "key_free", !.current = now]
<1>1. /\ session[o].pc = "policy_locked"
      /\ WithKey(r.key) = {}
      /\ UNCHANGED <<policy, project>>
  BY DEF KeyFree
<1>2. CASE session[o].recommended /\ now # 0 /\ session' = [session EXCEPT ![o] = s]
  <2>1. ConversionHolds(session[o]) /\ r \in Conversion
    BY <1>1, SessionIs DEF InOrder, ConvertingPcs, ConversionHolds
  <2>2. now \in 0..MaxDecisions
    BY <2>1 DEF IInv, TypeOK, Policy, Conversion
  <2>3. /\ s \in Session /\ s.pc = "key_free" /\ s.request = r
        /\ s.name = session[o].name /\ s.recommended = session[o].recommended
        /\ s.current = now
    BY <2>2, SessionIs DEF Session
  <2> HIDE DEF s
  <2>4. ConversionHolds(s)
    BY <1>1, <1>2, <2>1, <2>3 DEF ConversionHolds
  <2> QED
    BY <1>1, <1>2, <2>3, <2>4, ConvertingStep DEF ConvertingPcs
<1>3. CASE Answered(o, "refused")
  BY <1>1, <1>3, AnswerStep DEF Replies
<1> QED
  BY <1>2, <1>3, SessionIs DEF KeyFree, Session

(* The policy has no project, under the lock.                              *)
LEMMA ProjectMissingStep ==
  ASSUME IInv, NEW o \in Owners, ProjectMissing(o)
  PROVE  IInv'
<1> DEFINE s == [session[o] EXCEPT !.pc = "policy_free"]
<1>1. /\ session[o].pc = "key_free"
      /\ OfPolicy(session[o].request.policy) = {}
      /\ UNCHANGED <<policy, project>>
  BY DEF ProjectMissing
<1>2. CASE Goes(o, "policy_free")
  <2>1. session' = [session EXCEPT ![o] = s]
    BY <1>2, SessionIs DEF Goes, Session
  <2>2. /\ s \in Session /\ s.pc = "policy_free" /\ s.request = session[o].request
        /\ s.name = session[o].name /\ s.recommended = session[o].recommended
        /\ s.current = session[o].current
    BY SessionIs DEF Session
  <2>3. ConversionHolds(session[o])
    BY <1>1, SessionIs DEF InOrder, ConvertingPcs
  <2> HIDE DEF s
  <2>4. ConversionHolds(s)
    BY <1>1, <2>2, <2>3 DEF ConversionHolds
  <2> QED
    BY <1>1, <2>1, <2>2, <2>4, ConvertingStep DEF ConvertingPcs
<1>3. CASE Answered(o, "refused")
  BY <1>1, <1>3, AnswerStep DEF Replies
<1> QED
  BY <1>2, <1>3 DEF ProjectMissing

(* A project is locked, and read, at the version that the request names.   *)
LEMMA LockProjectStep ==
  ASSUME IInv, NEW o \in Owners, LockProject(o)
  PROVE  IInv'
<1> DEFINE r == session[o].request
           own == project[r.project].decision
           s == [session[o] EXCEPT !.pc = "project_locked", !.own = own]
<1>1. /\ session[o].pc = "asked"
      /\ r.kind = "correct"
      /\ ProjectFree(r.project)
      /\ UNCHANGED <<policy, project>>
  BY DEF LockProject
<1>2. CASE project[r.project].version = r.version /\ session' = [session EXCEPT ![o] = s]
  <2>1. r \in Correction /\ r.project \in DOMAIN project
    BY <1>1, SessionIs, KindTells DEF InOrder
  <2>2. own \in 0..MaxDecisions
    BY <2>1, RowIs
  <2>3. s \in Session /\ s.pc = "project_locked" /\ s.request = r /\ s.own = own
    BY <2>2, SessionIs DEF Session
  <2> HIDE DEF s
  <2>4. CorrectionHolds(s)
    BY <1>2, <2>1, <2>3 DEF CorrectionHolds
  <2> QED
    BY <1>1, <1>2, <2>1, <2>3, <2>4, CorrectingStep DEF CorrectingPcs
<1>3. CASE Answered(o, "version_conflict")
  BY <1>1, <1>3, AnswerStep DEF Replies
<1> QED
  BY <1>2, <1>3, SessionIs DEF LockProject, Session

(* The project's policy is locked, and its decision read.                  *)
LEMMA ReadDecisionStep ==
  ASSUME IInv, NEW o \in Owners, ReadDecision(o)
  PROVE  IInv'
<1> DEFINE r == session[o].request
           x == project[r.project].policy
           s == [session[o] EXCEPT !.pc = "decision_read", !.current = policy[x].primary]
<1>1. /\ session[o].pc = "project_locked"
      /\ PolicyFree(x)
      /\ UNCHANGED <<policy, project>>
      /\ session' = [session EXCEPT ![o] = s]
  BY SessionIs DEF ReadDecision, Session
<1>2. CorrectionHolds(session[o]) /\ r.project \in DOMAIN project
  BY <1>1, SessionIs DEF InOrder, CorrectingPcs
<1>3. policy[x].primary \in 0..MaxDecisions
  <2>1. x \in Policies
    BY <1>2, RowIs
  <2> QED
    BY <2>1 DEF IInv, TypeOK, Policy
<1>4. /\ s \in Session /\ s.pc = "decision_read" /\ s.request = r
      /\ s.own = session[o].own /\ s.current = policy[x].primary
  BY <1>3, SessionIs DEF Session
<1> HIDE DEF s
<1>5. CorrectionHolds(s)
  BY <1>2, <1>4 DEF CorrectionHolds
<1> QED
  BY <1>1, <1>2, <1>4, <1>5, CorrectingStep DEF CorrectingPcs

(* The answers that write nothing.                                         *)
LEMMA AnswersOnly ==
  ASSUME IInv, NEW o \in Owners,
         \/ FindKey(o) \/ FindProject(o) \/ LockError(o)
         \/ RefuseTarget(o) \/ KeepEntity(o)
  PROVE  IInv'
<1>1. PICK reply \in Replies : Answered(o, reply)
  BY DEF FindKey, FindProject, LockError, RefuseTarget, KeepEntity, Replies
<1>2. UNCHANGED <<policy, project>>
  BY DEF FindKey, FindProject, LockError, RefuseTarget, KeepEntity
<1> QED
  BY <1>1, <1>2, AnswerStep

-------------------------------------------------------------------------------
(* The steps that write rows.                                              *)

(* What a request is left with when it is answered.                        *)
LEMMA AnsweredSession ==
  ASSUME IInv, NEW o \in Owners, NEW reply \in Replies, Answered(o, reply)
  PROVE  /\ session' \in [Owners -> Session]
         /\ session'[o].pc = "away"
         /\ \A b \in Owners \ {o} : session'[b] = session[b]
<1>1. [Away EXCEPT !.reply = reply] \in Session
  BY AwayType DEF Session
<1>2. [Away EXCEPT !.reply = reply].pc = "away"
  BY DEF Away
<1>3. session \in [Owners -> Session]
  BY SessionIs
<1> QED
  BY <1>1, <1>2, <1>3 DEF Answered

(* The row that Insert adds.                                               *)
LEMMA InsertedRow ==
  ASSUME IInv, NEW o \in Owners, Insert(o)
  PROVE  LET r == session[o].request
             row == [policy |-> r.policy, name |-> session[o].name, key |-> r.key,
                     request |-> r, fingerprint |-> Fingerprint(o),
                     decision |-> session[o].current, version |-> 1]
         IN  /\ row \in Project /\ row.policy = r.policy /\ row.key = r.key
             /\ row.request = r /\ row.name = EffectiveName(r)
             /\ row.decision = policy[r.policy].primary
             /\ policy[r.policy].recommended
             /\ r \in Conversion /\ WithKey(r.key) = {} /\ OfPolicy(r.policy) = {}
             /\ project' = Append(project, row)
<1> DEFINE r == session[o].request
           row == [policy |-> r.policy, name |-> session[o].name, key |-> r.key,
                   request |-> r, fingerprint |-> Fingerprint(o),
                   decision |-> session[o].current, version |-> 1]
<1>1. ConversionHolds(session[o]) /\ session[o].pc = "policy_free"
  BY SessionIs DEF Insert, InOrder, ConvertingPcs
<1>2. /\ r \in Conversion /\ r.policy \in Policies /\ r.key \in Keys
      /\ session[o].name = EffectiveName(r)
      /\ session[o].current = policy[r.policy].primary /\ session[o].current # 0
      /\ policy[r.policy].recommended
      /\ WithKey(r.key) = {} /\ OfPolicy(r.policy) = {}
  BY <1>1 DEF ConversionHolds, Conversion
<1>3. /\ session[o].name \in Titles /\ session[o].current \in 1..MaxDecisions
      /\ Fingerprint(o) \in Policies \X Titles
  <2>1. EffectiveName(r) \in Titles
    BY <1>2, NameType DEF IInv
  <2>2. session[o].current \in 0..MaxDecisions
    BY SessionIs DEF Session
  <2> QED
    BY <1>2, <2>1, <2>2, BoundsAssumption DEF Fingerprint
<1>4. project' = Append(project, row)
  BY DEF Insert
<1>5. row \in Project
  <2> HIDE DEF r
  <2> QED
    BY <1>2, <1>3 DEF Project
<1> QED
  BY <1>2, <1>4, <1>5

(* Insert: the locks of the others are of other policies and other keys.   *)
LEMMA InsertStep ==
  ASSUME IInv, NEW o \in Owners, Insert(o)
  PROVE  IInv'
<1> DEFINE r == session[o].request
           n == Len(project) + 1
           row == [policy |-> r.policy, name |-> session[o].name, key |-> r.key,
                   request |-> r, fingerprint |-> Fingerprint(o),
                   decision |-> session[o].current, version |-> 1]
<1>1. /\ row \in Project /\ row.policy = r.policy /\ row.key = r.key
      /\ r \in Conversion /\ WithKey(r.key) = {} /\ OfPolicy(r.policy) = {}
      /\ project' = Append(project, row)
  BY InsertedRow
<1>2. /\ session[o].pc = "policy_free" /\ ~GapLocked(o) /\ policy' = policy
      /\ Answered(o, "created")
  BY DEF Insert
<1>3. project \in Seq(Project) /\ policy \in [Policies -> Policy]
  BY DEF IInv, TypeOK
<1> HIDE DEF row
<1>4. /\ DOMAIN project = 1..Len(project) /\ Len(project) \in Nat
      /\ DOMAIN project' = DOMAIN project \cup {n} /\ n \notin DOMAIN project
      /\ project'[n] = row
      /\ \A i \in DOMAIN project : project'[i] = project[i]
  BY <1>1, <1>3
<1>5. /\ session' \in [Owners -> Session] /\ session'[o].pc = "away"
      /\ \A b \in Owners \ {o} : session'[b] = session[b]
  BY <1>2, AnsweredSession DEF Replies
<1> HIDE DEF n, r
<1>6. TypeOK'
  BY <1>1, <1>2, <1>3, <1>5 DEF TypeOK
<1>7. \A i \in DOMAIN project : project[i].policy # r.policy /\ project[i].key # r.key
  BY <1>1 DEF WithKey, OfPolicy
<1>8. OneProject'
  BY <1>1, <1>4, <1>7 DEF IInv, OneProject
<1>9. ASSUME NEW b \in Owners \ {o}
      PROVE  /\ session[b].pc \in {"key_free", "policy_free"} =>
                  /\ \A i \in DOMAIN project : project[i].key # session[b].request.key
                  /\ r.key # session[b].request.key
             /\ session[b].pc = "policy_free" =>
                  /\ \A i \in DOMAIN project : project[i].policy # session[b].request.policy
                  /\ r.policy # session[b].request.policy
  <2>1. session[b].pc \in {"key_free", "policy_free"} =>
          /\ \A i \in DOMAIN project : project[i].key # session[b].request.key
          /\ session[b].pc = "policy_free" =>
               \A i \in DOMAIN project : project[i].policy # session[b].request.policy
    BY SessionIs DEF InOrder, ConversionHolds, ConvertingPcs, WithKey, OfPolicy
  <2>2. session[b].pc \in {"key_free", "policy_free"} => r.key # session[b].request.key
    BY <1>2 DEF GapLocked, r
  <2>3. session[b].pc = "policy_free" => r.policy # session[b].request.policy
    <3>1. r.policy \in Policies
      BY <1>1 DEF Conversion
    <3> QED
      BY <1>2, <3>1, HoldsAlone DEF HoldsPolicy, r
  <2> QED
    BY <2>1, <2>2, <2>3
<1>10. \A b \in Owners : session'[b] = session[b] => session[b].pc = "away" \/ b # o
  BY <1>5
<1>11. ASSUME NEW b \in Owners, session'[b] = session[b]
       PROVE  /\ session[b].pc \in {"key_free", "policy_free"} =>
                   \A i \in DOMAIN project' : project'[i].key # session[b].request.key
              /\ session[b].pc = "policy_free" =>
                   \A i \in DOMAIN project' : project'[i].policy # session[b].request.policy
  BY <1>1, <1>4, <1>9, <1>10, <1>11
<1>12. /\ \A b \in Owners : session'[b] = session[b] \/ session'[b].pc = "away"
       /\ DOMAIN project \subseteq DOMAIN project'
       /\ \A i \in DOMAIN project : project'[i].policy = project[i].policy
  BY <1>4, <1>5
<1> QED
  BY <1>2, <1>4, <1>6, <1>8, <1>11, <1>12, RowStep

(* The table with one row replaced is a table with the same ids.           *)
LEMMA RowReplaced ==
  ASSUME NEW q \in Seq(Project), NEW i \in DOMAIN q, NEW row \in Project
  PROVE  /\ [q EXCEPT ![i] = row] \in Seq(Project)
         /\ DOMAIN [q EXCEPT ![i] = row] = DOMAIN q
BY ExceptSeq

(* A write of a project that nobody else holds.                            *)
LEMMA ProjectWrite ==
  ASSUME IInv, NEW i \in DOMAIN project,
         NEW decision \in 1..MaxDecisions, NEW version \in Nat,
         project' = [project EXCEPT ![i].decision = decision, ![i].version = version],
         policy' = policy,
         session' \in [Owners -> Session],
         \A b \in Owners : \/ session'[b] = session[b] /\ ~HoldsProject(session[b], i)
                           \/ session'[b] # session[b] /\ session'[b].pc = "away"
  PROVE  IInv'
<1> DEFINE row == [project[i] EXCEPT !.decision = decision, !.version = version]
<1>1. project \in Seq(Project) /\ project[i] \in Project
  BY DEF IInv, TypeOK
<1>2. row \in Project /\ row.policy = project[i].policy /\ row.key = project[i].key
  BY <1>1 DEF Project
<1>3. project' = [project EXCEPT ![i] = row]
  BY <1>1 DEF Project
<1> HIDE DEF row
<1>4. /\ project' \in Seq(Project)
      /\ DOMAIN project' = DOMAIN project
      /\ \A j \in DOMAIN project : /\ j # i => project'[j] = project[j]
                                   /\ project'[j].policy = project[j].policy
                                   /\ project'[j].key = project[j].key
  <2>1. project' \in Seq(Project) /\ DOMAIN project' = DOMAIN project
    <3>1. /\ [project EXCEPT ![i] = row] \in Seq(Project)
          /\ DOMAIN [project EXCEPT ![i] = row] = DOMAIN project
      BY <1>1, <1>2, RowReplaced, Zenon
    <3> QED
      BY <1>3, <3>1, Zenon
  <2>2. ASSUME NEW j \in DOMAIN project
        PROVE  project'[j] = IF j = i THEN row ELSE project[j]
    BY <1>3
  <2> QED
    BY <1>2, <2>1, <2>2
<1>5. TypeOK' /\ OneProject'
  BY <1>4 DEF IInv, TypeOK, OneProject
<1>6. ASSUME NEW b \in Owners, session'[b] = session[b]
      PROVE  /\ \A j \in DOMAIN project :
                  HoldsProject(session[b], j) => project'[j] = project[j]
             /\ session[b].pc \in {"key_free", "policy_free"} =>
                  \A j \in DOMAIN project' : project'[j].key # session[b].request.key
             /\ session[b].pc = "policy_free" =>
                  \A j \in DOMAIN project' : project'[j].policy # session[b].request.policy
  BY <1>4, <1>6, SessionIs
     DEF InOrder, ConversionHolds, ConvertingPcs, WithKey, OfPolicy
<1> QED
  BY <1>4, <1>5, <1>6, RowStep

(* correct_primary_entity.                                                 *)
LEMMA CorrectEntityStep ==
  ASSUME IInv, NEW o \in Owners, CorrectEntity(o)
  PROVE  IInv'
<1> DEFINE r == session[o].request
           i == r.project
<1>1. /\ session[o].pc = "decision_read" /\ policy' = policy
      /\ project' = [project EXCEPT ![i].decision = r.decision, ![i].version = r.version + 1]
      /\ Answered(o, "corrected")
  BY DEF CorrectEntity
<1>2. r \in Correction /\ i \in DOMAIN project /\ HoldsProject(session[o], i)
  BY <1>1, SessionIs DEF InOrder, CorrectionHolds, CorrectingPcs, HoldsProject
<1>3. r.decision \in 1..MaxDecisions /\ r.version + 1 \in Nat
  BY <1>2 DEF Correction
<1>4. /\ session' \in [Owners -> Session] /\ session'[o].pc = "away"
      /\ \A b \in Owners \ {o} : session'[b] = session[b]
  BY <1>1, AnsweredSession DEF Replies
<1>5. \A b \in Owners \ {o} : ~HoldsProject(session[b], i)
  BY <1>2, HoldsAlone
<1>6. session'[o] # session[o]
  BY <1>1, <1>4
<1> HIDE DEF r, i
<1> QED
  BY <1>1, <1>2, <1>3, <1>4, <1>5, <1>6, ProjectWrite

(* Any other write of a project.                                           *)
LEMMA OtherWriteStep ==
  ASSUME IInv, NEW i \in DOMAIN project, OtherWrite(i)
  PROVE  IInv'
<1>1. project \in Seq(Project) /\ project[i] \in Project
  BY DEF IInv, TypeOK
<1>2. /\ ProjectFree(i)
      /\ project' = [project EXCEPT ![i].version = @ + 1]
      /\ UNCHANGED <<policy, session>>
  BY DEF OtherWrite
<1>3. project[i].decision \in 1..MaxDecisions /\ project[i].version + 1 \in Nat
  <2>1. project[i].version \in Nat
    BY RowIs
  <2> QED
    BY <2>1, RowIs
<1>4. project' = [project EXCEPT ![i].decision = project[i].decision,
                                 ![i].version = project[i].version + 1]
  <2> DEFINE v == project[i].version + 1
             w == [project EXCEPT ![i].decision = project[i].decision, ![i].version = v]
             u == [project EXCEPT ![i].version = v]
  <2>1. project' = u
    BY <1>1, <1>2 DEF Project
  <2> HIDE DEF v
  <2>2. project[i] = [project[i] EXCEPT !.decision = project[i].decision]
    BY <1>1 DEF Project
  <2>3. u[i] = w[i]
    BY <1>1, <2>2 DEF Project
  <2>4. DOMAIN u = DOMAIN project /\ DOMAIN w = DOMAIN project
    OBVIOUS
  <2>5. \A j \in DOMAIN project : u[j] = w[j]
    BY <2>3
  <2>6. u = w
    BY <2>4, <2>5
  <2> QED
    BY <2>1, <2>6 DEF v
<1>5. /\ session' \in [Owners -> Session]
      /\ \A b \in Owners : session'[b] = session[b] /\ ~HoldsProject(session[b], i)
  BY <1>2 DEF ProjectFree, IInv, TypeOK
<1> QED
  BY <1>2, <1>3, <1>4, <1>5, ProjectWrite

(* A new page or a decision: only of a policy that no request holds.        *)
LEMMA PolicyStep ==
  ASSUME IInv, NEW p \in Policies, Retitle(p) \/ Decide(p)
  PROVE  IInv'
<1>1. PolicyFree(p) /\ UNCHANGED <<project, session>>
  BY DEF Retitle, Decide
<1>2. policy \in [Policies -> Policy]
  BY DEF IInv, TypeOK
<1>3. policy' \in [Policies -> Policy] /\ \A q \in Policies \ {p} : policy'[q] = policy[q]
  <2>1. CASE Retitle(p)
    BY <1>2, <2>1 DEF Retitle, Policy
  <2>2. CASE Decide(p)
    <3>1. PICK recommended \in BOOLEAN,
               primary \in {policy[p].primary, policy[p].primary + 1} :
            /\ primary <= MaxDecisions
            /\ policy' = [policy EXCEPT ![p].recommended = recommended,
                                        ![p].primary = primary]
      BY <2>2 DEF Decide
    <3>2. primary \in 0..MaxDecisions
      BY <1>2, <3>1, BoundsAssumption DEF Policy
    <3> QED
      BY <1>2, <3>1, <3>2 DEF Policy
  <2> QED
    BY <2>1, <2>2
<1>4. TypeOK' /\ OneProject'
  BY <1>1, <1>3 DEF IInv, TypeOK, OneProject
<1>5. ASSUME NEW b \in Owners
      PROVE  /\ \A x \in Policies : HoldsPolicy(session[b], x) => policy'[x] = policy[x]
             /\ session[b].pc \in {"key_free", "policy_free"} =>
                  \A j \in DOMAIN project' : project'[j].key # session[b].request.key
             /\ session[b].pc = "policy_free" =>
                  \A j \in DOMAIN project' : project'[j].policy # session[b].request.policy
  BY <1>1, <1>3, SessionIs
     DEF PolicyFree, InOrder, ConversionHolds, ConvertingPcs, WithKey, OfPolicy
<1> QED
  BY <1>1, <1>4, <1>5, RowStep

-------------------------------------------------------------------------------
(* Theorems.                                                               *)

(* There are no projects and no requests at first.                         *)
LEMMA InitInv == Init => IInv
<1> SUFFICES ASSUME Init
             PROVE  IInv
  OBVIOUS
<1>1. Away \in Session /\ Away.pc = "away"
  BY BoundsAssumption DEF Away, Session, Nullable, Replies
<1>2. TypeOK
  BY <1>1 DEF Init, TypeOK
<1>3. \A o \in Owners : InOrder(session[o])
  BY <1>1 DEF Init, InOrder, ConvertingPcs, CorrectingPcs
<1>4. LocksExclude
  BY <1>1, HoldsNothing DEF Init, LocksExclude, SharePolicy, ShareProject
<1>5. OneProject
  BY DEF Init, OneProject
<1> QED
  BY <1>2, <1>3, <1>4, <1>5 DEF IInv

(* Every step of requests and of others keeps the invariant.               *)
LEMMA NextInv == IInv /\ [Next]_vars => IInv'
<1> SUFFICES ASSUME IInv, [Next]_vars
             PROVE  IInv'
  OBVIOUS
<1>1. ASSUME NEW o \in Owners, RequestStep(o)
      PROVE  IInv'
  BY <1>1, AskStep, LockPolicyStep, AnswersOnly, KeyFreeStep, ProjectMissingStep,
     InsertStep, LockProjectStep, ReadDecisionStep, CorrectEntityStep DEF RequestStep
<1>2. CASE UNCHANGED vars
  BY <1>2 DEF vars, IInv, TypeOK, InOrder, ConversionHolds, CorrectionHolds,
     LocksExclude, OneProject, SharePolicy, ShareProject, HoldsPolicy, HoldsProject,
     WithKey, OfPolicy, EffectiveName
<1> QED
  BY <1>1, <1>2, PolicyStep, OtherWriteStep DEF Next

(* What a conversion or correction has found out under its locks stays true *)
(* until it is answered, its locks are its own, and no policy and no key    *)
(* has two projects.                                                       *)
THEOREM ConversionInvariance == Spec => []IInv
BY InitInv, NextInv, PTL DEF Spec

(* Policies, projects and requests keep their shapes.                      *)
THEOREM ConversionTypes == Spec => []TypeOK
<1>1. IInv => TypeOK
  BY DEF IInv
<1> QED
  BY <1>1, ConversionInvariance, PTL

(* Whatever conversions run at once, the locks of convert_policy alone keep *)
(* a policy, and an idempotency key, to one project: its unique constraints *)
(* and _resolve_creation_race are never needed.                            *)
THEOREM OneProjectEach == Spec => []OneProject
<1>1. IInv => OneProject
  BY DEF IInv
<1> QED
  BY <1>1, ConversionInvariance, PTL

-------------------------------------------------------------------------------
(* Copying the decision.                                                   *)

(* A step that leaves the decisions alone copies none.                     *)
LEMMA DecisionsKept ==
  ASSUME DOMAIN project' = DOMAIN project,
         \A i \in DOMAIN project : project'[i].decision = project[i].decision
  PROVE  \A i \in DOMAIN project' : CopiesDecision(i)
BY DEF CopiesDecision

(* A conversion writes what it has read of the policy it still holds.       *)
LEMMA InsertCopies ==
  ASSUME IInv, NEW o \in Owners, Insert(o)
  PROVE  \A i \in DOMAIN project' : CopiesDecision(i)
<1> DEFINE r == session[o].request
           row == [policy |-> r.policy, name |-> session[o].name, key |-> r.key,
                   request |-> r, fingerprint |-> Fingerprint(o),
                   decision |-> session[o].current, version |-> 1]
           n == Len(project) + 1
<1>1. /\ row \in Project /\ row.policy = r.policy /\ row.request = r
      /\ row.name = EffectiveName(r) /\ row.decision = policy[r.policy].primary
      /\ policy[r.policy].recommended
      /\ project' = Append(project, row)
      /\ project \in Seq(Project)
  BY InsertedRow DEF IInv, TypeOK
<1> HIDE DEF row, r
<1>2. /\ DOMAIN project' = DOMAIN project \cup {n}
      /\ n \notin DOMAIN project
      /\ project'[n] = row
      /\ \A i \in DOMAIN project : project'[i] = project[i]
  BY <1>1
<1>3. CopiesDecision(n)
  BY <1>1, <1>2 DEF CopiesDecision, EffectiveName
<1>4. \A i \in DOMAIN project : CopiesDecision(i)
  BY <1>2 DEF CopiesDecision
<1> QED
  BY <1>2, <1>3, <1>4

(* A correction compares with what it has read of the policy it still       *)
(* holds, and still holds the project whose version it has compared.       *)
LEMMA CorrectEntityCopies ==
  ASSUME IInv, NEW o \in Owners, CorrectEntity(o)
  PROVE  \A i \in DOMAIN project' : CopiesDecision(i)
<1> DEFINE r == session[o].request
           k == r.project
<1>1. /\ session[o].pc = "decision_read" /\ r.decision = session[o].current
      /\ project' = [project EXCEPT ![k].decision = r.decision,
                                    ![k].version = r.version + 1]
  BY DEF CorrectEntity
<1>2. CorrectionHolds(session[o]) /\ k \in DOMAIN project /\ HoldsProject(session[o], k)
  BY <1>1, SessionIs DEF InOrder, CorrectingPcs, HoldsProject
<1>3. /\ project[k].version = r.version
      /\ r.decision = policy[project[k].policy].primary
  BY <1>1, <1>2 DEF CorrectionHolds
<1>4. project \in Seq(Project) /\ project[k] \in Project
  BY <1>2 DEF IInv, TypeOK
<1>5. /\ DOMAIN project' = DOMAIN project
      /\ \A i \in DOMAIN project \ {k} : project'[i] = project[i]
      /\ project'[k].policy = project[k].policy
      /\ project'[k].decision = r.decision
      /\ project'[k].version = project[k].version + 1
  BY <1>1, <1>2, <1>3, <1>4 DEF Project
<1>6. CopiesDecision(k)
  BY <1>2, <1>3, <1>5 DEF CopiesDecision
<1> QED
  BY <1>5, <1>6 DEF CopiesDecision

(* Other writes leave the decision alone.                                  *)
LEMMA OtherWriteCopies ==
  ASSUME IInv, NEW k \in DOMAIN project, OtherWrite(k)
  PROVE  \A i \in DOMAIN project' : CopiesDecision(i)
<1>1. project \in Seq(Project) /\ project[k] \in Project
  BY DEF IInv, TypeOK
<1>2. /\ DOMAIN project' = DOMAIN project
      /\ \A i \in DOMAIN project : project'[i].decision = project[i].decision
  BY <1>1 DEF OtherWrite, Project
<1> QED
  BY <1>2, DecisionsKept

(* The decision and the title that a conversion or a correction read under  *)
(* the lock of the policy are still the policy's when they are written,     *)
(* steps later; the policy is still recommended, and the project that is    *)
(* corrected still at the version that was compared.                       *)
THEOREM DecisionsAreCurrent == Spec => CopiesCurrentDecision
<1>1. IInv /\ [Next]_vars => [\A i \in DOMAIN project' : CopiesDecision(i)]_vars
  <2> SUFFICES ASSUME IInv, Next
               PROVE  \A i \in DOMAIN project' : CopiesDecision(i)
    BY DEF vars
  <2>1. ASSUME NEW o \in Owners, RequestStep(o)
        PROVE  \A i \in DOMAIN project' : CopiesDecision(i)
    <3>1. CASE project' = project
      BY <3>1, DecisionsKept
    <3> QED
      BY <2>1, <3>1, InsertCopies, CorrectEntityCopies
      DEF RequestStep, Ask, LockPolicy, FindKey, KeyFree, FindProject,
          ProjectMissing, LockProject, ReadDecision, RefuseTarget, KeepEntity,
          LockError
  <2>2. ASSUME NEW p \in Policies, Retitle(p) \/ Decide(p)
        PROVE  \A i \in DOMAIN project' : CopiesDecision(i)
    BY <2>2, DecisionsKept DEF Retitle, Decide
  <2> QED
    BY <2>1, <2>2, OtherWriteCopies DEF Next
<1> QED
  BY <1>1, ConversionInvariance, PTL DEF Spec, CopiesCurrentDecision
===============================================================================
