------------------------- MODULE EvaluationRulesProofs -------------------------
(***************************************************************************)
(* Proofs about EvaluationRules, for any rule sets, users and contents.     *)
(***************************************************************************)
EXTENDS EvaluationRules, FiniteSetTheorems, SequenceTheorems, TLAPS

-------------------------------------------------------------------------------
(* The inductive invariant.                                                *)

IndicesOf(v, s) == {i \in DOMAIN v : v[i].set = s}

(* What was ever in force was complete when it was published.              *)
EnactedComplete ==
  \A i \in DOMAIN version : version[i].status # "draft" => version[i].content \in Complete

OneInForce == \A i, j \in Published(version) : i = j

(* A publisher holds a complete draft; nobody else holds a row.            *)
LocksHold ==
  \A u \in Users :
    /\ session[u].pc # "publishing" => session[u].locked = NoValue
    /\ session[u].pc = "publishing" =>
         /\ session[u].locked \in DOMAIN version
         /\ version[session[u].locked].status = "draft"
         /\ version[session[u].locked].content \in Complete

LocksExclude ==
  \A a, b \in Users :
    /\ session[a].pc = "publishing" /\ session[b].pc = "publishing"
    /\ session[a].locked = session[b].locked
    => a = b

(* A snapshot v lacks versions that w has, and knows drafts that are none   *)
(* any more; what it has in force says the same in w.                      *)
Past(v, w) ==
  /\ DOMAIN v \subseteq DOMAIN w
  /\ \A i \in DOMAIN v : v[i].set = w[i].set /\ v[i].number = w[i].number
  /\ \A i \in Published(v) : w[i].status # "draft" /\ w[i].content = v[i].content
  /\ \A s \in Sets : \E m \in Nat : NumbersOf(v, s) = 1..m

(* The numbers of a set have no gap.                                       *)
NoGap ==
  \A s \in Sets :
    /\ IsFiniteSet(IndicesOf(version, s))
    /\ NumbersOf(version, s) = 1..Cardinality(IndicesOf(version, s))

RulesExist == \A b \in DOMAIN batch : batch[b].rule \in DOMAIN version

Coherent == EnactedComplete /\ NoGap /\ NumbersFollow /\ RulesExist /\ BatchesKeepRules

IInv ==
  /\ TypeOK
  /\ Coherent
  /\ OneInForce
  /\ LocksHold
  /\ LocksExclude
  /\ \A u \in Users : Past(session[u].view, version)

-------------------------------------------------------------------------------
(* Numbers.                                                                *)

(* The greatest of the numbers 1 to m, or 0 if there are none.             *)
LEMMA MaxOfInterval ==
  ASSUME NEW m \in Nat
  PROVE  Max((1..m) \cup {0}) = m
<1> DEFINE S == (1..m) \cup {0}
<1>1. m \in S /\ \A y \in S : m >= y
  OBVIOUS
<1>2. \A x \in S : (\A y \in S : x >= y) => x = m
  BY <1>1
<1> HIDE DEF S
<1>3. Max(S) = m
  BY <1>1, <1>2 DEF Max
<1> QED
  BY <1>3 DEF S

(* Statuses and contents do not matter to numbers.                         *)
LEMMA SameNumbers ==
  ASSUME DOMAIN version' = DOMAIN version,
         \A i \in DOMAIN version : /\ version'[i].set = version[i].set
                                   /\ version'[i].number = version[i].number
  PROVE  /\ \A s : /\ NumbersOf(version, s)' = NumbersOf(version, s)
                   /\ IndicesOf(version, s)' = IndicesOf(version, s)
         /\ NoGap => NoGap'
<1>1. \A s : IndicesOf(version, s)' = IndicesOf(version, s)
  BY DEF IndicesOf
<1>2. \A s : NumbersOf(version, s)' = NumbersOf(version, s)
  BY DEF NumbersOf
<1> QED
  BY <1>1, <1>2 DEF NoGap

-------------------------------------------------------------------------------
(* Steps that change one session.                                          *)

(* A request moves on: the tables stay, and what its session says is true. *)
LEMMA SessionStep ==
  ASSUME IInv, NEW u \in Users, NEW t \in Session,
         session' = [session EXCEPT ![u] = t],
         version' = version,
         batch' = batch,
         Past(t.view, version),
         t.pc # "publishing" => t.locked = NoValue,
         t.pc = "publishing" =>
           /\ t.locked \in DOMAIN version
           /\ version[t.locked].status = "draft"
           /\ version[t.locked].content \in Complete
           /\ \A other \in Users \ {u} :
                session[other].pc = "publishing" => session[other].locked # t.locked
  PROVE  IInv'
<1>1. session \in [Users -> Session]
  BY DEF IInv, TypeOK
<1>2. TypeOK'
  BY <1>1 DEF IInv, TypeOK
<1>3. Coherent' /\ OneInForce'
  <2>1. EnactedComplete' /\ NumbersFollow' /\ RulesExist'
    BY DEF IInv, Coherent, EnactedComplete, NumbersFollow, RulesExist
  <2>2. NoGap'
    BY DEF IInv, Coherent, NoGap, NumbersOf, IndicesOf
  <2>3. BatchesKeepRules'
    BY DEF IInv, Coherent, BatchesKeepRules
  <2>4. OneInForce'
    BY DEF IInv, OneInForce, Published
  <2> QED
    BY <2>1, <2>2, <2>3, <2>4 DEF Coherent
<1>4. LocksHold'
  BY <1>1 DEF IInv, LocksHold
<1>5. LocksExclude'
  BY <1>1 DEF IInv, LocksExclude
<1>6. ASSUME NEW b \in Users
      PROVE  Past(session'[b].view, version')
  BY <1>1 DEF IInv
<1> QED
  BY <1>2, <1>3, <1>4, <1>5, <1>6 DEF IInv

(* A session between requests holds nothing and knows nothing.             *)
LEMMA AwayIs ==
  ASSUME IInv
  PROVE  Away \in Session /\ Away.pc = "away" /\ Away.locked = NoValue /\ Past(Away.view, version)
<1>1. /\ Away \in Session
      /\ Away.pc = "away"
      /\ Away.locked = NoValue
      /\ Away.view = <<>>
  BY DEF Away, Session
<1>2. /\ \A s : NumbersOf(<<>>, s) = {}
      /\ Published(<<>>) = {}
      /\ DOMAIN <<>> = {}
  BY DEF NumbersOf, Published
<1>3. Past(<<>>, version)
  <2>1. {} = 1..0 /\ 0 \in Nat
    OBVIOUS
  <2>2. \A s \in Sets : \E m \in Nat : NumbersOf(<<>>, s) = 1..m
    BY <1>2, <2>1
  <2> QED
    BY <1>2, <2>2, Zenon DEF Past
<1> QED
  BY <1>1, <1>3

(* An answer that writes nothing.                                          *)
LEMMA AnswerStep ==
  ASSUME IInv, NEW u \in Users, Answered(u), UNCHANGED <<version, batch>>
  PROVE  IInv'
BY AwayIs, SessionStep DEF Answered

(* A new snapshot is the table itself.                                     *)
LEMMA OpenStep ==
  ASSUME IInv, NEW u \in Users, Open(u)
  PROVE  IInv'
<1> DEFINE t == [Away EXCEPT !.pc = "asked", !.view = version]
<1>1. version \in Seq(Version)
  BY DEF IInv, TypeOK
<1>2. /\ t \in Session
      /\ t.pc = "asked"
      /\ t.locked = NoValue
      /\ t.view = version
  BY <1>1 DEF Away, Session
<1>3. Past(version, version)
  <2>1. \A i \in Published(version) : version[i].status # "draft"
    BY DEF Published
  <2>2. ASSUME NEW s \in Sets
        PROVE  \E m \in Nat : NumbersOf(version, s) = 1..m
    BY FS_CardinalityType DEF IInv, Coherent, NoGap
  <2> QED
    BY <2>1, <2>2 DEF Past
<1> HIDE DEF t
<1>4. session' = [session EXCEPT ![u] = t] /\ UNCHANGED <<version, batch>>
  BY DEF Open, t
<1> QED
  BY <1>2, <1>3, <1>4, SessionStep

(* A row that no request holds becomes the publisher's.                    *)
LEMMA LockDraftStep ==
  ASSUME IInv, NEW u \in Users, NEW i \in DOMAIN version, LockDraft(u, i)
  PROVE  IInv'
<1> DEFINE t == [session[u] EXCEPT !.pc = "publishing", !.locked = i]
<1>1. /\ Free(i)
      /\ version[i].status = "draft"
      /\ version[i].content \in Complete
      /\ UNCHANGED <<version, batch>>
  BY DEF LockDraft
<1>2. session \in [Users -> Session] /\ i \in Nat
  BY DEF IInv, TypeOK
<1>3. /\ t \in Session
      /\ t.pc = "publishing"
      /\ t.locked = i
      /\ t.view = session[u].view
  BY <1>2 DEF Session
<1>4. session' = [session EXCEPT ![u] = t]
  BY <1>2 DEF LockDraft, Session
<1>5. Past(t.view, version)
  BY <1>3 DEF IInv
<1>6. \A other \in Users \ {u} : session[other].locked # i
  BY <1>1 DEF Free
<1> HIDE DEF t
<1> QED
  BY <1>1, <1>3, <1>4, <1>5, <1>6, SessionStep

-------------------------------------------------------------------------------
(* Steps that write versions in place: UpdateDraft, Retire and Publish.     *)

(* What an administrator may do to version i, seen from outside.           *)
Rewritten(i) ==
  LET old == version[i]
      new == version'[i]
  IN  /\ new.set = old.set
      /\ new.number = old.number
      /\ old.status # "draft" => new.status # "draft" /\ new.content = old.content
      /\ new.status # "draft" => new.content \in Complete

(* Rewriting in place keeps numbers, batches and every snapshot a past.    *)
LEMMA RewriteKeeps ==
  ASSUME IInv,
         version' \in Seq(Version),
         DOMAIN version' = DOMAIN version,
         \A i \in DOMAIN version : Rewritten(i),
         batch' = batch
  PROVE  /\ Coherent'
         /\ \A v : Past(v, version) => Past(v, version')
<1>1. EnactedComplete'
  BY DEF EnactedComplete, Rewritten
<1>2. \A i \in DOMAIN version : /\ version'[i].set = version[i].set
                                 /\ version'[i].number = version[i].number
  BY DEF Rewritten
<1>3. NoGap'
  BY <1>2, SameNumbers DEF IInv, Coherent
<1>4. NumbersFollow'
  <2>1. version \in Seq(Version)
    BY DEF IInv, TypeOK
  <2>2. ASSUME NEW i \in DOMAIN version
        PROVE  {j \in 1..i : version'[j].set = version'[i].set} =
               {j \in 1..i : version[j].set = version[i].set}
    BY <1>2, <2>1
  <2> QED
    BY <1>2, <2>2 DEF IInv, Coherent, NumbersFollow
<1>5. RulesExist' /\ BatchesKeepRules'
  BY DEF IInv, Coherent, RulesExist, BatchesKeepRules, Rewritten
<1>6. ASSUME NEW v, Past(v, version)
      PROVE  Past(v, version')
  BY <1>6 DEF Past, Published, Rewritten
<1> QED
  BY <1>1, <1>3, <1>4, <1>5, <1>6 DEF Coherent

(* The request that writes ends; the others keep their rows.               *)
LEMMA RewriteStep ==
  ASSUME IInv, NEW u \in Users, Answered(u),
         version' \in Seq(Version),
         DOMAIN version' = DOMAIN version,
         \A i \in DOMAIN version : Rewritten(i),
         batch' = batch,
         OneInForce',
         \A other \in Users \ {u} :
           session[other].pc = "publishing" =>
             version'[session[other].locked] = version[session[other].locked]
  PROVE  IInv'
<1>1. session \in [Users -> Session] /\ batch \in Seq(Batch)
  BY DEF IInv, TypeOK
<1>2. session' = [session EXCEPT ![u] = Away]
  BY DEF Answered
<1>3. TypeOK'
  BY <1>1, <1>2, AwayIs DEF TypeOK
<1>4. Coherent' /\ \A v : Past(v, version) => Past(v, version')
  BY RewriteKeeps
<1>5. LocksHold' /\ LocksExclude'
  BY <1>1, <1>2, AwayIs DEF IInv, LocksHold, LocksExclude
<1>6. ASSUME NEW b \in Users
      PROVE  Past(session'[b].view, version')
  BY <1>1, <1>2, <1>4, AwayIs DEF IInv
<1> QED
  BY <1>3, <1>4, <1>5, <1>6 DEF IInv

(* Only a draft that nobody holds is edited.                               *)
LEMMA UpdateDraftStep ==
  ASSUME IInv, NEW u \in Users, NEW i \in DOMAIN version, UpdateDraft(u, i)
  PROVE  IInv'
<1>1. PICK c \in Contents : version' = [version EXCEPT ![i].content = c]
  BY DEF UpdateDraft
<1>2. /\ session[u].pc = "asked"
      /\ Free(i)
      /\ version[i].status = "draft"
      /\ Answered(u)
      /\ batch' = batch
  BY DEF UpdateDraft, Editable
<1>3. version \in Seq(Version) /\ version[i] \in Version
  BY DEF IInv, TypeOK
<1>4. /\ version' \in Seq(Version)
      /\ DOMAIN version' = DOMAIN version
      /\ \A j \in DOMAIN version \ {i} : version'[j] = version[j]
      /\ version'[i].set = version[i].set
      /\ version'[i].number = version[i].number
      /\ version'[i].status = "draft"
  BY <1>1, <1>2, <1>3 DEF Version
<1>5. \A j \in DOMAIN version : Rewritten(j)
  BY <1>2, <1>4 DEF IInv, Coherent, EnactedComplete, Rewritten
<1>6. Published(version') = Published(version)
  BY <1>2, <1>4 DEF Published
<1>7. OneInForce'
  BY <1>6 DEF IInv, OneInForce
<1>8. \A other \in Users \ {u} :
        session[other].pc = "publishing" =>
          version'[session[other].locked] = version[session[other].locked]
  BY <1>2, <1>4 DEF Free, IInv, LocksHold
<1> QED
  BY <1>2, <1>4, <1>5, <1>7, <1>8, RewriteStep

(* The version in force may go out of force.                               *)
LEMMA RetireStep ==
  ASSUME IInv, NEW u \in Users, NEW i \in DOMAIN version, Retire(u, i)
  PROVE  IInv'
<1>1. /\ session[u].pc = "asked"
      /\ Free(i)
      /\ version[i].status = "published"
      /\ version' = [version EXCEPT ![i].status = "retired"]
      /\ Answered(u)
      /\ batch' = batch
  BY DEF Retire
<1>2. version \in Seq(Version) /\ version[i] \in Version
  BY DEF IInv, TypeOK
<1>3. /\ version' \in Seq(Version)
      /\ DOMAIN version' = DOMAIN version
      /\ \A j \in DOMAIN version \ {i} : version'[j] = version[j]
      /\ version'[i].set = version[i].set
      /\ version'[i].number = version[i].number
      /\ version'[i].content = version[i].content
      /\ version'[i].status = "retired"
  BY <1>1, <1>2 DEF Version
<1>4. \A j \in DOMAIN version : Rewritten(j)
  BY <1>1, <1>3 DEF IInv, Coherent, EnactedComplete, Rewritten
<1>5. Published(version') \subseteq Published(version)
  BY <1>3 DEF Published
<1>6. OneInForce'
  BY <1>5 DEF IInv, OneInForce
<1>7. \A other \in Users \ {u} :
        session[other].pc = "publishing" =>
          version'[session[other].locked] = version[session[other].locked]
  BY <1>1, <1>3 DEF Free, IInv, LocksHold
<1> QED
  BY <1>1, <1>3, <1>4, <1>6, <1>7, RewriteStep

(* What the scan and the commit of a publication leave in the table.        *)
LEMMA PublishedRows ==
  ASSUME IInv, NEW u \in Users, Publish(u)
  PROVE  /\ version' \in Seq(Version)
         /\ DOMAIN version' = DOMAIN version
         /\ session[u].locked \in DOMAIN version
         /\ version[session[u].locked].status = "draft"
         /\ Published(version') = {session[u].locked}
         /\ \A i \in DOMAIN version : Rewritten(i)
<1> DEFINE k == session[u].locked
           row(i) == IF i = k THEN [version[i] EXCEPT !.status = "published"]
                     ELSE IF i \in InForce(u) THEN [version[i] EXCEPT !.status = "retired"]
                     ELSE version[i]
<1>1. /\ session[u].pc = "publishing"
      /\ version' = [i \in DOMAIN version |-> row(i)]
  BY DEF Publish
<1>2. /\ k \in DOMAIN version
      /\ version[k].status = "draft"
      /\ version[k].content \in Complete
  BY <1>1 DEF IInv, LocksHold
<1>3. version \in Seq(Version)
  BY DEF IInv, TypeOK
<1>4. ASSUME NEW i \in DOMAIN version
      PROVE  /\ row(i) \in Version
             /\ row(i).set = version[i].set
             /\ row(i).number = version[i].number
             /\ row(i).content = version[i].content
             /\ row(i).status =
                  IF i = k THEN "published"
                  ELSE IF i \in Published(version) THEN "retired"
                  ELSE version[i].status
  <2>1. version[i] \in Version
    BY <1>3
  <2> QED
    BY <2>1 DEF Version, InForce
<1> HIDE DEF row, k
<1>5. DOMAIN version' = DOMAIN version /\ \A i \in DOMAIN version : version'[i] = row(i)
  BY <1>1
<1>6. version' \in Seq(Version)
  <2>1. PICK n \in Nat : DOMAIN version = 1..n
    BY <1>3
  <2>2. version' \in [1..n -> Version]
    BY <1>1, <1>4, <2>1
  <2> QED
    BY <2>1, <2>2, IsASeq
<1>7. Published(version') = {k}
  BY <1>2, <1>4, <1>5 DEF Published
<1>8. ASSUME NEW i \in DOMAIN version
      PROVE  Rewritten(i)
  BY <1>2, <1>4, <1>5 DEF Rewritten, Published, IInv, Coherent, EnactedComplete
<1> QED
  BY <1>2, <1>5, <1>6, <1>7, <1>8 DEF k

(* When the scan has its locks there is no other publisher.                *)
LEMMA PublishStep ==
  ASSUME IInv, NEW u \in Users, Publish(u)
  PROVE  IInv'
<1>1. /\ Answered(u)
      /\ batch' = batch
      /\ ~OthersHold(u)
  BY DEF Publish
<1>2. OneInForce'
  BY PublishedRows DEF OneInForce
<1>3. \A other \in Users \ {u} : session[other].pc # "publishing"
  <2>1. version \in Seq(Version)
    BY DEF IInv, TypeOK
  <2>2. NoValue \notin DOMAIN version
    BY <2>1, NoValueAssumption
  <2> QED
    BY <1>1, <2>2 DEF OthersHold, IInv, LocksHold
<1> QED
  BY <1>1, <1>2, <1>3, PublishedRows, RewriteStep

-------------------------------------------------------------------------------
(* A new draft.  Its number is one more than the snapshot's, and is not      *)
(* taken, so the snapshot has all numbers of its set.                      *)

(* A free next number is the count of the set's versions and one.          *)
LEMMA NextNumberIs ==
  ASSUME IInv, NEW u \in Users, NEW s \in Sets, ~Taken(u, s)
  PROVE  NextNumber(u, s) = Cardinality(IndicesOf(version, s)) + 1
<1> DEFINE k == Cardinality(IndicesOf(version, s))
           view == session[u].view
<1>1. k \in Nat /\ NumbersOf(version, s) = 1..k
  BY FS_CardinalityType DEF IInv, Coherent, NoGap
<1>2. PICK m \in Nat : NumbersOf(view, s) = 1..m
  BY DEF IInv, Past
<1>3. NextNumber(u, s) = m + 1
  BY <1>2, MaxOfInterval DEF NextNumber
<1>4. m + 1 \notin 1..k
  BY <1>1, <1>3 DEF Taken
<1>5. 1..m \subseteq 1..k
  <2>1. Past(view, version)
    BY DEF IInv
  <2>2. NumbersOf(view, s) \subseteq NumbersOf(version, s)
    BY <2>1 DEF Past, NumbersOf
  <2> QED
    BY <1>1, <1>2, <2>2
<1> HIDE DEF k
<1>6. m = k
  <2>1. m <= k
    <3>1. CASE m = 0
      BY <1>1, <3>1
    <3>2. CASE m # 0
      BY <1>1, <1>2, <1>5, <3>2
    <3> QED
      BY <3>1, <3>2
  <2> QED
    BY <1>1, <1>4, <2>1
<1> QED
  BY <1>3, <1>6 DEF k

(* A draft continues the numbers of its set.                               *)
LEMMA CreateDraftStep ==
  ASSUME IInv, NEW u \in Users, NEW s \in Sets, CreateDraft(u, s)
  PROVE  IInv'
<1> DEFINE k == Cardinality(IndicesOf(version, s))
           n == Len(version) + 1
<1>1. PICK c \in Contents :
        version' = Append(version, [set |-> s, number |-> NextNumber(u, s),
                                    content |-> c, status |-> "draft"])
  BY DEF CreateDraft
<1>2. /\ Answered(u)
      /\ batch' = batch
      /\ NextNumber(u, s) = k + 1
  BY NextNumberIs DEF CreateDraft
<1>3. /\ version \in Seq(Version)
      /\ batch \in Seq(Batch)
      /\ session \in [Users -> Session]
      /\ session' = [session EXCEPT ![u] = Away]
  BY <1>2 DEF IInv, TypeOK, Answered
<1>4. IsFiniteSet(IndicesOf(version, s)) /\ k \in Nat
  BY FS_CardinalityType DEF IInv, Coherent, NoGap
<1> DEFINE row == [set |-> s, number |-> k + 1, content |-> c, status |-> "draft"]
<1> HIDE DEF k
<1>5. /\ row \in Version
      /\ row.set = s
      /\ row.number = k + 1
      /\ row.status = "draft"
  BY <1>4 DEF Version
<1>6. version' = Append(version, row)
  BY <1>1, <1>2
<1> HIDE DEF row
<1>7. /\ n \in Nat \ {0}
      /\ DOMAIN version = 1..(n - 1)
      /\ DOMAIN version' = 1..n
      /\ version' \in Seq(Version)
      /\ version'[n] = row
      /\ \A i \in DOMAIN version : version'[i] = version[i]
  BY <1>3, <1>5, <1>6
<1> HIDE DEF n
<1>8. TypeOK'
  <2>1. session' \in [Users -> Session]
    BY <1>3, AwayIs
  <2>2. batch' \in Seq(Batch)
    BY <1>2, <1>3
  <2> QED
    BY <1>7, <2>1, <2>2 DEF TypeOK
<1>9. EnactedComplete' /\ OneInForce'
  <2>1. Published(version') = Published(version)
    BY <1>5, <1>7 DEF Published
  <2> QED
    BY <1>5, <1>7, <2>1 DEF IInv, Coherent, EnactedComplete, OneInForce
<1>10. /\ IndicesOf(version', s) = IndicesOf(version, s) \cup {n}
       /\ n \notin IndicesOf(version, s)
       /\ \A other \in Sets \ {s} : IndicesOf(version', other) = IndicesOf(version, other)
  <2>1. DOMAIN version' = DOMAIN version \cup {n} /\ n \notin DOMAIN version
    <3>1. 1..n = (1..(n - 1)) \cup {n} /\ n \notin 1..(n - 1)
      BY <1>7
    <3> QED
      BY <1>7, <3>1, Zenon
  <2>2. ASSUME NEW q
        PROVE  IndicesOf(version', q) =
               IndicesOf(version, q) \cup (IF q = s THEN {n} ELSE {})
    BY <1>5, <1>7, <2>1 DEF IndicesOf
  <2>3. n \notin IndicesOf(version, s)
    BY <2>1 DEF IndicesOf
  <2>4. \A other \in Sets \ {s} : IndicesOf(version', other) = IndicesOf(version, other)
    BY <2>2
  <2> QED
    BY <2>2, <2>3, <2>4
<1>11. /\ IsFiniteSet(IndicesOf(version', s))
       /\ Cardinality(IndicesOf(version', s)) = k + 1
  BY <1>4, <1>10, FS_AddElement DEF k
<1>12. NoGap'
  <2>1. NumbersOf(version', s) = NumbersOf(version, s) \cup {k + 1}
    <3>1. NumbersOf(version', s) = {version'[i].number : i \in IndicesOf(version', s)}
      BY DEF NumbersOf, IndicesOf
    <3>2. NumbersOf(version, s) = {version[i].number : i \in IndicesOf(version, s)}
      BY DEF NumbersOf, IndicesOf
    <3>3. /\ \A i \in IndicesOf(version, s) : version'[i].number = version[i].number
          /\ version'[n].number = k + 1
      BY <1>5, <1>7 DEF IndicesOf
    <3> QED
      BY <1>10, <3>1, <3>2, <3>3
  <2>2. NumbersOf(version', s) = 1..(k + 1)
    BY <1>4, <2>1 DEF IInv, Coherent, NoGap, k
  <2>3. \A other \in Sets \ {s} : NumbersOf(version', other) = NumbersOf(version, other)
    BY <1>5, <1>7 DEF NumbersOf
  <2> QED
    BY <1>10, <1>11, <2>2, <2>3 DEF IInv, Coherent, NoGap
<1>13. NumbersFollow'
  <2>1. {j \in 1..n : version'[j].set = version'[n].set} = IndicesOf(version', s)
    BY <1>5, <1>7 DEF IndicesOf
  <2>2. ASSUME NEW i \in DOMAIN version
        PROVE  {j \in 1..i : version'[j].set = version'[i].set} =
               {j \in 1..i : version[j].set = version[i].set}
    BY <1>7
  <2>3. version'[n].number = Cardinality({j \in 1..n : version'[j].set = version'[n].set})
    BY <1>5, <1>7, <1>11, <2>1
  <2>4. ASSUME NEW i \in DOMAIN version
        PROVE  version'[i].number =
                 Cardinality({j \in 1..i : version'[j].set = version'[i].set})
    <3>1. version[i].number = Cardinality({j \in 1..i : version[j].set = version[i].set})
      BY DEF IInv, Coherent, NumbersFollow
    <3> QED
      BY <1>7, <2>2, <3>1
  <2>5. \A i \in DOMAIN version' : i \in DOMAIN version \/ i = n
    BY <1>7
  <2> QED
    BY <2>3, <2>4, <2>5 DEF NumbersFollow
<1>14. RulesExist' /\ BatchesKeepRules'
  BY <1>2, <1>7 DEF IInv, Coherent, RulesExist, BatchesKeepRules
<1>15. LocksHold' /\ LocksExclude'
  BY <1>3, <1>7, AwayIs DEF IInv, LocksHold, LocksExclude
<1>16. ASSUME NEW b \in Users
       PROVE  Past(session'[b].view, version')
  <2>1. \A v : Past(v, version) => Past(v, version')
    BY <1>7 DEF Past, Published
  <2> QED
    BY <1>3, <2>1, AwayIs DEF IInv
<1> QED
  BY <1>8, <1>9, <1>12, <1>13, <1>14, <1>15, <1>16 DEF IInv, Coherent

-------------------------------------------------------------------------------
(* enqueue: the snapshot's rule says today what it said then.              *)
LEMMA EnqueueStep ==
  ASSUME IInv, NEW u \in Users, Enqueue(u)
  PROVE  IInv'
<1> DEFINE view == session[u].view
<1>1. PICK i \in Published(view) :
        batch' = Append(batch, [rule |-> i, content |-> view[i].content])
  BY DEF Enqueue, RuleFor
<1>2. Answered(u) /\ version' = version
  BY DEF Enqueue
<1>3. /\ version \in Seq(Version)
      /\ batch \in Seq(Batch)
      /\ session \in [Users -> Session]
      /\ session' = [session EXCEPT ![u] = Away]
  BY <1>2 DEF IInv, TypeOK, Answered
<1>4. /\ i \in DOMAIN version
      /\ version[i].status # "draft"
      /\ version[i].content = view[i].content
  BY DEF IInv, Past, Published
<1>5. version[i].content \in Complete
  BY <1>4 DEF IInv, Coherent, EnactedComplete
<1> DEFINE row == [rule |-> i, content |-> view[i].content]
<1>6. row \in Batch /\ row.rule = i /\ row.content = version[i].content
  BY <1>3, <1>4, <1>5, CompleteAssumption DEF Batch
<1> HIDE DEF row
<1>7. batch' = Append(batch, row)
  BY <1>1 DEF row
<1>8. /\ batch' \in Seq(Batch)
      /\ DOMAIN batch' = DOMAIN batch \cup {Len(batch) + 1}
      /\ batch'[Len(batch) + 1] = row
      /\ \A b \in DOMAIN batch : batch'[b] = batch[b]
  BY <1>3, <1>6, <1>7
<1>9. TypeOK'
  BY <1>2, <1>3, <1>8, AwayIs DEF TypeOK
<1>10. EnactedComplete' /\ NumbersFollow' /\ OneInForce'
  BY <1>2 DEF IInv, Coherent, EnactedComplete, NumbersFollow, OneInForce, Published
<1>11. NoGap'
  BY <1>2, SameNumbers DEF IInv, Coherent
<1>12. RulesExist' /\ BatchesKeepRules'
  BY <1>2, <1>4, <1>5, <1>6, <1>8 DEF IInv, Coherent, RulesExist, BatchesKeepRules
<1>13. LocksHold' /\ LocksExclude'
  BY <1>2, <1>3, AwayIs DEF IInv, LocksHold, LocksExclude
<1>14. ASSUME NEW b \in Users
       PROVE  Past(session'[b].view, version')
  BY <1>2, <1>3, AwayIs DEF IInv
<1> QED
  BY <1>9, <1>10, <1>11, <1>12, <1>13, <1>14 DEF IInv, Coherent

-------------------------------------------------------------------------------
(* Theorems.                                                               *)

(* There are no versions, batches or requests at first.                    *)
LEMMA InitInv == Init => IInv
<1> SUFFICES ASSUME Init
             PROVE  IInv
  OBVIOUS
<1>1. /\ Away \in Session
      /\ Away.pc = "away"
      /\ Away.locked = NoValue
      /\ Away.view = <<>>
  BY DEF Away, Session
<1>2. /\ DOMAIN version = {}
      /\ DOMAIN batch = {}
      /\ Published(version) = {}
      /\ \A s : NumbersOf(version, s) = {} /\ IndicesOf(version, s) = {}
  BY DEF Init, Published, NumbersOf, IndicesOf
<1>3. TypeOK
  BY <1>1 DEF Init, TypeOK
<1>4. 1..0 = {} /\ 0 \in Nat
  OBVIOUS
<1>5. NoGap
  BY <1>2, <1>4, FS_EmptySet DEF NoGap
<1>6. EnactedComplete /\ NumbersFollow /\ RulesExist /\ BatchesKeepRules
  BY <1>2 DEF EnactedComplete, NumbersFollow, RulesExist, BatchesKeepRules
<1>7. OneInForce
  BY <1>2 DEF OneInForce
<1>8. LocksHold /\ LocksExclude
  BY <1>1 DEF Init, LocksHold, LocksExclude
<1>9. Past(<<>>, version)
  <2>1. version = <<>>
    BY DEF Init
  <2>2. \A s \in Sets : \E m \in Nat : NumbersOf(version, s) = 1..m
    BY <1>2, <1>4
  <2> QED
    BY <1>2, <2>1, <2>2 DEF Past
<1>10. \A u \in Users : Past(session[u].view, version)
  BY <1>1, <1>9 DEF Init
<1> QED
  BY <1>3, <1>5, <1>6, <1>7, <1>8, <1>10 DEF IInv, Coherent

(* Every request keeps the invariant.                                      *)
LEMMA NextInv == IInv /\ [Next]_vars => IInv'
<1> SUFFICES ASSUME IInv, [Next]_vars
             PROVE  IInv'
  OBVIOUS
<1>1. ASSUME NEW u \in Users, Request(u)
      PROVE  IInv'
  <2>1. CASE \/ \E s \in Sets : DraftCollides(u, s)
             \/ DeadlockVictim(u)
             \/ Refuse(u)
    BY <2>1, AnswerStep DEF DraftCollides, DeadlockVictim, Refuse
  <2> QED
    BY <1>1, <2>1, OpenStep, CreateDraftStep, UpdateDraftStep, RetireStep,
       LockDraftStep, PublishStep, EnqueueStep DEF Request
<1>2. CASE UNCHANGED vars
  <2>1. /\ version' = version
        /\ batch' = batch
        /\ session' = session
    BY <1>2 DEF vars
  <2>2. NoGap'
    BY <2>1, SameNumbers DEF IInv, Coherent
  <2>3. TypeOK' /\ EnactedComplete' /\ NumbersFollow' /\ RulesExist' /\ BatchesKeepRules'
    BY <2>1 DEF IInv, Coherent, TypeOK, EnactedComplete, NumbersFollow, RulesExist,
       BatchesKeepRules
  <2>4. OneInForce' /\ LocksHold' /\ LocksExclude'
    BY <2>1 DEF IInv, OneInForce, Published, LocksHold, LocksExclude
  <2>5. \A u \in Users : Past(session'[u].view, version')
    BY <2>1 DEF IInv
  <2> QED
    BY <2>2, <2>3, <2>4, <2>5 DEF IInv, Coherent
<1> QED
  BY <1>1, <1>2 DEF Next

(* The inductive invariant: publishers hold complete drafts, each its own,  *)
(* and a snapshot is a past of the table.                                  *)
THEOREM RulesInvariance == Spec => []IInv
BY InitInv, NextInv, PTL DEF Spec

(* Versions, batches and requests keep their shapes.                       *)
THEOREM RulesTypes == Spec => []TypeOK
<1>1. IInv => TypeOK
  BY DEF IInv
<1> QED
  BY <1>1, RulesInvariance, PTL

(* The versions of a set are numbered 1, 2, 3, ... in the order in which    *)
(* they were drafted, for any number of drafters with old snapshots.       *)
THEOREM NumbersHaveNoGap == Spec => []NumbersFollow
<1>1. IInv => NumbersFollow
  BY DEF IInv, Coherent
<1> QED
  BY <1>1, RulesInvariance, PTL

(* A batch copied what its rule version says to this day, a version that    *)
(* was complete and in force, whatever was edited, published or retired    *)
(* since its snapshot.                                                     *)
THEOREM BatchesStayTrue == Spec => []BatchesKeepRules
<1>1. IInv => BatchesKeepRules
  BY DEF IInv, Coherent
<1> QED
  BY <1>1, RulesInvariance, PTL

-------------------------------------------------------------------------------
(* The refinement of RuleBook.                                             *)

EnactedOf(v) == {i \in DOMAIN v : v[i].status # "draft"}

(* Steps that enact nothing and repeal nothing are the book's stutters.     *)
LEMMA BookStutters ==
  ASSUME Published(version') = Published(version),
         EnactedOf(version') = EnactedOf(version),
         \A i \in EnactedOf(version) : version'[i].content = version[i].content
  PROVE  UNCHANGED Book!vars
BY DEF Book!vars, EnactedOf

(* A step that leaves the versions alone stutters.                         *)
LEMMA BookUnchanged ==
  ASSUME version' = version
  PROVE  UNCHANGED Book!vars
BY DEF Book!vars, Published

(* The book does not see drafts,                                           *)
LEMMA CreateDraftStutters ==
  ASSUME IInv, NEW u \in Users, NEW s \in Sets, CreateDraft(u, s)
  PROVE  UNCHANGED Book!vars
<1>1. PICK c \in Contents :
        version' = Append(version, [set |-> s, number |-> NextNumber(u, s),
                                    content |-> c, status |-> "draft"])
  BY DEF CreateDraft
<1>2. version \in Seq(Version)
  BY DEF IInv, TypeOK
<1>3. /\ DOMAIN version \subseteq DOMAIN version'
      /\ \A i \in DOMAIN version : version'[i] = version[i]
      /\ \A i \in DOMAIN version' \ DOMAIN version : version'[i].status = "draft"
  BY <1>1, <1>2
<1>4. Published(version') = Published(version)
  BY <1>3 DEF Published
<1>5. EnactedOf(version') = EnactedOf(version)
  BY <1>3 DEF EnactedOf
<1> QED
  BY <1>3, <1>4, <1>5, BookStutters DEF EnactedOf

(* nor what is changed in them.                                            *)
LEMMA UpdateDraftStutters ==
  ASSUME IInv, NEW u \in Users, NEW i \in DOMAIN version, UpdateDraft(u, i)
  PROVE  UNCHANGED Book!vars
<1>1. PICK c \in Contents : version' = [version EXCEPT ![i].content = c]
  BY DEF UpdateDraft
<1>2. version \in Seq(Version) /\ version[i] \in Version /\ version[i].status = "draft"
  BY DEF IInv, TypeOK, UpdateDraft, Editable
<1>3. /\ DOMAIN version' = DOMAIN version
      /\ \A j \in DOMAIN version \ {i} : version'[j] = version[j]
      /\ version'[i].status = "draft"
  BY <1>1, <1>2 DEF Version
<1>4. Published(version') = Published(version)
  BY <1>2, <1>3 DEF Published
<1>5. EnactedOf(version') = EnactedOf(version)
  BY <1>2, <1>3 DEF EnactedOf
<1> QED
  BY <1>2, <1>3, <1>4, <1>5, BookStutters DEF EnactedOf

(* Retirement repeals the version in force.                                *)
LEMMA RetireRepeals ==
  ASSUME IInv, NEW u \in Users, NEW i \in DOMAIN version, Retire(u, i)
  PROVE  Book!Repeal
<1>1. version \in Seq(Version) /\ version[i] \in Version /\ version[i].status = "published"
  BY DEF IInv, TypeOK, Retire
<1>2. /\ DOMAIN version' = DOMAIN version
      /\ \A j \in DOMAIN version \ {i} : version'[j] = version[j]
      /\ version'[i].content = version[i].content
      /\ version'[i].status = "retired"
  BY <1>1 DEF Retire, Version
<1>3. i \in Published(version) /\ \A j \in Published(version) : j = i
  BY <1>1 DEF IInv, OneInForce, Published
<1>4. Published(version') = {}
  BY <1>2, <1>3 DEF Published
<1>5. EnactedOf(version') = EnactedOf(version)
  BY <1>1, <1>2 DEF EnactedOf
<1>6. \A j \in EnactedOf(version) : version'[j].content = version[j].content
  BY <1>2 DEF EnactedOf
<1> QED
  BY <1>3, <1>4, <1>5, <1>6 DEF Book!Repeal, EnactedOf

(* A publication enacts its draft in place of all others.                  *)
LEMMA PublishEnacts ==
  ASSUME IInv, NEW u \in Users, Publish(u)
  PROVE  Book!Next
<1> DEFINE k == session[u].locked
           c == version'[k].content
           old == [i \in EnactedOf(version) |-> version[i].content]
           new == [i \in EnactedOf(version') |-> version'[i].content]
<1>1. /\ DOMAIN version' = DOMAIN version
      /\ k \in DOMAIN version
      /\ version[k].status = "draft"
      /\ Published(version') = {k}
      /\ \A i \in DOMAIN version : Rewritten(i)
  BY PublishedRows
<1>2. \A i \in DOMAIN version \ {k} :
        version'[i].status = "draft" <=> version[i].status = "draft"
  BY DEF Publish, InForce, Published
<1>3. version'[k].status # "draft"
  BY <1>1 DEF Published
<1>4. EnactedOf(version') = EnactedOf(version) \cup {k}
  BY <1>1, <1>2, <1>3 DEF EnactedOf
<1>5. k \notin EnactedOf(version)
  BY <1>1 DEF EnactedOf
<1>6. \A i \in EnactedOf(version) : version'[i].content = version[i].content
  BY <1>1 DEF EnactedOf, Rewritten
<1>7. c \in Contents
  BY <1>1, <1>3, CompleteAssumption DEF Rewritten
<1> HIDE DEF k, c
<1>8. new = [w \in DOMAIN old \cup {k} |-> IF w = k THEN c ELSE old[w]]
  BY <1>4, <1>5, <1>6 DEF c
<1>9. k \notin DOMAIN old /\ k \in DOMAIN new
  BY <1>4, <1>5
<1> QED
  BY <1>1, <1>7, <1>8, <1>9 DEF Book!Next, Book!Enact, EnactedOf

(* Seen from the outside the rules are a book with at most one version in   *)
(* force whose enacted pages never change: drafts are not seen, a           *)
(* publication enacts one version in the place of another, for any number   *)
(* of publishers that cross each other.                                    *)
THEOREM RulesImplementBook == Spec => OneRuleInForce
<1>1. Init => Book!Init
  BY DEF Init, Book!Init, Published
<1>2. IInv /\ [Next]_vars => [Book!Next]_(Book!vars)
  <2> SUFFICES ASSUME IInv, [Next]_vars
               PROVE  Book!Next \/ UNCHANGED Book!vars
    BY DEF Book!vars
  <2>1. ASSUME NEW u \in Users, Request(u)
        PROVE  Book!Next \/ UNCHANGED Book!vars
    <3>1. CASE version' = version
      BY <3>1, BookUnchanged
    <3>2. CASE \E i \in DOMAIN version : Retire(u, i)
      BY <3>2, RetireRepeals DEF Book!Next
    <3> QED
      BY <2>1, <3>1, <3>2, CreateDraftStutters, UpdateDraftStutters, PublishEnacts
      DEF Request, Open, DraftCollides, LockDraft, DeadlockVictim, Enqueue, Refuse
  <2>2. CASE UNCHANGED vars
    BY <2>2, BookUnchanged DEF vars
  <2> QED
    BY <2>1, <2>2 DEF Next
<1> QED
  BY <1>1, <1>2, RulesInvariance, PTL DEF Spec, OneRuleInForce, Book!Spec
===============================================================================
