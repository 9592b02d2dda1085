-------------------------- MODULE Authoring_proofs --------------------------
(***************************************************************************)
(* Theorems about the content of a test (Authoring), for any number of     *)
(* requests, questions, edits, sections and bank items.                    *)
(***************************************************************************)
EXTENDS Authoring, FiniteSetTheorems, SequenceTheorems, WellFoundedInduction, TLAPS

(* A request that will write to a question knows one that was there, and a *)
(* section it has looked up was there.                                     *)
CallsKnow ==
    \A r \in Request : call[r].op = "edit" =>
        /\ call[r].of \in DOMAIN question
        /\ call[r].new.section \in 0 .. Len(section)

(* Every revision has its edit, and an edit of the section gave one that   *)
(* was there: no section added later has its id.                           *)
EditsKnown ==
    \A q \in DOMAIN history :
        /\ Len(ghost.made[q]) = Len(history[q])
        /\ \A i \in DOMAIN history[q] :
              "section" \in DOMAIN history[q][i] =>
                  ghost.made[q][i].to.section \in 0 .. Len(section)

(* The two parts of StructureIsSound.                                      *)
Links ==
    \A q \in QuestionsHere \ ghost.crossed :
        /\ question[q].now.section \in SectionsHere \cup {0}
        /\ question[q].item \in ItemsHere \cup {0}
Places ==
    \A s, t \in SectionsHere :
        s # t /\ ~ghost.mixed => section[s].order # section[t].order

IInv ==
    /\ TypeOK /\ CallsKnow /\ EditsKnown
    /\ HistoryIsTrue /\ Links /\ Places

-----------------------------------------------------------------------------
(* What the types say.                                                     *)

LEMMA Rows ==
    ASSUME TypeOK
    PROVE  /\ question \in Seq(Question) /\ Len(question) \in Nat
           /\ DOMAIN question = 1 .. Len(question)
           /\ \A q \in DOMAIN question : question[q] \in Question
           /\ section \in Seq(Section) /\ Len(section) \in Nat
           /\ DOMAIN section = 1 .. Len(section)
           /\ \A s \in DOMAIN section : section[s] \in Section
           /\ item \in Seq(BOOLEAN) /\ Len(item) \in Nat /\ DOMAIN item = 1 .. Len(item)
<1>1. question \in Seq(Question) /\ section \in Seq(Section) /\ item \in Seq(BOOLEAN)
    BY DEF TypeOK
<1>2. /\ Len(question) \in Nat /\ DOMAIN question = 1 .. Len(question)
      /\ Len(section) \in Nat /\ DOMAIN section = 1 .. Len(section)
      /\ Len(item) \in Nat /\ DOMAIN item = 1 .. Len(item)
    BY <1>1, LenProperties
<1>3. \A q \in 1 .. Len(question) : question[q] \in Question
    BY <1>1, ElementOfSeq
<1>4. \A s \in 1 .. Len(section) : section[s] \in Section
    BY <1>1, ElementOfSeq
<1> QED
    BY <1>1, <1>2, <1>3, <1>4

LEMMA Past ==
    ASSUME TypeOK
    PROVE  /\ history \in Seq(Seq(Revision)) /\ DOMAIN history = DOMAIN question
           /\ Len(history) = Len(question)
           /\ ghost.made \in Seq(Seq(Edit)) /\ DOMAIN ghost.made = DOMAIN question
           /\ Len(ghost.made) = Len(question)
           /\ \A q \in DOMAIN question :
                 /\ history[q] \in Seq(Revision) /\ ghost.made[q] \in Seq(Edit)
                 /\ Len(history[q]) \in Nat /\ DOMAIN history[q] = 1 .. Len(history[q])
                 /\ Len(ghost.made[q]) \in Nat
                 /\ DOMAIN ghost.made[q] = 1 .. Len(ghost.made[q])
                 /\ \A i \in DOMAIN history[q] :
                       history[q][i] \in Revision /\ DOMAIN history[q][i] \subseteq Field
                 /\ \A i \in DOMAIN ghost.made[q] : ghost.made[q][i] \in Edit
<1>1. /\ history \in Seq(Seq(Revision)) /\ ghost.made \in Seq(Seq(Edit))
      /\ Len(history) = Len(question) /\ Len(ghost.made) = Len(question)
    BY DEF TypeOK
<1>2. /\ DOMAIN question = 1 .. Len(question) /\ DOMAIN history = DOMAIN question
      /\ DOMAIN ghost.made = DOMAIN question
    BY <1>1, Rows, LenProperties
<1>3. ASSUME NEW q \in DOMAIN question
      PROVE  /\ history[q] \in Seq(Revision) /\ ghost.made[q] \in Seq(Edit)
             /\ Len(history[q]) \in Nat /\ DOMAIN history[q] = 1 .. Len(history[q])
             /\ Len(ghost.made[q]) \in Nat
             /\ DOMAIN ghost.made[q] = 1 .. Len(ghost.made[q])
             /\ \A i \in DOMAIN history[q] :
                   history[q][i] \in Revision /\ DOMAIN history[q][i] \subseteq Field
             /\ \A i \in DOMAIN ghost.made[q] : ghost.made[q][i] \in Edit
    <2>1. history[q] \in Seq(Revision) /\ ghost.made[q] \in Seq(Edit)
        BY <1>1, <1>2, ElementOfSeq
    <2>2. /\ Len(history[q]) \in Nat /\ DOMAIN history[q] = 1 .. Len(history[q])
          /\ Len(ghost.made[q]) \in Nat
          /\ DOMAIN ghost.made[q] = 1 .. Len(ghost.made[q])
        BY <2>1, LenProperties
    <2>3. /\ \A i \in 1 .. Len(history[q]) : history[q][i] \in Revision
          /\ \A i \in 1 .. Len(ghost.made[q]) : ghost.made[q][i] \in Edit
        BY <2>1, ElementOfSeq
    <2>4. \A r \in Revision : DOMAIN r \subseteq Field
        BY DEF Revision, Content, Field
    <2> QED
        BY <2>1, <2>2, <2>3, <2>4
<1> QED
    BY <1>1, <1>2, <1>3

LEMMA Counters ==
    ASSUME TypeOK
    PROVE  /\ ghost.crossed \in SUBSET DOMAIN question /\ ghost.mixed \in BOOLEAN
           /\ ghost.calls \in 0 .. MaxCalls /\ MaxCalls \in Nat
           /\ ghost.calls < MaxCalls => ghost.calls + 1 \in 0 .. MaxCalls
           /\ ghost = [made |-> ghost.made, crossed |-> ghost.crossed,
                       mixed |-> ghost.mixed, calls |-> ghost.calls]
BY BoundAssumption DEF TypeOK

LEMMA Holds ==
    ASSUME TypeOK, NEW r \in Request
    PROVE  /\ call[r].op # "idle" => call[r] # Idle
           /\ call[r].op = "add" => call[r].text \in Value /\ call[r].section \in Nat
           /\ call[r].op = "pick" => call[r].text \in Value /\ call[r].item \in Nat
           /\ call[r].op = "edit" => call[r].of \in Nat
                                     /\ call[r].old \in Content /\ call[r].new \in Content
           /\ call[r].op = "section" => call[r].order \in Nat
           /\ call[r].op = "reorder" => call[r].list \in Seq(Nat)
<1>1. call[r] \in {Idle} \cup Loaded
    BY DEF TypeOK
<1> QED
    BY <1>1 DEF Idle, Loaded

(* The types of the next state, from those of its parts.                   *)
LEMMA TypesHold ==
    ASSUME NEW M \in Seq(Seq(Edit)), NEW X \in SUBSET DOMAIN question',
           NEW B \in BOOLEAN, NEW K \in 0 .. MaxCalls,
           ghost' = [made |-> M, crossed |-> X, mixed |-> B, calls |-> K],
           question' \in Seq(Question), history' \in Seq(Seq(Revision)),
           Len(history') = Len(question'), Len(M) = Len(question'),
           section' \in Seq(Section), item' \in Seq(BOOLEAN),
           call' \in [Request -> {Idle} \cup Loaded]
    PROVE  TypeOK'
BY DEF TypeOK

(* A finite set of numbers has a least and a greatest one.                 *)
LEMMA Greatest ==
    ASSUME NEW S, S \subseteq Nat, IsFiniteSet(S), S # {}
    PROVE  Max(S) \in S /\ \A y \in S : y <= Max(S)
<1> DEFINE Above(x) == {y \in S : x < y}
           T == {Above(x) : x \in S}
<1>1. T \subseteq FiniteSubsetsOf(S) /\ T # {}
    <2>1. T \subseteq SUBSET S /\ T # {}
        OBVIOUS
    <2>2. FiniteSubsetsOf(S) = SUBSET S
        BY FS_FiniteSubsetsOfFinite
    <2> QED
        BY <2>1, <2>2
<1>2. PICK t \in T : \A u \in T : ~(<<u, t>> \in StrictSubsetOrdering(S))
    <2> HIDE DEF T
    <2>1. IsWellFoundedOn(StrictSubsetOrdering(S), FiniteSubsetsOf(S))
        BY FS_StrictSubsetOrderingWellFounded
    <2> QED
        BY <1>1, <2>1, WFMin
<1>3. PICK x \in S : t = Above(x)
    OBVIOUS
<1>4. \A y \in S : y <= x
    <2> SUFFICES ASSUME NEW y \in S, x < y
                 PROVE  FALSE
        OBVIOUS
    <2>1. Above(y) \subseteq Above(x) /\ y \in Above(x) /\ y \notin Above(y)
        <3>1. \A z \in S : z \in Int
            OBVIOUS
        <3>2. \A z \in S : y < z => x < z
            BY <3>1
        <3>3. ~(y < y)
            BY <3>1
        <3> QED
            BY <3>2, <3>3
    <2>2. <<Above(y), Above(x)>> \in StrictSubsetOrdering(S)
        BY <2>1 DEF StrictSubsetOrdering
    <2> QED
        BY <1>2, <1>3, <2>2, Above(y) \in T
<1> QED
    BY <1>3, <1>4 DEF Max

LEMMA Least ==
    ASSUME NEW S, S \subseteq Nat, IsFiniteSet(S), S # {}
    PROVE  Min(S) \in S /\ \A y \in S : Min(S) <= y
<1> DEFINE Below(x) == {y \in S : y < x}
           T == {Below(x) : x \in S}
<1>1. T \subseteq FiniteSubsetsOf(S) /\ T # {}
    <2>1. T \subseteq SUBSET S /\ T # {}
        OBVIOUS
    <2>2. FiniteSubsetsOf(S) = SUBSET S
        BY FS_FiniteSubsetsOfFinite
    <2> QED
        BY <2>1, <2>2
<1>2. PICK t \in T : \A u \in T : ~(<<u, t>> \in StrictSubsetOrdering(S))
    <2> HIDE DEF T
    <2>1. IsWellFoundedOn(StrictSubsetOrdering(S), FiniteSubsetsOf(S))
        BY FS_StrictSubsetOrderingWellFounded
    <2> QED
        BY <1>1, <2>1, WFMin
<1>3. PICK x \in S : t = Below(x)
    OBVIOUS
<1>4. \A y \in S : x <= y
    <2> SUFFICES ASSUME NEW y \in S, y < x
                 PROVE  FALSE
        OBVIOUS
    <2>1. Below(y) \subseteq Below(x) /\ y \in Below(x) /\ y \notin Below(y)
        <3>1. \A z \in S : z \in Int
            OBVIOUS
        <3>2. \A z \in S : z < y => z < x
            BY <3>1
        <3>3. ~(y < y)
            BY <3>1
        <3> QED
            BY <3>2, <3>3
    <2>2. <<Below(y), Below(x)>> \in StrictSubsetOrdering(S)
        BY <2>1 DEF StrictSubsetOrdering
    <2> QED
        BY <1>2, <1>3, <2>2, Below(y) \in T
<1> QED
    BY <1>3, <1>4 DEF Min

(* Where a field is next told of, in a history and in a longer one.        *)
LEMMA SameLeast ==
    ASSUME NEW S, NEW T, S \subseteq Nat, IsFiniteSet(S), S # {},
           S \subseteq T, T \subseteq Nat, \A y \in T : y \in S \/ \A x \in S : x <= y
    PROVE  Min(T) = Min(S)
<1>1. Min(S) \in S /\ \A y \in S : Min(S) <= y
    BY Least
<1>2. Min(S) \in T /\ \A y \in T : Min(S) <= y
    BY <1>1
<1>3. ASSUME NEW x \in T, \A y \in T : x <= y
      PROVE  x = Min(S)
    <2>1. x <= Min(S) /\ Min(S) <= x
        BY <1>2, <1>3
    <2>2. x \in Nat /\ Min(S) \in Nat
        BY <1>2, <1>3
    <2> QED
        BY <2>1, <2>2
<1> QED
    BY <1>2, <1>3 DEF Min

-----------------------------------------------------------------------------
(* What a step leaves alone stays true.                                    *)

(* The history of a question stays true when it is not written, its text   *)
(* is not written and its section at most cleared as it is deleted.        *)
LEMMA HistoryKept ==
    ASSUME TypeOK, EditsKnown, HistoryIsTrue,
           \A q \in QuestionsHere' :
              \/ history'[q] = <<>>
              \/ /\ q \in QuestionsHere
                 /\ history'[q] = history[q] /\ ghost'.made[q] = ghost.made[q]
                 /\ question'[q].now \in Content
                 /\ question'[q].now.text = question[q].now.text
                 /\ \/ question'[q].now.section = question[q].now.section
                    \/ /\ question'[q].now.section = 0
                       /\ question[q].now.section \notin SectionsHere' \cup {0},
           \A s \in 0 .. Len(section) : s \notin SectionsHere \cup {0} => s \notin SectionsHere'
    PROVE  HistoryIsTrue'
<1>1. ASSUME NEW q \in QuestionsHere', NEW i \in DOMAIN history'[q],
             NEW f \in DOMAIN history'[q][i]
      PROVE  /\ f \notin ghost'.made[q][i].stale => history'[q][i][f] = ghost'.made[q][i].from[f]
             /\ \/ After(q, i, f)' = ghost'.made[q][i].to[f]
                \/ /\ f = "section" /\ ghost'.made[q][i].to[f] \notin SectionsHere' \cup {0}
                   /\ After(q, i, f)' = 0
                \/ \E j \in DOMAIN history'[q] : j > i /\ f \in ghost'.made[q][j].stale
    <2> DEFINE edit == ghost.made[q][i]
               later == {j \in DOMAIN history[q] : j > i /\ f \in DOMAIN history[q][j]}
    <2>1. /\ q \in QuestionsHere
          /\ history'[q] = history[q] /\ ghost'.made[q] = ghost.made[q]
          /\ question'[q].now \in Content
          /\ question'[q].now.text = question[q].now.text
          /\ \/ question'[q].now.section = question[q].now.section
             \/ /\ question'[q].now.section = 0
                /\ question[q].now.section \notin SectionsHere' \cup {0}
        <3>1. history'[q] # <<>>
            OBVIOUS
        <3> QED
            BY <3>1
    <2>2. q \in DOMAIN question /\ question[q].now \in Content
        BY <2>1, Rows DEF QuestionsHere, Question
    <2>3. i \in DOMAIN history[q] /\ f \in DOMAIN history[q][i] /\ f \in Field
        BY <2>1, <2>2, Past
    <2>4. /\ f \notin edit.stale => history[q][i][f] = edit.from[f]
          /\ \/ After(q, i, f) = edit.to[f]
             \/ /\ f = "section" /\ edit.to[f] \notin SectionsHere \cup {0} /\ After(q, i, f) = 0
             \/ \E j \in DOMAIN history[q] : j > i /\ f \in ghost.made[q][j].stale
        BY <2>1, <2>3 DEF HistoryIsTrue
    <2>5. f = "section" => edit.to[f] \in 0 .. Len(section)
        BY <2>2, <2>3, Past DEF EditsKnown
    <2>6. f = "section" /\ edit.to[f] \notin SectionsHere \cup {0} => edit.to[f] \notin SectionsHere'
        BY <2>5
    <2>7. /\ After(q, i, f) = IF later = {} THEN question[q].now[f] ELSE history[q][Min(later)][f]
          /\ After(q, i, f)' = IF later = {} THEN question'[q].now[f] ELSE history[q][Min(later)][f]
        BY <2>1 DEF After
    <2> HIDE DEF later
    <2>8. \/ After(q, i, f)' = After(q, i, f)
          \/ /\ f = "section" /\ After(q, i, f)' = 0
             /\ After(q, i, f) \notin SectionsHere' \cup {0}
        <3>1. CASE later # {}
            BY <2>7, <3>1
        <3>2. CASE later = {} /\ f = "text"
            BY <2>1, <2>2, <2>7, <3>2
        <3>3. CASE later = {} /\ f = "section"
            BY <2>1, <2>2, <2>7, <3>3
        <3> QED
            BY <2>3, <3>1, <3>2, <3>3 DEF Field
    <2>9. \/ After(q, i, f)' = edit.to[f]
          \/ /\ f = "section" /\ edit.to[f] \notin SectionsHere' \cup {0} /\ After(q, i, f)' = 0
          \/ \E j \in DOMAIN history[q] : j > i /\ f \in ghost.made[q][j].stale
        BY <2>4, <2>6, <2>8
    <2> QED
        BY <2>1, <2>4, <2>9
<1> QED
    BY <1>1 DEF HistoryIsTrue

LEMMA EditsKept ==
    ASSUME TypeOK, EditsKnown, Len(section') \in Nat, Len(section) <= Len(section'),
           \A q \in DOMAIN history' :
              \/ history'[q] = <<>> /\ ghost'.made[q] = <<>>
              \/ q \in DOMAIN history /\ history'[q] = history[q] /\ ghost'.made[q] = ghost.made[q]
    PROVE  EditsKnown'
<1>1. ASSUME NEW q \in DOMAIN history'
      PROVE  /\ Len(ghost'.made[q]) = Len(history'[q])
             /\ \A i \in DOMAIN history'[q] :
                   "section" \in DOMAIN history'[q][i] =>
                       ghost'.made[q][i].to.section \in 0 .. Len(section')
    <2>1. CASE history'[q] = <<>> /\ ghost'.made[q] = <<>>
        BY <2>1
    <2>2. CASE q \in DOMAIN history /\ history'[q] = history[q] /\ ghost'.made[q] = ghost.made[q]
        <3>1. Len(section) \in Nat
            BY Rows
        <3>2. /\ Len(ghost.made[q]) = Len(history[q])
              /\ \A i \in DOMAIN history[q] :
                   "section" \in DOMAIN history[q][i] =>
                       ghost.made[q][i].to.section \in 0 .. Len(section)
            BY <2>2 DEF EditsKnown
        <3>3. \A n \in 0 .. Len(section) : n \in 0 .. Len(section')
            BY <3>1
        <3> QED
            BY <2>2, <3>2, <3>3
    <2> QED
        BY <1>1, <2>1, <2>2
<1> QED
    BY <1>1 DEF EditsKnown

LEMMA CallsKept ==
    ASSUME TypeOK, CallsKnow, Len(section') \in Nat, Len(section) <= Len(section'),
           DOMAIN question \subseteq DOMAIN question',
           \A r \in Request : \/ call'[r] = call[r]
                              \/ call'[r].op # "edit"
                              \/ /\ call'[r].of \in DOMAIN question'
                                 /\ call'[r].new.section \in 0 .. Len(section')
    PROVE  CallsKnow'
<1>1. Len(section) \in Nat /\ \A n \in 0 .. Len(section) : n \in 0 .. Len(section')
    <2>1. Len(section) \in Nat
        BY Rows
    <2> QED
        BY <2>1
<1> QED
    BY <1>1 DEF CallsKnow

LEMMA CallSet ==
    ASSUME TypeOK, NEW r \in Request, NEW c \in {Idle} \cup Loaded, call' = [call EXCEPT ![r] = c]
    PROVE  /\ call' \in [Request -> {Idle} \cup Loaded]
           /\ call'[r] = c /\ \A s \in Request \ {r} : call'[s] = call[s]
<1>1. call \in [Request -> {Idle} \cup Loaded]
    BY DEF TypeOK
<1> QED
    BY <1>1

(* A request that ends, or a step that is no request's.                    *)
LEMMA CallsEnd ==
    ASSUME TypeOK, CallsKnow, call' = call \/ \E r \in Request : call' = [call EXCEPT ![r] = Idle],
           Len(section') \in Nat, Len(section) <= Len(section'),
           DOMAIN question \subseteq DOMAIN question'
    PROVE  CallsKnow' /\ call' \in [Request -> {Idle} \cup Loaded]
<1>1. CASE call' = call
    <2>1. call' \in [Request -> {Idle} \cup Loaded]
        BY <1>1 DEF TypeOK
    <2>2. \A r \in Request : call'[r] = call[r]
        BY <1>1
    <2> QED
        BY <2>1, <2>2, CallsKept
<1>2. ASSUME NEW r \in Request, call' = [call EXCEPT ![r] = Idle]
      PROVE  CallsKnow' /\ call' \in [Request -> {Idle} \cup Loaded]
    <2>1. /\ call' \in [Request -> {Idle} \cup Loaded]
          /\ call'[r] = Idle /\ \A s \in Request \ {r} : call'[s] = call[s]
        BY <1>2, CallSet
    <2>2. Idle.op # "edit"
        BY DEF Idle
    <2>3. \A s \in Request : call'[s] = call[s] \/ call'[s].op # "edit"
        BY <2>1, <2>2
    <2> QED
        BY <2>1, <2>3, CallsKept
<1> QED
    BY <1>1, <1>2

LEMMA LinksKept ==
    ASSUME Links,
           \A q \in QuestionsHere' \ ghost'.crossed :
              \/ /\ q \in QuestionsHere \ ghost.crossed
                 /\ \/ question'[q].now.section = question[q].now.section
                    \/ question'[q].now.section = 0
                 /\ question'[q].item \in {question[q].item, 0}
              \/ /\ question'[q].now.section \in SectionsHere' \cup {0}
                 /\ question'[q].item \in ItemsHere' \cup {0},
           SectionsHere \subseteq SectionsHere', ItemsHere \subseteq ItemsHere'
    PROVE  Links'
BY DEF Links

LEMMA PlacesKept ==
    ASSUME Places, ghost'.mixed = ghost.mixed, SectionsHere' \subseteq SectionsHere,
           \A s \in SectionsHere' : section'[s].order = section[s].order
    PROVE  Places'
BY DEF Places

-----------------------------------------------------------------------------
(* A request that loads what it needs, or gives up.                        *)

LEMMA OrdersTyped ==
    ASSUME TypeOK, NEW list \in Orders
    PROVE  list \in Seq(Nat)
<1>1. SectionsHere \in SUBSET (1 .. Len(section)) /\ IsFiniteSet(1 .. Len(section))
    BY Rows, FS_Interval DEF SectionsHere
<1>2. Cardinality(SectionsHere) \in Nat
    BY <1>1, FS_Subset, FS_CardinalityType
<1>3. list \in [1 .. Cardinality(SectionsHere) -> Nat]
    <2>1. list \in [1 .. Cardinality(SectionsHere) -> SectionsHere]
        BY DEF Orders
    <2>2. SectionsHere \subseteq Nat
        BY <1>1, Rows
    <2> QED
        BY <2>1, <2>2
<1> QED
    BY <1>2, <1>3

LEMMA OrderTyped ==
    ASSUME TypeOK
    PROVE  /\ NextOrder \in Nat
           /\ \A s \in SectionsHere : section[s].order \in Nat /\ section[s].order < NextOrder
<1> DEFINE T == {section[s].order : s \in SectionsHere}
           f == [s \in SectionsHere |-> section[s].order]
<1>1. SectionsHere \in SUBSET (1 .. Len(section)) /\ IsFiniteSet(1 .. Len(section))
    BY Rows, FS_Interval DEF SectionsHere
<1>2. IsFiniteSet(SectionsHere) /\ \A s \in SectionsHere : section[s].order \in Nat
    <2>1. \A s \in SectionsHere : section[s].order \in Nat
        BY Rows DEF SectionsHere, Section
    <2> QED
        BY <1>1, <2>1, FS_Subset
<1>3. IsFiniteSet(T) /\ T \subseteq Nat
    <2>1. f \in Surjection(SectionsHere, T)
        BY DEF Surjection
    <2>2. IsFiniteSet(T)
        BY <1>2, <2>1, FS_Surjection
    <2> QED
        BY <1>2, <2>2
<1>4. CASE SectionsHere = {}
    BY <1>4 DEF NextOrder
<1>5. CASE SectionsHere # {}
    <2>1. T # {} /\ NextOrder = Max(T) + 1
        BY <1>5 DEF NextOrder
    <2>2. Max(T) \in Nat /\ \A s \in SectionsHere : section[s].order <= Max(T)
        <3>1. \A s \in SectionsHere : section[s].order \in T
            OBVIOUS
        <3> HIDE DEF T
        <3> QED
            BY <1>3, <2>1, <3>1, Greatest
    <2> HIDE DEF T
    <2>3. \A n \in Nat : n <= Max(T) => n < Max(T) + 1
        BY <2>2
    <2> QED
        BY <1>2, <2>1, <2>2, <2>3
<1> QED
    BY <1>4, <1>5

(* The requests that load: what they hold is what is there.                *)
Loads(r) ==
    \/ \E v \in Typed, s \in 0 .. MaxSections :
          LoadAdd(r, v, s) \/ \E q \in QuestionsHere : LoadEdit(r, q, v, s)
    \/ \E v \in Value, b \in ItemsHere : LoadPick(r, v, b)
    \/ LoadSection(r)
    \/ \E list \in Orders : OpenOrder(r, list)

LEMMA CheckedHere ==
    ASSUME TypeOK, NEW s
    PROVE  Checked(s) \in 0 .. Len(section) /\ Checked(s) \in Nat
<1>1. SectionsHere \subseteq 1 .. Len(section) /\ Len(section) \in Nat
    BY Rows DEF SectionsHere
<1>2. \A n \in 1 .. Len(section) : n \in 0 .. Len(section) /\ n \in Nat
    BY <1>1
<1>3. 0 \in 0 .. Len(section)
    BY <1>1
<1> QED
    BY <1>1, <1>2, <1>3 DEF Checked

LEMMA LoadStep ==
    ASSUME TypeOK, NEW r \in Request, Loads(r)
    PROVE  \E c \in Loaded :
              /\ Begin(r, c)
              /\ c.op = "edit" => c.of \in DOMAIN question /\ c.new.section \in 0 .. Len(section)
<1> DEFINE Goal(c) == /\ Begin(r, c)
                      /\ c.op = "edit" => /\ c.of \in DOMAIN question
                                          /\ c.new.section \in 0 .. Len(section)
<1>1. ASSUME NEW v \in Typed, NEW s \in 0 .. MaxSections, LoadAdd(r, v, s)
      PROVE  \E c \in Loaded : Goal(c)
    <2> DEFINE c == [op |-> "add", text |-> v, section |-> Checked(s)]
    <2>1. Begin(r, c) /\ v \in Value
        BY <1>1 DEF LoadAdd, Fit
    <2>2. c \in Loaded
        BY <2>1, CheckedHere DEF Loaded
    <2>3. c.op # "edit"
        OBVIOUS
    <2> HIDE DEF c
    <2> QED
        BY <2>1, <2>2, <2>3
<1>2. ASSUME NEW v \in Typed, NEW s \in 0 .. MaxSections, NEW q \in QuestionsHere,
             LoadEdit(r, q, v, s)
      PROVE  \E c \in Loaded : Goal(c)
    <2> DEFINE new == [text |-> v, section |-> Checked(s)]
               c == [op |-> "edit", of |-> q, old |-> question[q].now, new |-> new]
    <2>1. Begin(r, c) /\ v \in Value
        BY <1>2 DEF LoadEdit, Fit
    <2>2. q \in DOMAIN question /\ q \in Nat /\ question[q].now \in Content
        BY Rows DEF QuestionsHere, Question
    <2>3. new \in Content /\ new.section \in 0 .. Len(section)
        BY <2>1, CheckedHere DEF Content
    <2> HIDE DEF new
    <2>4. c \in Loaded
        BY <2>2, <2>3 DEF Loaded
    <2>5. c.of = q /\ c.new = new
        OBVIOUS
    <2> HIDE DEF c
    <2> QED
        BY <2>1, <2>2, <2>3, <2>4, <2>5
<1>3. ASSUME NEW v \in Value, NEW b \in ItemsHere, LoadPick(r, v, b)
      PROVE  \E c \in Loaded : Goal(c)
    <2> DEFINE c == [op |-> "pick", text |-> v, item |-> b]
    <2>1. Begin(r, c)
        BY <1>3 DEF LoadPick
    <2>2. b \in Nat
        BY Rows DEF ItemsHere
    <2>3. c \in Loaded /\ c.op # "edit"
        BY <2>2 DEF Loaded
    <2> HIDE DEF c
    <2> QED
        BY <2>1, <2>3
<1>4. CASE LoadSection(r)
    <2> DEFINE c == [op |-> "section", order |-> NextOrder]
    <2>1. Begin(r, c)
        BY <1>4 DEF LoadSection
    <2>2. c \in Loaded /\ c.op # "edit"
        BY OrderTyped DEF Loaded
    <2> HIDE DEF c
    <2> QED
        BY <2>1, <2>2
<1>5. ASSUME NEW list \in Orders, OpenOrder(r, list)
      PROVE  \E c \in Loaded : Goal(c)
    <2> DEFINE c == [op |-> "reorder", list |-> list]
    <2>1. Begin(r, c)
        BY <1>5 DEF OpenOrder
    <2>2. c \in Loaded /\ c.op # "edit"
        BY OrdersTyped DEF Loaded
    <2> HIDE DEF c
    <2> QED
        BY <2>1, <2>2
<1> QED
    BY <1>1, <1>2, <1>3, <1>4, <1>5 DEF Loads

LEMMA QuietStep ==
    ASSUME IInv, (\E r \in Request : Loads(r) \/ GiveUp(r)) \/ UNCHANGED vars
    PROVE  IInv'
<1>1. TypeOK /\ CallsKnow /\ EditsKnown /\ HistoryIsTrue /\ Links /\ Places
    BY DEF IInv
<1>2. /\ question' = question /\ history' = history /\ section' = section /\ item' = item
      /\ \/ ghost' = ghost
         \/ ghost.calls < MaxCalls /\ ghost' = [ghost EXCEPT !.calls = @ + 1]
      /\ CallsKnow' /\ call' \in [Request -> {Idle} \cup Loaded]
    <2>1. Len(section) \in Nat /\ Len(section) <= Len(section)
        BY <1>1, Rows
    <2>2. CASE (\E r \in Request : GiveUp(r)) \/ UNCHANGED vars
        <3>1. /\ question' = question /\ history' = history /\ section' = section
              /\ item' = item /\ ghost' = ghost
              /\ call' = call \/ \E r \in Request : call' = [call EXCEPT ![r] = Idle]
            BY <2>2 DEF GiveUp, Done, vars
        <3> QED
            BY <1>1, <2>1, <3>1, CallsEnd
    <2>3. ASSUME NEW r \in Request, Loads(r)
          PROVE  /\ question' = question /\ history' = history /\ section' = section
                 /\ item' = item
                 /\ ghost.calls < MaxCalls /\ ghost' = [ghost EXCEPT !.calls = @ + 1]
                 /\ CallsKnow' /\ call' \in [Request -> {Idle} \cup Loaded]
        <3>1. PICK c \in Loaded :
                 /\ Begin(r, c)
                 /\ c.op = "edit" => c.of \in DOMAIN question /\ c.new.section \in 0 .. Len(section)
            BY <1>1, <2>3, LoadStep
        <3>2. /\ question' = question /\ history' = history /\ section' = section /\ item' = item
              /\ ghost.calls < MaxCalls /\ ghost' = [ghost EXCEPT !.calls = @ + 1]
              /\ call' = [call EXCEPT ![r] = c]
            BY <3>1 DEF Begin, Arrives, Counted
        <3>3. /\ call' \in [Request -> {Idle} \cup Loaded]
              /\ call'[r] = c /\ \A s \in Request \ {r} : call'[s] = call[s]
            BY <1>1, <3>2, CallSet
        <3> QED
            BY <1>1, <2>1, <3>1, <3>2, <3>3, CallsKept
    <2> QED
        BY <2>2, <2>3
<1>3. /\ ghost'.made = ghost.made /\ ghost'.crossed = ghost.crossed
      /\ ghost'.mixed = ghost.mixed /\ ghost'.calls \in 0 .. MaxCalls
      /\ ghost' = [made |-> ghost.made, crossed |-> ghost.crossed,
                   mixed |-> ghost.mixed, calls |-> ghost'.calls]
    BY <1>1, <1>2, Counters
<1>4. TypeOK'
    BY <1>1, <1>2, <1>3, Counters, Past, Rows, TypesHold
<1>5. /\ QuestionsHere' = QuestionsHere /\ SectionsHere' = SectionsHere
      /\ ItemsHere' = ItemsHere
    BY <1>2 DEF QuestionsHere, SectionsHere, ItemsHere
<1>6. HistoryIsTrue'
    <2>1. \A q \in QuestionsHere : question[q].now \in Content
        BY <1>1, Rows DEF QuestionsHere, Question
    <2> QED
        BY <1>1, <1>2, <1>3, <1>5, <2>1, HistoryKept
<1>7. EditsKnown' /\ Links' /\ Places'
    BY <1>1, <1>2, <1>3, <1>5 DEF EditsKnown, Links, Places
<1> QED
    BY <1>2, <1>4, <1>6, <1>7 DEF IInv

-----------------------------------------------------------------------------
(* Questions.                                                              *)

(* What is gone stays gone, as long as no section is added.                *)
LEMMA StaysGone ==
    ASSUME SectionsHere' \subseteq SectionsHere
    PROVE  \A s \in 0 .. Len(section) : s \notin SectionsHere \cup {0} => s \notin SectionsHere'
OBVIOUS

LEMMA NowTyped ==
    ASSUME TypeOK
    PROVE  \A q \in QuestionsHere : q \in DOMAIN question /\ question[q] \in Question
                                    /\ question[q].now \in Content
BY Rows DEF QuestionsHere, Question

(* New questions come behind the others, with empty histories.             *)
LEMMA AddStep ==
    ASSUME IInv, NEW new \in Seq(Question), NEW g, Added(new, g),
           g = ghost \/ (Arrives /\ g = Counted(ghost)),
           call' = call \/ \E r \in Request : call' = [call EXCEPT ![r] = Idle],
           section' = section, item' = item
    PROVE  IInv'
<1> DEFINE n == Len(question)
           none == [i \in DOMAIN new |-> <<>>]
           bad == {n + i : i \in {j \in DOMAIN new :
                              \/ new[j].now.section \notin SectionsHere \cup {0}
                              \/ new[j].item \notin ItemsHere \cup {0}}}
<1>1. TypeOK /\ CallsKnow /\ EditsKnown /\ HistoryIsTrue /\ Links /\ Places
    BY DEF IInv
<1>2. /\ question' = question \o new /\ history' = history \o none
      /\ ghost' = [g EXCEPT !.made = @ \o none, !.crossed = @ \cup bad]
    BY DEF Added
<1>3. Len(new) \in Nat /\ DOMAIN new = 1 .. Len(new)
    BY LenProperties
<1>4. /\ none \in Seq(Seq(Revision)) /\ none \in Seq(Seq(Edit)) /\ Len(none) = Len(new)
      /\ \A i \in 1 .. Len(new) : none[i] = <<>>
    <2>1. none \in [1 .. Len(new) -> Seq(Revision)] /\ none \in [1 .. Len(new) -> Seq(Edit)]
        BY <1>3
    <2> QED
        BY <1>3, <2>1
<1> HIDE DEF none
<1>5. /\ question' \in Seq(Question) /\ Len(question') = n + Len(new)
      /\ DOMAIN question' = 1 .. n + Len(new) /\ n \in Nat
      /\ \A q \in 1 .. n + Len(new) : question'[q] = IF q <= n THEN question[q] ELSE new[q - n]
    <2>1. question \in Seq(Question) /\ n \in Nat
        BY <1>1, Rows
    <2>2. /\ question' \in Seq(Question) /\ Len(question') = n + Len(new)
          /\ \A q \in 1 .. n + Len(new) : question'[q] = IF q <= n THEN question[q] ELSE new[q - n]
        BY <1>2, <2>1, ConcatProperties
    <2> QED
        BY <2>1, <2>2, LenProperties
<1>6. /\ history' \in Seq(Seq(Revision)) /\ Len(history') = n + Len(new)
      /\ \A q \in 1 .. n + Len(new) : history'[q] = IF q <= n THEN history[q] ELSE <<>>
      /\ DOMAIN history' = 1 .. n + Len(new)
    <2>1. history \in Seq(Seq(Revision)) /\ Len(history) = n
        BY <1>1, Past
    <2>2. /\ history' \in Seq(Seq(Revision)) /\ Len(history') = n + Len(new)
          /\ \A q \in 1 .. n + Len(new) : history'[q] = IF q <= n THEN history[q] ELSE none[q - n]
        <3> DEFINE S == Seq(Revision)
        <3>1. history \in Seq(S) /\ none \in Seq(S)
            BY <1>4, <2>1
        <3> HIDE DEF S
        <3>2. /\ history \o none \in Seq(S)
              /\ Len(history \o none) = Len(history) + Len(none)
              /\ \A q \in 1 .. Len(history) + Len(none) :
                    (history \o none)[q] = IF q <= Len(history) THEN history[q]
                                           ELSE none[q - Len(history)]
            BY <3>1, ConcatProperties
        <3> HIDE DEF n
        <3> QED
            BY <1>2, <1>4, <2>1, <3>2 DEF S
    <2>3. \A q \in 1 .. n + Len(new) : ~(q <= n) => q - n \in 1 .. Len(new)
        BY <1>3, <1>5
    <2>4. DOMAIN history' = 1 .. n + Len(new)
        BY <2>2, LenProperties
    <2> QED
        BY <1>4, <2>2, <2>3, <2>4
<1> DEFINE made == ghost.made \o none
<1>7. /\ made \in Seq(Seq(Edit)) /\ Len(made) = n + Len(new)
      /\ \A q \in 1 .. n + Len(new) : made[q] = IF q <= n THEN ghost.made[q] ELSE <<>>
    <2>1. ghost.made \in Seq(Seq(Edit)) /\ Len(ghost.made) = n
        BY <1>1, Past
    <2>2. /\ made \in Seq(Seq(Edit)) /\ Len(made) = n + Len(new)
          /\ \A q \in 1 .. n + Len(new) : made[q] = IF q <= n THEN ghost.made[q] ELSE none[q - n]
        <3> DEFINE S == Seq(Edit)
        <3>1. ghost.made \in Seq(S) /\ none \in Seq(S)
            BY <1>4, <2>1
        <3> HIDE DEF S
        <3>2. /\ ghost.made \o none \in Seq(S)
              /\ Len(ghost.made \o none) = Len(ghost.made) + Len(none)
              /\ \A q \in 1 .. Len(ghost.made) + Len(none) :
                    (ghost.made \o none)[q] = IF q <= Len(ghost.made) THEN ghost.made[q]
                                              ELSE none[q - Len(ghost.made)]
            BY <3>1, ConcatProperties
        <3> HIDE DEF n
        <3> QED
            BY <1>4, <2>1, <3>2 DEF S
    <2>3. \A q \in 1 .. n + Len(new) : ~(q <= n) => q - n \in 1 .. Len(new)
        BY <1>3, <1>5
    <2> QED
        BY <1>4, <2>2, <2>3
<1>8. /\ ghost'.made = made /\ ghost'.crossed = ghost.crossed \cup bad
      /\ ghost'.mixed = ghost.mixed /\ ghost'.calls \in 0 .. MaxCalls
      /\ ghost' = [made |-> made, crossed |-> ghost.crossed \cup bad,
                   mixed |-> ghost.mixed, calls |-> ghost'.calls]
    <2>1. /\ g.made = ghost.made /\ g.crossed = ghost.crossed /\ g.mixed = ghost.mixed
          /\ g.calls \in 0 .. MaxCalls
          /\ g = [made |-> g.made, crossed |-> g.crossed, mixed |-> g.mixed, calls |-> g.calls]
        BY <1>1, Counters DEF Arrives, Counted
    <2> HIDE DEF bad
    <2> QED
        BY <1>2, <2>1
<1> HIDE DEF made
<1>9. bad \subseteq DOMAIN question' /\ ghost.crossed \subseteq DOMAIN question'
    <2>1. \A i \in 1 .. Len(new) : n + i \in 1 .. n + Len(new)
        BY <1>3, <1>5
    <2>2. \A i \in 1 .. n : i \in 1 .. n + Len(new)
        BY <1>3, <1>5
    <2>3. ghost.crossed \subseteq 1 .. n
        BY <1>1, Counters, Rows
    <2> QED
        BY <1>3, <1>5, <2>1, <2>2, <2>3
<1>10. CallsKnow' /\ call' \in [Request -> {Idle} \cup Loaded]
    <2>1. DOMAIN question \subseteq DOMAIN question'
        BY <1>1, <1>3, <1>5, Rows
    <2>2. Len(section') \in Nat /\ Len(section) <= Len(section')
        BY <1>1, Rows
    <2> QED
        BY <1>1, <2>1, <2>2, CallsEnd
<1>11. TypeOK'
    <2>1. ghost.crossed \cup bad \in SUBSET DOMAIN question'
        BY <1>9
    <2> HIDE DEF bad
    <2> QED
        BY <1>1, <1>5, <1>6, <1>7, <1>8, <1>10, <2>1, Counters, Rows, TypesHold
<1>12. EditsKnown'
    <2>1. \A q \in DOMAIN history' :
             \/ history'[q] = <<>> /\ ghost'.made[q] = <<>>
             \/ q \in DOMAIN history /\ history'[q] = history[q] /\ ghost'.made[q] = ghost.made[q]
        BY SMTT(40), <1>1, <1>5, <1>6, <1>7, <1>8, Past, Rows
    <2>2. Len(section') \in Nat /\ Len(section) <= Len(section')
        BY <1>1, Rows
    <2> QED
        BY <1>1, <2>1, <2>2, EditsKept
<1>13. SectionsHere' = SectionsHere /\ ItemsHere' = ItemsHere
    BY DEF SectionsHere, ItemsHere
<1>14. \A q \in QuestionsHere' :
          \/ q \in QuestionsHere /\ question'[q] = question[q] /\ history'[q] = history[q]
             /\ ghost'.made[q] = ghost.made[q]
          \/ q - n \in DOMAIN new /\ q = n + (q - n) /\ question'[q] = new[q - n]
             /\ history'[q] = <<>>
    <2>1. ASSUME NEW q \in QuestionsHere'
          PROVE  \/ q \in QuestionsHere /\ question'[q] = question[q] /\ history'[q] = history[q]
                    /\ ghost'.made[q] = ghost.made[q]
                 \/ q - n \in DOMAIN new /\ q = n + (q - n) /\ question'[q] = new[q - n]
                    /\ history'[q] = <<>>
        <3>1. q \in 1 .. n + Len(new) /\ question'[q].here
            BY <1>5 DEF QuestionsHere
        <3>2. CASE q <= n
            <4>1. q \in DOMAIN question
                BY <1>1, <1>5, <3>1, <3>2, Rows
            <4> QED
                BY <1>5, <1>6, <1>7, <1>8, <3>1, <3>2, <4>1 DEF QuestionsHere
        <3>3. CASE ~(q <= n)
            <4>1. q - n \in DOMAIN new /\ q = n + (q - n)
                BY <1>3, <1>5, <3>1, <3>3
            <4> QED
                BY <1>5, <1>6, <3>1, <3>3, <4>1
        <3> QED
            BY <3>2, <3>3
    <2> QED
        BY <2>1
<1>15. HistoryIsTrue'
    BY <1>1, <1>13, <1>14, HistoryKept, StaysGone, NowTyped
<1>16. Links'
    <2>1. ASSUME NEW q \in QuestionsHere' \ ghost'.crossed
          PROVE  \/ /\ q \in QuestionsHere \ ghost.crossed
                    /\ question'[q] = question[q]
                 \/ /\ question'[q].now.section \in SectionsHere \cup {0}
                    /\ question'[q].item \in ItemsHere \cup {0}
        <3>1. CASE q \in QuestionsHere /\ question'[q] = question[q]
            BY <1>8, <3>1
        <3>2. CASE q - n \in DOMAIN new /\ q = n + (q - n) /\ question'[q] = new[q - n]
            <4> DEFINE j == q - n
            <4>1. q \notin bad
                BY <1>8
            <4> HIDE DEF j
            <4>2. j \in DOMAIN new /\ q = n + j /\ question'[q] = new[j]
                BY <3>2 DEF j
            <4> QED
                BY <4>1, <4>2
        <3> QED
            BY <1>14, <3>1, <3>2
    <2> QED
        BY <1>1, <1>13, <2>1, LinksKept
<1>17. Places'
    BY <1>1, <1>8, <1>13, PlacesKept
<1> QED
    BY <1>10, <1>11, <1>12, <1>15, <1>16, <1>17 DEF IInv

(* The rows of a file become questions, or are left out.                   *)
LEMMA TakenTyped ==
    ASSUME NEW rows \in [1 .. 2 -> Typed]
    PROVE  Taken(rows) \in Seq(Question)
<1> DEFINE Row(i) == NewQuestion(rows[i], 0, 0)
           Upto(f) == [i \in 0 .. 2 |->
                          IF i = 0 THEN <<>>
                          ELSE IF Fit(rows[i]) THEN Append(f[i - 1], Row(i)) ELSE f[i - 1]]
           first == IF Fit(rows[1]) THEN Append(<<>>, Row(1)) ELSE <<>>
           second == IF Fit(rows[2]) THEN Append(first, Row(2)) ELSE first
           g == [i \in 0 .. 2 |-> IF i = 0 THEN <<>> ELSE IF i = 1 THEN first ELSE second]
<1>1. Len(rows) = 2
    OBVIOUS
<1>2. g = Upto(g)
    <2>1. g[0] = <<>> /\ g[1] = first /\ g[2] = second
        OBVIOUS
    <2>2. ASSUME NEW i \in 0 .. 2
          PROVE  g[i] = Upto(g)[i]
        <3>1. CASE i = 0
            BY <3>1
        <3>2. CASE i = 1
            BY <2>1, <3>2
        <3>3. CASE i = 2
            BY <2>1, <3>3
        <3> QED
            BY <3>1, <3>2, <3>3
    <2> QED
        BY <2>2
<1>3. Taken(rows) = (CHOOSE f : f = Upto(f))[2]
    BY <1>1 DEF Taken
<1> HIDE DEF Upto, g
<1>4. PICK f : f = Upto(f) /\ Taken(rows) = f[2]
    BY <1>2, <1>3
<1>5. \A i \in 1 .. 2 : Fit(rows[i]) => Row(i) \in Question
    BY DEF Fit, NewQuestion, Question, Content
<1> HIDE DEF Row
<1>6. f[0] = <<>> /\ f[1] = (IF Fit(rows[1]) THEN Append(f[0], Row(1)) ELSE f[0])
      /\ f[2] = (IF Fit(rows[2]) THEN Append(f[1], Row(2)) ELSE f[1])
    <2>1. f = [i \in 0 .. 2 |->
                  IF i = 0 THEN <<>>
                  ELSE IF Fit(rows[i]) THEN Append(f[i - 1], Row(i)) ELSE f[i - 1]]
        BY <1>4 DEF Upto
    <2>2. f[0] = <<>>
        BY <2>1
    <2>3. ASSUME NEW i \in 1 .. 2
          PROVE  f[i] = IF Fit(rows[i]) THEN Append(f[i - 1], Row(i)) ELSE f[i - 1]
        <3>1. i \in 0 .. 2 /\ i # 0
            OBVIOUS
        <3> QED
            BY <2>1, <3>1
    <2>4. 1 \in 1 .. 2 /\ 2 \in 1 .. 2 /\ 1 - 1 = 0 /\ 2 - 1 = 1
        OBVIOUS
    <2>5. f[1] = (IF Fit(rows[1]) THEN Append(f[1 - 1], Row(1)) ELSE f[1 - 1])
        BY <2>3, <2>4
    <2>6. f[2] = (IF Fit(rows[2]) THEN Append(f[2 - 1], Row(2)) ELSE f[2 - 1])
        BY <2>3, <2>4
    <2> QED
        BY <2>2, <2>4, <2>5, <2>6
<1>7. f[0] \in Seq(Question)
    BY <1>6
<1>8. f[1] \in Seq(Question)
    BY <1>5, <1>6, <1>7, AppendProperties
<1>9. f[2] \in Seq(Question)
    BY <1>5, <1>6, <1>8, AppendProperties
<1> QED
    BY <1>4, <1>9

LEMMA NewStep ==
    ASSUME IInv,
           \/ \E r \in Request : CommitAdd(r) \/ CommitPick(r)
           \/ \E rows \in [1 .. 2 -> Typed] : Import(rows)
    PROVE  IInv'
<1>1. TypeOK
    BY DEF IInv
<1>2. ASSUME NEW r \in Request, CommitAdd(r)
      PROVE  IInv'
    <2> DEFINE row == NewQuestion(call[r].text, call[r].section, 0)
    <2>1. row \in Question
        BY <1>1, <1>2, Holds DEF CommitAdd, NewQuestion, Question, Content
    <2>2. Added(<<row>>, ghost) /\ section' = section /\ item' = item
          /\ call' = [call EXCEPT ![r] = Idle]
        BY <1>2 DEF CommitAdd, Done
    <2> HIDE DEF row
    <2>3. <<row>> \in Seq(Question)
        BY <2>1
    <2> QED
        BY <2>2, <2>3, AddStep
<1>3. ASSUME NEW r \in Request, CommitPick(r)
      PROVE  IInv'
    <2> DEFINE row == NewQuestion(call[r].text, 0, call[r].item)
    <2>1. row \in Question
        BY <1>1, <1>3, Holds DEF CommitPick, NewQuestion, Question, Content
    <2>2. Added(<<row>>, ghost) /\ section' = section /\ item' = item
          /\ call' = [call EXCEPT ![r] = Idle]
        BY <1>3 DEF CommitPick, Done
    <2> HIDE DEF row
    <2>3. <<row>> \in Seq(Question)
        BY <2>1
    <2> QED
        BY <2>2, <2>3, AddStep
<1>4. ASSUME NEW rows \in [1 .. 2 -> Typed], Import(rows)
      PROVE  IInv'
    <2>1. Taken(rows) \in Seq(Question)
        BY TakenTyped
    <2>2. /\ Added(Taken(rows), Counted(ghost)) /\ Arrives
          /\ section' = section /\ item' = item /\ call' = call
        BY <1>4 DEF Import
    <2> QED
        BY <2>1, <2>2, AddStep
<1> QED
    BY <1>2, <1>3, <1>4

LEMMA QuestionWritten ==
    ASSUME TypeOK, NEW q \in DOMAIN question, NEW row \in Question,
           question' = [question EXCEPT ![q] = row]
    PROVE  /\ question' \in Seq(Question) /\ Len(question') = Len(question)
           /\ DOMAIN question' = DOMAIN question
           /\ \A p \in DOMAIN question : question'[p] = IF p = q THEN row ELSE question[p]
<1>1. question \in Seq(Question) /\ DOMAIN question = 1 .. Len(question)
    BY Rows
<1>2. question' \in Seq(Question) /\ Len(question') = Len(question)
      /\ \A p \in 1 .. Len(question) : question'[p] = IF p = q THEN row ELSE question[p]
    BY <1>1, ExceptSeq
<1>3. DOMAIN question' = 1 .. Len(question')
    BY <1>2, LenProperties
<1> QED
    BY <1>1, <1>2, <1>3

(* The past of one question is written.                                    *)
Writes(q, h, m, made) ==
    /\ q \in DOMAIN question /\ h \in Seq(Revision) /\ m \in Seq(Edit)
    /\ history' = [history EXCEPT ![q] = h]
    /\ made = [ghost.made EXCEPT ![q] = m]

LEMMA PastWritten ==
    ASSUME TypeOK, NEW q, NEW h, NEW m, NEW made, Writes(q, h, m, made)
    PROVE  /\ history' \in Seq(Seq(Revision)) /\ Len(history') = Len(question)
           /\ DOMAIN history' = DOMAIN question
           /\ \A p \in DOMAIN question : history'[p] = IF p = q THEN h ELSE history[p]
           /\ made \in Seq(Seq(Edit)) /\ Len(made) = Len(question)
           /\ \A p \in DOMAIN question : made[p] = IF p = q THEN m ELSE ghost.made[p]
<1>1. DOMAIN question = 1 .. Len(question)
    BY Rows
<1>w. /\ q \in DOMAIN question /\ h \in Seq(Revision) /\ m \in Seq(Edit)
      /\ history' = [history EXCEPT ![q] = h] /\ made = [ghost.made EXCEPT ![q] = m]
    BY DEF Writes
<1>2. /\ history' \in Seq(Seq(Revision)) /\ Len(history') = Len(question)
      /\ \A p \in DOMAIN question : history'[p] = IF p = q THEN h ELSE history[p]
    <2> DEFINE S == Seq(Revision)
    <2>1. history \in Seq(S) /\ h \in S /\ q \in 1 .. Len(history) /\ Len(history) = Len(question)
        BY <1>1, <1>w, Past
    <2> HIDE DEF S
    <2>2. /\ history' \in Seq(S) /\ Len(history') = Len(history)
          /\ \A p \in 1 .. Len(history) : history'[p] = IF p = q THEN h ELSE history[p]
        BY <1>w, <2>1, ExceptSeq
    <2> QED
        BY <1>1, <2>1, <2>2 DEF S
<1>3. /\ made \in Seq(Seq(Edit)) /\ Len(made) = Len(question)
      /\ \A p \in DOMAIN question : made[p] = IF p = q THEN m ELSE ghost.made[p]
    <2> DEFINE S == Seq(Edit)
    <2>1. /\ ghost.made \in Seq(S) /\ m \in S /\ q \in 1 .. Len(ghost.made)
          /\ Len(ghost.made) = Len(question)
        BY <1>1, <1>w, Past
    <2> HIDE DEF S
    <2>2. /\ made \in Seq(S) /\ Len(made) = Len(ghost.made)
          /\ \A p \in 1 .. Len(ghost.made) : made[p] = IF p = q THEN m ELSE ghost.made[p]
        BY <1>w, <2>1, ExceptSeq
    <2> QED
        BY <1>1, <2>1, <2>2 DEF S
<1> QED
    BY <1>1, <1>2, <1>3, LenProperties

LEMMA RevisionTyped ==
    ASSUME NEW c, c.old \in Content, Changed(c) # {}
    PROVE  [f \in Changed(c) |-> c.old[f]] \in Revision
<1>1. Changed(c) = {"text"} \/ Changed(c) = {"section"} \/ Changed(c) = Field
    BY DEF Changed, Field
<1>2. CASE Changed(c) = {"text"}
    BY <1>2 DEF Content, Revision
<1>3. CASE Changed(c) = {"section"}
    BY <1>3 DEF Content, Revision
<1>4. CASE Changed(c) = Field
    BY <1>4 DEF Content, Revision, Field
<1> QED
    BY <1>1, <1>2, <1>3, <1>4

(* What HistoryIsTrue says of one question.                                *)
Told(q) ==
    \A i \in DOMAIN history[q] : \A f \in DOMAIN history[q][i] :
        /\ f \notin ghost.made[q][i].stale => history[q][i][f] = ghost.made[q][i].from[f]
        /\ \/ After(q, i, f) = ghost.made[q][i].to[f]
           \/ /\ f = "section" /\ ghost.made[q][i].to[f] \notin SectionsHere \cup {0}
              /\ After(q, i, f) = 0
           \/ \E j \in DOMAIN history[q] : j > i /\ f \in ghost.made[q][j].stale

(* An element behind the others.                                           *)
LEMMA Grown ==
    ASSUME NEW S, NEW s \in Seq(S), NEW e \in S, NEW t, t = Append(s, e)
    PROVE  /\ t \in Seq(S) /\ Len(s) \in Nat /\ Len(t) = Len(s) + 1
           /\ DOMAIN t = 1 .. Len(s) + 1
           /\ \A i \in 1 .. Len(s) : t[i] = s[i]
           /\ t[Len(s) + 1] = e
<1>1. /\ t \in Seq(S) /\ Len(t) = Len(s) + 1
      /\ \A i \in 1 .. Len(s) : t[i] = s[i]
      /\ t[Len(s) + 1] = e
    BY AppendProperties
<1> QED
    BY <1>1, LenProperties

(* What a step that appends one edit to a question does to its history:    *)
(* the old value of the edit is shown as the new one of the edit before it *)
(* of the same field.                                                      *)
Grows(q, rev, edit) ==
    /\ q \in QuestionsHere /\ rev \in Revision /\ edit \in Edit
    /\ history'[q] = Append(history[q], rev) /\ ghost'.made[q] = Append(ghost.made[q], edit)
    /\ edit.from = question[q].now /\ edit.to = question'[q].now
    /\ \A f \in DOMAIN rev \ edit.stale : rev[f] = question[q].now[f]
    /\ \A f \in Field \ DOMAIN rev : question'[q].now[f] = question[q].now[f]
    /\ section' = section

LEMMA HistoryGrows ==
    ASSUME TypeOK, EditsKnown, HistoryIsTrue, NEW q, NEW rev, NEW edit, Grows(q, rev, edit)
    PROVE  Told(q)'
<1>g. /\ q \in QuestionsHere /\ rev \in Revision /\ edit \in Edit
      /\ history'[q] = Append(history[q], rev) /\ ghost'.made[q] = Append(ghost.made[q], edit)
      /\ edit.from = question[q].now /\ edit.to = question'[q].now
      /\ \A f \in DOMAIN rev \ edit.stale : rev[f] = question[q].now[f]
      /\ \A f \in Field \ DOMAIN rev : question'[q].now[f] = question[q].now[f]
      /\ section' = section
    BY DEF Grows
<1> SUFFICES ASSUME NEW i \in DOMAIN history'[q], NEW f \in DOMAIN history'[q][i]
             PROVE  /\ f \notin ghost'.made[q][i].stale
                           => history'[q][i][f] = ghost'.made[q][i].from[f]
                    /\ \/ After(q, i, f)' = ghost'.made[q][i].to[f]
                       \/ /\ f = "section"
                          /\ ghost'.made[q][i].to[f] \notin SectionsHere' \cup {0}
                          /\ After(q, i, f)' = 0
                       \/ \E j \in DOMAIN history'[q] : j > i /\ f \in ghost'.made[q][j].stale
    BY DEF Told
<1> DEFINE n == Len(history[q])
           later == {j \in DOMAIN history[q] : j > i /\ f \in DOMAIN history[q][j]}
           latest == {j \in DOMAIN history'[q] : j > i /\ f \in DOMAIN history'[q][j]}
<1>1. /\ history[q] \in Seq(Revision) /\ ghost.made[q] \in Seq(Edit) /\ n \in Nat
      /\ DOMAIN history[q] = 1 .. n /\ Len(ghost.made[q]) = n
    BY <1>g, Past, NowTyped DEF EditsKnown
<1>2. /\ history'[q] \in Seq(Revision) /\ DOMAIN history'[q] = 1 .. n + 1
      /\ \A j \in 1 .. n : history'[q][j] = history[q][j]
      /\ history'[q][n + 1] = rev
    <2>1. /\ history[q] \in Seq(Revision) /\ history'[q] = Append(history[q], rev)
          /\ rev \in Revision
        BY <1>1, <1>g
    <2> QED
        BY <2>1, Grown
<1>3. /\ \A j \in 1 .. n : ghost'.made[q][j] = ghost.made[q][j]
      /\ ghost'.made[q][n + 1] = edit
    <2> DEFINE m == ghost.made[q]
    <2>1. m \in Seq(Edit) /\ Len(m) = n /\ ghost'.made[q] = Append(m, edit)
          /\ edit \in Edit
        BY <1>1, <1>g
    <2> HIDE DEF m, n
    <2>2. /\ \A j \in 1 .. Len(m) : ghost'.made[q][j] = m[j]
          /\ ghost'.made[q][Len(m) + 1] = edit
        BY <2>1, Grown
    <2> QED
        BY <2>1, <2>2 DEF m
<1>4. SectionsHere' = SectionsHere
    BY <1>g DEF SectionsHere
<1>5. i \in 1 .. n + 1 /\ f \in Field
    <2>1. \A r \in Revision : DOMAIN r \subseteq Field
        BY DEF Revision, Content, Field
    <2>2. history'[q][i] \in Revision
        BY <1>2, ElementOfSeq, LenProperties
    <2> QED
        BY <1>2, <2>1, <2>2
<1>6. /\ After(q, i, f) = IF later = {} THEN question[q].now[f] ELSE history[q][Min(later)][f]
      /\ After(q, i, f)' = IF latest = {} THEN question'[q].now[f]
                           ELSE history'[q][Min(latest)][f]
    BY DEF After
<1>7. \A j \in 1 .. n + 1 : j = n + 1 \/ j \in 1 .. n
    BY <1>1
<1>8. \A j \in 1 .. n : j \in 1 .. n + 1 /\ j < n + 1
    BY <1>1
<1>9. CASE i = n + 1
    <2>1. latest = {}
        BY <1>1, <1>2, <1>9
    <2> HIDE DEF latest, later
    <2>2. f \in DOMAIN rev
        BY <1>2, <1>9
    <2>3. f \notin edit.stale => history'[q][i][f] = edit.from[f]
        BY <1>2, <1>9, <1>g, <2>2
    <2>4. After(q, i, f)' = edit.to[f]
        BY <1>6, <1>g, <2>1
    <2> QED
        BY <1>3, <1>9, <2>3, <2>4
<1>10. CASE i \in 1 .. n
    <2>1. /\ history'[q][i] = history[q][i] /\ ghost'.made[q][i] = ghost.made[q][i]
          /\ i \in DOMAIN history[q] /\ f \in DOMAIN history[q][i]
        BY <1>1, <1>2, <1>3, <1>10
    <2>2. /\ f \notin ghost.made[q][i].stale => history[q][i][f] = ghost.made[q][i].from[f]
          /\ \/ After(q, i, f) = ghost.made[q][i].to[f]
             \/ /\ f = "section" /\ ghost.made[q][i].to[f] \notin SectionsHere \cup {0}
                /\ After(q, i, f) = 0
             \/ \E j \in DOMAIN history[q] : j > i /\ f \in ghost.made[q][j].stale
        BY <1>g, <2>1 DEF HistoryIsTrue
    <2>3. \A j \in 1 .. n + 1 : j \in latest <=> j \in later \/ (j = n + 1 /\ f \in DOMAIN rev)
        <3>1. ASSUME NEW j \in 1 .. n
              PROVE  j \in latest <=> j \in later
            BY <1>1, <1>2, <1>8
        <3>2. n + 1 \in latest <=> f \in DOMAIN rev
            BY <1>2, <1>7, <1>8, <1>10
        <3>3. n + 1 \notin later
            BY <1>1
        <3>4. \A j \in 1 .. n : j # n + 1
            BY <1>8
        <3> HIDE DEF latest, later
        <3> QED
            BY <1>7, <3>1, <3>2, <3>3, <3>4
    <2>4. later \subseteq 1 .. n /\ latest \subseteq 1 .. n + 1 /\ IsFiniteSet(later)
        <3>1. later \in SUBSET (1 .. n) /\ latest \subseteq 1 .. n + 1
            BY <1>1, <1>2
        <3>2. n \in Int /\ 1 \in Int
            BY <1>1
        <3> HIDE DEF later, latest, n
        <3>3. IsFiniteSet(1 .. n)
            BY <3>2, FS_Interval
        <3> QED
            BY <3>1, <3>3, FS_Subset
    <2> HIDE DEF later, latest
    <2>5. ASSUME later # {}
          PROVE  After(q, i, f)' = After(q, i, f)
        <3>1. Min(latest) = Min(later)
            <4>1. later \subseteq Nat /\ latest \subseteq Nat /\ later \subseteq latest
                BY <1>1, <1>8, <2>3, <2>4
            <4>2. ASSUME NEW y \in latest
                  PROVE  y \in later \/ \A x \in later : x <= y
                <5>1. y \in later \/ y = n + 1
                    BY <2>3, <2>4
                <5>2. \A x \in 1 .. n : x <= n + 1
                    BY <1>1
                <5> QED
                    BY <2>4, <5>1, <5>2
            <4> QED
                BY <2>4, <2>5, <4>1, <4>2, SameLeast
        <3>2. Min(later) \in 1 .. n /\ latest # {}
            <4>1. later \subseteq Nat
                BY <1>1, <2>4
            <4>2. Min(later) \in later
                BY <2>4, <2>5, <4>1, Least
            <4> QED
                BY <1>8, <2>3, <2>4, <4>2
        <3> QED
            BY <1>2, <1>6, <2>5, <3>1, <3>2
    <2>6. ASSUME later = {}, f \notin DOMAIN rev
          PROVE  After(q, i, f)' = After(q, i, f)
        <3>1. latest = {}
            BY <2>3, <2>4, <2>6
        <3> QED
            BY <1>5, <1>6, <1>g, <2>6, <3>1
    <2>7. ASSUME later = {}, f \in DOMAIN rev, f \notin edit.stale
          PROVE  After(q, i, f)' = After(q, i, f)
        <3>1. latest = {n + 1}
            BY <1>1, <2>3, <2>4, <2>7
        <3>2. Min(latest) = n + 1
            BY <1>1, <3>1 DEF Min
        <3>3. After(q, i, f)' = rev[f]
            BY <1>2, <1>6, <3>1, <3>2
        <3> QED
            BY <1>6, <1>g, <2>7, <3>3
    <2>8. \A j \in DOMAIN history[q] :
             j \in DOMAIN history'[q] /\ ghost'.made[q][j] = ghost.made[q][j]
        BY <1>1, <1>2, <1>3, <1>8
    <2>9. CASE After(q, i, f)' = After(q, i, f)
        BY <1>4, <2>1, <2>2, <2>8, <2>9
    <2>10. CASE f \in edit.stale
        <3>1. n + 1 \in DOMAIN history'[q] /\ n + 1 > i
            BY <1>1, <1>2, <1>8, <1>10
        <3> QED
            BY <1>3, <2>1, <2>2, <2>10, <3>1
    <2> QED
        BY <2>5, <2>6, <2>7, <2>9, <2>10
<1> QED
    BY <1>5, <1>7, <1>9, <1>10

LEMMA EditStep ==
    ASSUME IInv, NEW r \in Request, CommitEdit(r)
    PROVE  IInv'
<1> DEFINE c == call[r]
<1>q. PICK q : q = c.of
    OBVIOUS
<1> DEFINE is == question[q].now
           written == [f \in Field |-> IF f \in Changed(c) THEN c.new[f] ELSE is[f]]
           row == [question[q] EXCEPT !.now = written]
           rev == [f \in Changed(c) |-> c.old[f]]
           stale == {f \in Field : c.old[f] # is[f]}
           edit == [from |-> is, to |-> written, stale |-> stale]
<1>1. TypeOK /\ CallsKnow /\ EditsKnown /\ HistoryIsTrue /\ Links /\ Places
    BY DEF IInv
<1>2. /\ c.op = "edit" /\ question[q].here /\ call' = [call EXCEPT ![r] = Idle]
      /\ section' = section /\ item' = item
    BY <1>q DEF CommitEdit, Done
<1>3. /\ q \in DOMAIN question /\ c.old \in Content /\ c.new \in Content
      /\ c.new.section \in 0 .. Len(section) /\ c # Idle
    BY <1>1, <1>2, <1>q, Holds DEF CallsKnow
<1>4. CASE Changed(c) = {}
    <2>1. GiveUp(r)
        BY <1>2, <1>3, <1>4 DEF CommitEdit, GiveUp
    <2> QED
        BY <2>1, QuietStep
<1>5. CASE Changed(c) # {}
    <2> DEFINE crossed == IF written.section \in SectionsHere \cup {0} THEN ghost.crossed
                          ELSE ghost.crossed \cup {q}
               made == [ghost.made EXCEPT ![q] = Append(@, edit)]
    <2>1. /\ question' = [question EXCEPT ![q] = row]
          /\ history' = [history EXCEPT ![q] = Append(history[q], rev)]
          /\ ghost' = [ghost EXCEPT !.made[q] = Append(@, edit),
                          !.crossed = IF written.section \in SectionsHere \cup {0} THEN @
                                      ELSE @ \cup {q}]
        BY SMTT(40), <1>5, <1>q DEF CommitEdit
    <2>2. q \in QuestionsHere /\ question[q] \in Question /\ is \in Content
        BY <1>1, <1>2, <1>3, Rows DEF QuestionsHere, Question
    <2>3. Changed(c) \subseteq Field
        BY DEF Changed
    <2> HIDE DEF c, is
    <2>4. written \in Content /\ stale \in SUBSET Field
        BY <1>3, <2>2 DEF Field, Content
    <2>5. rev \in Revision /\ DOMAIN rev = Changed(c)
        BY <1>3, <1>5, RevisionTyped
    <2>6. /\ \A f \in Changed(c) \ stale : rev[f] = is[f]
          /\ \A f \in Field \ Changed(c) : written[f] = is[f]
          /\ "section" \in Changed(c) => written.section = c.new.section
        BY <2>3 DEF Field
    <2> HIDE DEF written, rev, stale
    <2>7. edit \in Edit /\ edit.from = is /\ edit.to = written /\ edit.stale = stale
        BY <2>2, <2>4 DEF Edit
    <2>8. row \in Question /\ row.now = written /\ row.item = question[q].item
        BY <2>2, <2>4 DEF Question
    <2> HIDE DEF edit, row
    <2>9. /\ question' \in Seq(Question) /\ Len(question') = Len(question)
          /\ DOMAIN question' = DOMAIN question
          /\ \A p \in DOMAIN question : question'[p] = IF p = q THEN row ELSE question[p]
        BY <1>1, <1>3, <2>1, <2>8, QuestionWritten
    <2>10. /\ ghost' = [made |-> made, crossed |-> crossed,
                        mixed |-> ghost.mixed, calls |-> ghost.calls]
           /\ ghost'.made = made /\ ghost'.crossed = crossed /\ ghost'.mixed = ghost.mixed
        <3>1. ghost' = [ghost EXCEPT !.made = made, !.crossed = crossed]
            BY <1>1, <2>1
        <3> HIDE DEF made, crossed
        <3> QED
            BY <1>1, <3>1, Counters
    <2>11. crossed \in SUBSET DOMAIN question
           /\ \A p \in DOMAIN question \ crossed :
                 p \notin ghost.crossed /\ (p = q => written.section \in SectionsHere \cup {0})
        BY <1>1, <1>3, Counters
    <2> HIDE DEF crossed
    <2>12. /\ history' \in Seq(Seq(Revision)) /\ Len(history') = Len(question)
           /\ DOMAIN history' = DOMAIN question
           /\ \A p \in DOMAIN question :
                 history'[p] = IF p = q THEN Append(history[q], rev) ELSE history[p]
           /\ made \in Seq(Seq(Edit)) /\ Len(made) = Len(question)
           /\ \A p \in DOMAIN question :
                 made[p] = IF p = q THEN Append(ghost.made[q], edit) ELSE ghost.made[p]
        <3> DEFINE h == Append(history[q], rev)
                   m == Append(ghost.made[q], edit)
        <3>1. history[q] \in Seq(Revision) /\ ghost.made[q] \in Seq(Edit)
            BY <1>1, <1>3, Past
        <3>2. h \in Seq(Revision)
            BY <2>5, <3>1, AppendProperties
        <3>3. m \in Seq(Edit)
            BY <2>7, <3>1, AppendProperties
        <3>4. history' = [history EXCEPT ![q] = h] /\ made = [ghost.made EXCEPT ![q] = m]
            BY <2>1
        <3> HIDE DEF made, h, m
        <3>5. /\ history' \in Seq(Seq(Revision)) /\ Len(history') = Len(question)
              /\ DOMAIN history' = DOMAIN question
              /\ \A p \in DOMAIN question : history'[p] = IF p = q THEN h ELSE history[p]
              /\ made \in Seq(Seq(Edit)) /\ Len(made) = Len(question)
              /\ \A p \in DOMAIN question : made[p] = IF p = q THEN m ELSE ghost.made[p]
            <4>1. Writes(q, h, m, made)
                BY <1>3, <3>2, <3>3, <3>4 DEF Writes
            <4> QED
                BY <1>1, <4>1, PastWritten
        <3> QED
            BY <3>5 DEF h, m
    <2> HIDE DEF made
    <2>13. CallsKnow' /\ call' \in [Request -> {Idle} \cup Loaded]
        <3>1. Len(section') \in Nat /\ Len(section) <= Len(section')
            BY <1>1, <1>2, Rows
        <3> QED
            BY <1>1, <1>2, <2>9, <3>1, CallsEnd
    <2>14. TypeOK'
        BY <1>1, <1>2, <2>9, <2>10, <2>11, <2>12, <2>13, Counters, Rows, TypesHold
    <2>15. SectionsHere' = SectionsHere /\ ItemsHere' = ItemsHere
        BY <1>2 DEF SectionsHere, ItemsHere
    <2>16. \A p \in QuestionsHere' : p \in DOMAIN question
               /\ (p # q => p \in QuestionsHere /\ question'[p] = question[p])
        BY <2>9 DEF QuestionsHere
    <2>17. EditsKnown'
        <3>1. ASSUME NEW p \in DOMAIN history'
              PROVE  /\ Len(ghost'.made[p]) = Len(history'[p])
                     /\ \A i \in DOMAIN history'[p] :
                           "section" \in DOMAIN history'[p][i] =>
                               ghost'.made[p][i].to.section \in 0 .. Len(section')
            <4>1. p \in DOMAIN question /\ p \in DOMAIN history
                  /\ Len(ghost.made[p]) = Len(history[p])
                  /\ \A i \in DOMAIN history[p] :
                        "section" \in DOMAIN history[p][i] =>
                            ghost.made[p][i].to.section \in 0 .. Len(section)
                BY <1>1, <2>12, Past DEF EditsKnown
            <4>2. CASE p # q
                BY <1>2, <2>10, <2>12, <4>1, <4>2
            <4>3. CASE p = q
                <5>1. history[p] \in Seq(Revision) /\ ghost.made[p] \in Seq(Edit)
                      /\ Len(history[p]) \in Nat /\ DOMAIN history[p] = 1 .. Len(history[p])
                    BY <1>1, <4>1, Past
                <5>2. /\ Len(history'[p]) = Len(history[p]) + 1 /\ history'[p] \in Seq(Revision)
                      /\ \A i \in 1 .. Len(history[p]) : history'[p][i] = history[p][i]
                      /\ history'[p][Len(history[p]) + 1] = rev
                    <6>1. history'[p] = Append(history[p], rev)
                        BY <2>12, <4>1, <4>3
                    <6> QED
                        BY <2>5, <5>1, <6>1, AppendProperties
                <5>3. /\ Len(ghost'.made[p]) = Len(history[p]) + 1
                      /\ \A i \in 1 .. Len(history[p]) : ghost'.made[p][i] = ghost.made[p][i]
                      /\ ghost'.made[p][Len(history[p]) + 1] = edit
                    <6>1. ghost'.made[p] = Append(ghost.made[p], edit)
                        BY <2>10, <2>12, <4>1, <4>3
                    <6>2. /\ Len(ghost'.made[p]) = Len(ghost.made[p]) + 1
                          /\ \A i \in 1 .. Len(ghost.made[p]) : ghost'.made[p][i] = ghost.made[p][i]
                          /\ ghost'.made[p][Len(ghost.made[p]) + 1] = edit
                        BY <2>7, <5>1, <6>1, AppendProperties
                    <6> QED
                        BY <4>1, <6>2
                <5>4. DOMAIN history'[p] = 1 .. Len(history[p]) + 1
                    BY <5>2, LenProperties
                <5>5. \A i \in 1 .. Len(history[p]) + 1 :
                          i = Len(history[p]) + 1 \/ i \in 1 .. Len(history[p])
                    BY <5>1
                <5>6. "section" \in DOMAIN rev => edit.to.section \in 0 .. Len(section)
                    BY <1>3, <2>5, <2>6, <2>7
                <5>7. ASSUME NEW i \in DOMAIN history'[p], "section" \in DOMAIN history'[p][i]
                      PROVE  ghost'.made[p][i].to.section \in 0 .. Len(section')
                    <6>1. CASE i = Len(history[p]) + 1
                        BY <1>2, <5>2, <5>3, <5>6, <5>7, <6>1
                    <6>2. CASE i \in 1 .. Len(history[p])
                        BY <1>2, <4>1, <5>1, <5>2, <5>3, <5>7, <6>2
                    <6> QED
                        BY <5>4, <5>5, <5>7, <6>1, <6>2
                <5> QED
                    BY <5>2, <5>3, <5>7
            <4> QED
                BY <4>2, <4>3
        <3> QED
            BY <3>1 DEF EditsKnown
    <2>18. HistoryIsTrue'
        <3>1. ASSUME NEW p \in QuestionsHere', p # q
              PROVE  Told(p)'
            <4>1. /\ p \in QuestionsHere /\ question'[p] = question[p]
                  /\ history'[p] = history[p] /\ ghost'.made[p] = ghost.made[p]
                BY <2>10, <2>12, <2>16, <3>1
            <4>2. Told(p)
                BY <1>1, <4>1 DEF HistoryIsTrue, Told
            <4>3. ASSUME NEW i, NEW f
                  PROVE  After(p, i, f)' = After(p, i, f)
                BY <4>1 DEF After
            <4> QED
                BY <2>15, <4>1, <4>2, <4>3 DEF Told
        <3>2. Told(q)'
            <4>1. /\ history'[q] = Append(history[q], rev)
                  /\ ghost'.made[q] = Append(ghost.made[q], edit)
                  /\ question'[q].now = written
                BY <1>3, <2>8, <2>9, <2>10, <2>12
            <4>2. /\ edit.from = question[q].now /\ edit.to = question'[q].now
                BY <2>7, <4>1 DEF is
            <4>3. \A g \in DOMAIN rev \ edit.stale : rev[g] = question[q].now[g]
                BY <2>5, <2>6, <2>7 DEF is
            <4>4. \A g \in Field \ DOMAIN rev : question'[q].now[g] = question[q].now[g]
                BY <2>5, <2>6, <4>1 DEF is
            <4>5. rev \in Revision /\ edit \in Edit /\ section' = section
                BY <1>2, <2>5, <2>7
            <4>6. Grows(q, rev, edit)
                BY <2>2, <4>1, <4>2, <4>3, <4>4, <4>5 DEF Grows
            <4> QED
                BY <1>1, <4>6, HistoryGrows
        <3>3. \A p \in QuestionsHere' : Told(p)'
            BY <3>1, <3>2
        <3> QED
            BY <3>3 DEF HistoryIsTrue, Told
    <2>19. Links'
        <3>1. ASSUME NEW p \in QuestionsHere' \ ghost'.crossed
              PROVE  \/ p \in QuestionsHere \ ghost.crossed /\ question'[p] = question[p]
                     \/ /\ question'[p].now.section \in SectionsHere \cup {0}
                        /\ question'[p].item \in ItemsHere \cup {0}
            <4>1. p \in DOMAIN question /\ p \notin crossed /\ p \notin ghost.crossed
                BY <2>10, <2>11, <2>16
            <4>2. CASE p = q
                <5>1. question'[q] = row /\ q \in QuestionsHere \ ghost.crossed
                    BY <1>3, <2>2, <2>9, <4>1, <4>2
                <5> QED
                    BY <1>1, <2>8, <2>11, <4>1, <4>2, <5>1 DEF Links
            <4>3. CASE p # q
                BY <2>16, <4>1, <4>3
            <4> QED
                BY <4>2, <4>3
        <3> QED
            BY <1>1, <2>15, <3>1, LinksKept
    <2>20. Places'
        BY <1>1, <1>2, <2>10, <2>15, PlacesKept
    <2> QED
        BY <2>13, <2>14, <2>17, <2>18, <2>19, <2>20 DEF IInv
<1> QED
    BY <1>4, <1>5

LEMMA DeleteStep ==
    ASSUME IInv, NEW q \in QuestionsHere, DeleteQuestion(q)
    PROVE  IInv'
<1> DEFINE row == [question[q] EXCEPT !.here = FALSE]
           made == [ghost.made EXCEPT ![q] = <<>>]
<1>1. TypeOK /\ CallsKnow /\ EditsKnown /\ HistoryIsTrue /\ Links /\ Places
    BY DEF IInv
<1>2. /\ question' = [question EXCEPT ![q] = row] /\ history' = [history EXCEPT ![q] = <<>>]
      /\ section' = section /\ item' = item /\ call' = call /\ ghost.calls < MaxCalls
      /\ ghost' = [ghost EXCEPT !.made = made, !.crossed = @ \ {q}, !.calls = @ + 1]
    BY <1>1, Counters DEF DeleteQuestion, Counted, Arrives
<1>3. q \in DOMAIN question /\ row \in Question /\ ~row.here
    BY <1>1, NowTyped DEF Question
<1> HIDE DEF row
<1>4. /\ question' \in Seq(Question) /\ Len(question') = Len(question)
      /\ DOMAIN question' = DOMAIN question
      /\ \A p \in DOMAIN question : question'[p] = IF p = q THEN row ELSE question[p]
    BY <1>1, <1>2, <1>3, QuestionWritten
<1>5. /\ history' \in Seq(Seq(Revision)) /\ Len(history') = Len(question)
      /\ DOMAIN history' = DOMAIN question
      /\ \A p \in DOMAIN question : history'[p] = IF p = q THEN <<>> ELSE history[p]
      /\ made \in Seq(Seq(Edit)) /\ Len(made) = Len(question)
      /\ \A p \in DOMAIN question : made[p] = IF p = q THEN <<>> ELSE ghost.made[p]
    <2>1. <<>> \in Seq(Revision) /\ <<>> \in Seq(Edit)
        OBVIOUS
    <2> HIDE DEF made
    <2>2. made = [ghost.made EXCEPT ![q] = <<>>]
        BY DEF made
    <2> DEFINE h == <<>>
               m == <<>>
    <2>3. /\ h \in Seq(Revision) /\ m \in Seq(Edit) /\ history' = [history EXCEPT ![q] = h]
          /\ made = [ghost.made EXCEPT ![q] = m]
        BY <1>2, <2>1, <2>2
    <2> HIDE DEF h, m
    <2>4. /\ history' \in Seq(Seq(Revision)) /\ Len(history') = Len(question)
          /\ DOMAIN history' = DOMAIN question
          /\ \A p \in DOMAIN question : history'[p] = IF p = q THEN h ELSE history[p]
          /\ made \in Seq(Seq(Edit)) /\ Len(made) = Len(question)
          /\ \A p \in DOMAIN question : made[p] = IF p = q THEN m ELSE ghost.made[p]
        <3>1. Writes(q, h, m, made)
            BY <1>3, <2>3 DEF Writes
        <3> QED
            BY <1>1, <3>1, PastWritten
    <2> QED
        BY <2>4 DEF h, m
<1> HIDE DEF made
<1>6. /\ ghost' = [made |-> made, crossed |-> ghost.crossed \ {q},
                   mixed |-> ghost.mixed, calls |-> ghost.calls + 1]
      /\ ghost'.made = made /\ ghost'.crossed = ghost.crossed \ {q} /\ ghost'.mixed = ghost.mixed
      /\ ghost.calls + 1 \in 0 .. MaxCalls
    BY <1>1, <1>2, Counters
<1>7. /\ CallsKnow' /\ call' \in [Request -> {Idle} \cup Loaded]
      /\ Len(section') \in Nat /\ Len(section) <= Len(section')
    <2>1. Len(section') \in Nat /\ Len(section) <= Len(section')
        BY <1>1, <1>2, Rows
    <2> QED
        BY <1>1, <1>2, <1>4, <2>1, CallsEnd
<1>8. TypeOK'
    <2>1. ghost.crossed \ {q} \in SUBSET DOMAIN question'
        BY <1>1, <1>4, Counters
    <2> DEFINE X == ghost.crossed \ {q}
               K == ghost.calls + 1
    <2>2. /\ X \in SUBSET DOMAIN question' /\ K \in 0 .. MaxCalls /\ ghost.mixed \in BOOLEAN
          /\ ghost' = [made |-> made, crossed |-> X, mixed |-> ghost.mixed, calls |-> K]
        BY <1>1, <1>6, <2>1, Counters
    <2> HIDE DEF X, K
    <2>3. /\ section' \in Seq(Section) /\ item' \in Seq(BOOLEAN)
          /\ made \in Seq(Seq(Edit)) /\ Len(made) = Len(question')
          /\ history' \in Seq(Seq(Revision)) /\ Len(history') = Len(question')
        BY <1>1, <1>2, <1>4, <1>5, Rows
    <2> QED
        BY <1>4, <1>7, <2>2, <2>3, TypesHold
<1>9. SectionsHere' = SectionsHere /\ ItemsHere' = ItemsHere
    BY <1>2 DEF SectionsHere, ItemsHere
<1>10. \A p \in QuestionsHere' : /\ p # q /\ p \in QuestionsHere /\ question'[p] = question[p]
                                 /\ history'[p] = history[p] /\ ghost'.made[p] = ghost.made[p]
    BY <1>3, <1>4, <1>5, <1>6 DEF QuestionsHere
<1>11. EditsKnown'
    <2>1. \A p \in DOMAIN history' :
             \/ history'[p] = <<>> /\ ghost'.made[p] = <<>>
             \/ p \in DOMAIN history /\ history'[p] = history[p] /\ ghost'.made[p] = ghost.made[p]
        BY <1>1, <1>5, <1>6, Past
    <2> QED
        BY <1>1, <1>7, <2>1, EditsKept
<1>12. HistoryIsTrue'
    BY <1>1, <1>9, <1>10, HistoryKept, StaysGone, NowTyped
<1>13. Links' /\ Places'
    BY <1>1, <1>2, <1>6, <1>9, <1>10, LinksKept, PlacesKept
<1> QED
    BY <1>7, <1>8, <1>11, <1>12, <1>13 DEF IInv

-----------------------------------------------------------------------------
(* Sections.                                                               *)

(* What a step that writes no question's past needs for its types.         *)
LEMMA PastKept ==
    ASSUME TypeOK, question' \in Seq(Question), Len(question') = Len(question),
           DOMAIN question' = DOMAIN question, history' = history,
           section' \in Seq(Section), item' \in Seq(BOOLEAN),
           call' \in [Request -> {Idle} \cup Loaded],
           NEW B \in BOOLEAN,
           \/ ghost' = [ghost EXCEPT !.mixed = B]
           \/ Arrives /\ ghost' = [ghost EXCEPT !.mixed = B, !.calls = @ + 1]
    PROVE  /\ TypeOK' /\ ghost'.made = ghost.made /\ ghost'.crossed = ghost.crossed
           /\ ghost'.mixed = B
<1>1. /\ ghost'.made = ghost.made /\ ghost'.crossed = ghost.crossed
      /\ ghost'.mixed = B /\ ghost'.calls \in 0 .. MaxCalls
      /\ ghost' = [made |-> ghost.made, crossed |-> ghost.crossed,
                   mixed |-> B, calls |-> ghost'.calls]
    <2>1. /\ ghost = [made |-> ghost.made, crossed |-> ghost.crossed,
                      mixed |-> ghost.mixed, calls |-> ghost.calls]
          /\ ghost.calls \in 0 .. MaxCalls
          /\ Arrives => ghost.calls + 1 \in 0 .. MaxCalls
        BY Counters DEF Arrives
    <2> QED
        BY <2>1
<1>2. /\ ghost.made \in Seq(Seq(Edit)) /\ Len(ghost.made) = Len(question')
      /\ history' \in Seq(Seq(Revision)) /\ Len(history') = Len(question')
      /\ ghost.crossed \in SUBSET DOMAIN question'
    BY Past, Counters
<1> QED
    BY <1>1, <1>2, TypesHold

LEMMA QuestionsMapped ==
    ASSUME TypeOK, question' \in [DOMAIN question -> Question]
    PROVE  /\ question' \in Seq(Question) /\ Len(question') = Len(question)
           /\ DOMAIN question' = DOMAIN question
BY Rows

(* A section that was given the next order has one of its own.             *)
LEMMA CommitSectionStep ==
    ASSUME IInv, NEW r \in Request, CommitSection(r)
    PROVE  IInv'
<1> DEFINE o == call[r].order
           new == [here |-> TRUE, order |-> o]
           B == ghost.mixed \/ o # NextOrder
           n == Len(section)
<1>1. TypeOK /\ CallsKnow /\ EditsKnown /\ HistoryIsTrue /\ Links /\ Places
    BY DEF IInv
<1>2. /\ call[r].op = "section" /\ call' = [call EXCEPT ![r] = Idle]
      /\ section' = Append(section, new)
      /\ question' = question /\ history' = history /\ item' = item
      /\ ghost' = [ghost EXCEPT !.mixed = B]
    BY <1>1, Counters DEF CommitSection, Done
<1>3. o \in Nat /\ B \in BOOLEAN
    BY <1>1, <1>2, Holds, Counters
<1>4. new \in Section /\ new.here /\ new.order = o
    BY <1>3 DEF Section
<1> HIDE DEF new, o
<1>5. /\ section' \in Seq(Section) /\ n \in Nat /\ Len(section') = n + 1
      /\ DOMAIN section' = 1 .. n + 1 /\ DOMAIN section = 1 .. n
      /\ \A s \in 1 .. n : section'[s] = section[s]
      /\ section'[n + 1] = new
    <2>1. section \in Seq(Section) /\ DOMAIN section = 1 .. n
        BY <1>1, Rows
    <2> QED
        BY <1>2, <1>4, <2>1, Grown
<1> HIDE DEF B
<1>6. /\ CallsKnow' /\ call' \in [Request -> {Idle} \cup Loaded]
      /\ Len(section') \in Nat /\ Len(section) <= Len(section')
    <2>1. Len(section') \in Nat /\ Len(section) <= Len(section')
        BY <1>5
    <2> QED
        BY <1>1, <1>2, <2>1, CallsEnd
<1>7. TypeOK' /\ ghost'.made = ghost.made /\ ghost'.crossed = ghost.crossed /\ ghost'.mixed = B
    BY <1>1, <1>2, <1>3, <1>5, <1>6, Rows, PastKept
<1>8. \A s \in SectionsHere' : s = n + 1 \/ (s \in SectionsHere /\ s \in 1 .. n)
    <2>1. \A s \in 1 .. n + 1 : s = n + 1 \/ s \in 1 .. n
        BY <1>5
    <2> QED
        BY <1>5, <2>1 DEF SectionsHere
<1>9. SectionsHere \subseteq SectionsHere' /\ SectionsHere \subseteq 1 .. n
    <2>1. \A s \in 1 .. n : s \in 1 .. n + 1
        BY <1>5
    <2> QED
        BY <1>5, <2>1 DEF SectionsHere
<1>10. QuestionsHere' = QuestionsHere /\ ItemsHere' = ItemsHere
    BY <1>2 DEF QuestionsHere, ItemsHere
<1>11. HistoryIsTrue'
    <2>1. \A s \in 0 .. n : s \notin SectionsHere \cup {0} => s \notin SectionsHere'
        <3>1. \A s \in 0 .. n : s # n + 1
            BY <1>5
        <3> QED
            BY <1>8, <3>1
    <2> QED
        BY <1>1, <1>2, <1>7, <1>10, <2>1, HistoryKept, NowTyped
<1>12. EditsKnown'
    BY <1>1, <1>2, <1>6, <1>7, EditsKept
<1>13. Links'
    BY <1>1, <1>2, <1>7, <1>9, <1>10, LinksKept
<1>14. Places'
    <2>1. ASSUME ~B
          PROVE  \A s, t \in SectionsHere' : s # t => section'[s].order # section'[t].order
        <3>1. ~ghost.mixed /\ o = NextOrder
            BY <2>1 DEF B
        <3>2. \A s \in SectionsHere : section'[s].order \in Nat /\ section'[s].order < o
            BY <1>1, <1>5, <1>9, <3>1, OrderTyped
        <3>3. \A s \in SectionsHere : section'[s].order # section'[n + 1].order
            BY <1>3, <1>4, <1>5, <3>2
        <3>4. \A s, t \in SectionsHere : s # t => section'[s].order # section'[t].order
            BY <1>1, <1>5, <1>9, <3>1 DEF Places
        <3> QED
            BY <1>8, <3>3, <3>4
    <2> QED
        BY <1>7, <2>1 DEF Places
<1> QED
    BY <1>6, <1>7, <1>11, <1>12, <1>13, <1>14 DEF IInv

(* The questions of a section that is deleted are in none.                 *)
LEMMA DeleteSectionStep ==
    ASSUME IInv, NEW z \in SectionsHere, DeleteSection(z)
    PROVE  IInv'
<1> DEFINE row == [section[z] EXCEPT !.here = FALSE]
           B == ghost.mixed
<1>1. TypeOK /\ CallsKnow /\ EditsKnown /\ HistoryIsTrue /\ Links /\ Places
    BY DEF IInv
<1>2. /\ question' = Unsectioned(z) /\ section' = [section EXCEPT ![z] = row]
      /\ history' = history /\ item' = item /\ call' = call
      /\ Arrives /\ ghost' = [ghost EXCEPT !.mixed = B, !.calls = @ + 1]
    <2>1. /\ question' = Unsectioned(z) /\ section' = [section EXCEPT ![z] = row]
          /\ history' = history /\ item' = item /\ call' = call
          /\ Arrives /\ ghost' = Counted(ghost)
        BY DEF DeleteSection
    <2>2. Counted(ghost) = [ghost EXCEPT !.mixed = B, !.calls = @ + 1]
        BY <1>1, Counters DEF Counted
    <2> HIDE DEF row, B
    <2> QED
        BY <2>1, <2>2
<1>3. /\ z \in 1 .. Len(section) /\ z # 0 /\ row \in Section /\ ~row.here
      /\ section \in Seq(Section) /\ DOMAIN section = 1 .. Len(section) /\ B \in BOOLEAN
    <2>1. /\ section \in Seq(Section) /\ DOMAIN section = 1 .. Len(section)
          /\ Len(section) \in Nat /\ z \in DOMAIN section /\ section[z] \in Section
        BY <1>1, Rows DEF SectionsHere
    <2>2. z \in 1 .. Len(section) /\ z # 0
        BY <2>1
    <2>3. row \in Section /\ ~row.here
        BY <2>1 DEF Section
    <2>4. B \in BOOLEAN
        BY <1>1, Counters
    <2> QED
        BY <2>1, <2>2, <2>3, <2>4
<1> HIDE DEF row, B
<1>4. /\ section' \in Seq(Section) /\ Len(section') = Len(section)
      /\ DOMAIN section' = DOMAIN section
      /\ \A s \in DOMAIN section : section'[s] = IF s = z THEN row ELSE section[s]
    <2>1. /\ section' \in Seq(Section) /\ Len(section') = Len(section)
          /\ \A s \in 1 .. Len(section) : section'[s] = IF s = z THEN row ELSE section[s]
        BY <1>2, <1>3, ExceptSeq
    <2> QED
        BY <1>3, <2>1, LenProperties
<1>5. \A q \in DOMAIN question :
         /\ question'[q] \in Question /\ question'[q].here = question[q].here
         /\ question'[q].item = question[q].item
         /\ question'[q].now \in Content /\ question'[q].now.text = question[q].now.text
         /\ question'[q].now.section =
                IF question[q].now.section = z THEN 0 ELSE question[q].now.section
    <2>1. ASSUME NEW q \in DOMAIN question
          PROVE  /\ question'[q] \in Question /\ question'[q].here = question[q].here
                 /\ question'[q].item = question[q].item
                 /\ question'[q].now \in Content
                 /\ question'[q].now.text = question[q].now.text
                 /\ question'[q].now.section =
                        IF question[q].now.section = z THEN 0 ELSE question[q].now.section
        <3> DEFINE now == [question[q].now EXCEPT !.section = 0]
        <3>1. question[q] \in Question /\ question[q].now \in Content
            BY <1>1, Rows DEF Question
        <3>2. now \in Content /\ now.text = question[q].now.text /\ now.section = 0
            BY <3>1 DEF Content
        <3>3. question'[q] = IF question[q].now.section = z
                             THEN [question[q] EXCEPT !.now = now] ELSE question[q]
            BY <1>2 DEF Unsectioned
        <3> HIDE DEF now
        <3>4. CASE question[q].now.section = z
            BY <3>1, <3>2, <3>3, <3>4 DEF Question
        <3>5. CASE question[q].now.section # z
            BY <3>1, <3>3, <3>5
        <3> QED
            BY <3>4, <3>5
    <2> QED
        BY <2>1
<1>6. /\ question' \in Seq(Question) /\ Len(question') = Len(question)
      /\ DOMAIN question' = DOMAIN question
    <2>1. question' \in [DOMAIN question -> Question]
        BY <1>2, <1>5 DEF Unsectioned
    <2> QED
        BY <1>1, <2>1, QuestionsMapped
<1>7. /\ CallsKnow' /\ call' \in [Request -> {Idle} \cup Loaded]
      /\ Len(section') \in Nat /\ Len(section) <= Len(section')
    <2>1. Len(section') \in Nat /\ Len(section) <= Len(section')
        BY <1>1, <1>4, Rows
    <2> QED
        BY <1>1, <1>2, <1>6, <2>1, CallsEnd
<1>8. TypeOK' /\ ghost'.made = ghost.made /\ ghost'.crossed = ghost.crossed
      /\ ghost'.mixed = ghost.mixed
    <2>1. item' \in Seq(BOOLEAN)
        BY <1>1, <1>2, Rows
    <2>2. TypeOK' /\ ghost'.made = ghost.made /\ ghost'.crossed = ghost.crossed
          /\ ghost'.mixed = B
        BY <1>1, <1>2, <1>3, <1>4, <1>6, <1>7, <2>1, PastKept
    <2> QED
        BY <2>2 DEF B
<1>9. SectionsHere' = SectionsHere \ {z}
    BY <1>3, <1>4 DEF SectionsHere
<1>10. /\ ItemsHere' = ItemsHere /\ QuestionsHere' = QuestionsHere
       /\ QuestionsHere \subseteq DOMAIN question
    BY <1>2, <1>5, <1>6 DEF QuestionsHere, ItemsHere
<1>11. HistoryIsTrue'
    <2>1. \A q \in QuestionsHere' :
             /\ q \in QuestionsHere /\ history'[q] = history[q] /\ ghost'.made[q] = ghost.made[q]
             /\ question'[q].now \in Content
             /\ question'[q].now.text = question[q].now.text
             /\ \/ question'[q].now.section = question[q].now.section
                \/ /\ question'[q].now.section = 0
                   /\ question[q].now.section \notin SectionsHere' \cup {0}
        BY <1>2, <1>3, <1>5, <1>8, <1>9, <1>10
    <2>2. \A s \in 0 .. Len(section) : s \notin SectionsHere \cup {0} => s \notin SectionsHere'
        BY <1>9
    <2> QED
        BY <1>1, <2>1, <2>2, HistoryKept
<1>12. EditsKnown'
    BY <1>1, <1>2, <1>7, <1>8, EditsKept
<1>13. Links'
    <2>1. \A q \in QuestionsHere \ ghost.crossed :
             /\ question'[q].now.section \in SectionsHere' \cup {0}
             /\ question'[q].item \in ItemsHere' \cup {0}
        BY <1>1, <1>5, <1>9, <1>10 DEF Links
    <2> QED
        BY <1>8, <1>10, <2>1 DEF Links
<1>14. Places'
    <2>1. \A s \in SectionsHere' : s \in SectionsHere /\ section'[s].order = section[s].order
        BY <1>4, <1>9 DEF SectionsHere
    <2> QED
        BY <1>1, <1>8, <2>1, PlacesKept
<1> QED
    BY <1>7, <1>8, <1>11, <1>12, <1>13, <1>14 DEF IInv

(* A complete order gives every section a place of its own.                *)
LEMMA ReorderStep ==
    ASSUME IInv, NEW r \in Request, Reorder(r)
    PROVE  IInv'
<1> DEFINE list == call[r].list
           place(s) == CHOOSE i \in DOMAIN list : list[i] = s
           listed == {list[i] : i \in DOMAIN list}
           B == ~(SectionsHere \subseteq listed)
<1>1. TypeOK /\ CallsKnow /\ EditsKnown /\ HistoryIsTrue /\ Links /\ Places
    BY DEF IInv
<1>2. /\ call[r].op = "reorder" /\ call' = [call EXCEPT ![r] = Idle]
      /\ section' = [s \in DOMAIN section |->
            IF s \in listed /\ section[s].here
            THEN [section[s] EXCEPT !.order = place(s) - 1] ELSE section[s]]
      /\ question' = question /\ history' = history /\ item' = item
      /\ ghost' = [ghost EXCEPT !.mixed = B]
    BY DEF Reorder, Done
<1>3. list \in Seq(Nat) /\ DOMAIN list = 1 .. Len(list) /\ Len(list) \in Nat
    <2>1. list \in Seq(Nat)
        BY <1>1, <1>2, Holds
    <2> QED
        BY <2>1, LenProperties
<1> HIDE DEF list
<1>4. \A s \in listed : place(s) \in DOMAIN list /\ list[place(s)] = s /\ place(s) - 1 \in Nat
    <2>1. ASSUME NEW s \in listed
          PROVE  place(s) \in DOMAIN list /\ list[place(s)] = s
        <3>1. \E i \in DOMAIN list : list[i] = s
            OBVIOUS
        <3> QED
            BY <3>1
    <2> HIDE DEF place, listed
    <2>2. \A i \in DOMAIN list : i - 1 \in Nat
        BY <1>3
    <2> QED
        BY <2>1, <2>2
<1> HIDE DEF place, listed
<1>5. \A s \in DOMAIN section :
         /\ section'[s] \in Section /\ section'[s].here = section[s].here
         /\ s \in listed /\ section[s].here => section'[s].order = place(s) - 1
    <2>1. ASSUME NEW s \in DOMAIN section
          PROVE  /\ section'[s] \in Section /\ section'[s].here = section[s].here
                 /\ s \in listed /\ section[s].here => section'[s].order = place(s) - 1
        <3>1. section[s] \in Section
            BY <1>1, Rows
        <3>2. CASE s \in listed /\ section[s].here
            <4>1. section'[s] = [section[s] EXCEPT !.order = place(s) - 1]
                BY <1>2, <3>2
            <4> QED
                BY <1>4, <3>1, <3>2, <4>1 DEF Section
        <3>3. CASE ~(s \in listed /\ section[s].here)
            BY <1>2, <3>1, <3>3
        <3> QED
            BY <3>2, <3>3
    <2> QED
        BY <2>1
<1>6. /\ section' \in Seq(Section) /\ Len(section') = Len(section)
      /\ DOMAIN section' = DOMAIN section
    <2>1. section' \in [1 .. Len(section) -> Section] /\ Len(section) \in Nat
        BY <1>1, <1>2, <1>5, Rows
    <2> QED
        BY <1>1, <2>1, Rows
<1>7. /\ CallsKnow' /\ call' \in [Request -> {Idle} \cup Loaded]
      /\ Len(section') \in Nat /\ Len(section) <= Len(section')
    <2>1. Len(section') \in Nat /\ Len(section) <= Len(section')
        BY <1>1, <1>6, Rows
    <2> QED
        BY <1>1, <1>2, <2>1, CallsEnd
<1>8. TypeOK' /\ ghost'.made = ghost.made /\ ghost'.crossed = ghost.crossed /\ ghost'.mixed = B
    <2>1. B \in BOOLEAN
        OBVIOUS
    <2> HIDE DEF B
    <2>2. question' \in Seq(Question) /\ item' \in Seq(BOOLEAN)
          /\ Len(question') = Len(question) /\ DOMAIN question' = DOMAIN question
        BY <1>1, <1>2, Rows
    <2> QED
        BY <1>1, <1>2, <1>6, <1>7, <2>1, <2>2, PastKept
<1>9. /\ SectionsHere' = SectionsHere /\ ItemsHere' = ItemsHere
      /\ QuestionsHere' = QuestionsHere
    BY <1>2, <1>5, <1>6 DEF SectionsHere, ItemsHere, QuestionsHere
<1>10. HistoryIsTrue'
    BY <1>1, <1>2, <1>8, <1>9, HistoryKept, StaysGone, NowTyped
<1>11. EditsKnown'
    BY <1>1, <1>2, <1>7, <1>8, EditsKept
<1>12. Links'
    BY <1>1, <1>2, <1>8, <1>9, LinksKept
<1>13. Places'
    <2>1. ASSUME SectionsHere \subseteq listed, NEW s \in SectionsHere, NEW t \in SectionsHere,
                 s # t
          PROVE  section'[s].order # section'[t].order
        <3>1. section'[s].order = place(s) - 1 /\ section'[t].order = place(t) - 1
            BY <1>5, <2>1 DEF SectionsHere
        <3>2. place(s) # place(t) /\ place(s) \in Nat /\ place(t) \in Nat
            BY <1>3, <1>4, <2>1
        <3>3. \A a, b \in Nat : a # b => a - 1 # b - 1
            OBVIOUS
        <3>4. place(s) - 1 # place(t) - 1
            BY <3>2, <3>3
        <3> QED
            BY <3>1, <3>4
    <2> QED
        BY <1>8, <1>9, <2>1 DEF Places
<1> QED
    BY <1>7, <1>8, <1>10, <1>11, <1>12, <1>13 DEF IInv

-----------------------------------------------------------------------------
(* The bank.                                                               *)

LEMMA NewItemStep ==
    ASSUME IInv, NewItem
    PROVE  IInv'
<1> DEFINE B == ghost.mixed
<1>1. TypeOK /\ CallsKnow /\ EditsKnown /\ HistoryIsTrue /\ Links /\ Places
    BY DEF IInv
<1>2. /\ item' = Append(item, TRUE)
      /\ question' = question /\ history' = history /\ section' = section /\ call' = call
      /\ Arrives /\ ghost' = [ghost EXCEPT !.mixed = B, !.calls = @ + 1]
    BY <1>1, Counters DEF NewItem, Counted
<1>3. /\ item' \in Seq(BOOLEAN) /\ DOMAIN item = 1 .. Len(item) /\ Len(item) \in Nat
      /\ DOMAIN item' = 1 .. Len(item) + 1 /\ \A i \in 1 .. Len(item) : item'[i] = item[i]
    <2>1. item \in Seq(BOOLEAN) /\ DOMAIN item = 1 .. Len(item) /\ TRUE \in BOOLEAN
        BY <1>1, Rows
    <2> QED
        BY <1>2, <2>1, Grown
<1>4. /\ CallsKnow' /\ call' \in [Request -> {Idle} \cup Loaded]
      /\ Len(section') \in Nat /\ Len(section) <= Len(section')
    <2>1. Len(section') \in Nat /\ Len(section) <= Len(section')
        BY <1>1, <1>2, Rows
    <2> QED
        BY <1>1, <1>2, <2>1, CallsEnd
<1>5. TypeOK' /\ ghost'.made = ghost.made /\ ghost'.crossed = ghost.crossed /\ ghost'.mixed = B
    <2>1. B \in BOOLEAN
        BY <1>1, Counters
    <2> HIDE DEF B
    <2>2. question' \in Seq(Question) /\ section' \in Seq(Section)
          /\ Len(question') = Len(question) /\ DOMAIN question' = DOMAIN question
        BY <1>1, <1>2, Rows
    <2> QED
        BY <1>1, <1>2, <1>3, <1>4, <2>1, <2>2, PastKept
<1>6. /\ QuestionsHere' = QuestionsHere /\ SectionsHere' = SectionsHere
      /\ ItemsHere \subseteq ItemsHere'
    <2>1. \A i \in 1 .. Len(item) : i \in 1 .. Len(item) + 1
        BY <1>3
    <2> QED
        BY <1>2, <1>3, <2>1 DEF QuestionsHere, SectionsHere, ItemsHere
<1>7. HistoryIsTrue'
    BY <1>1, <1>2, <1>5, <1>6, HistoryKept, StaysGone, NowTyped
<1>8. EditsKnown'
    BY <1>1, <1>2, <1>4, <1>5, EditsKept
<1>9. Links'
    BY <1>1, <1>2, <1>5, <1>6, LinksKept
<1>10. Places'
    BY <1>1, <1>2, <1>5, <1>6, PlacesKept
<1> QED
    BY <1>4, <1>5, <1>7, <1>8, <1>9, <1>10 DEF IInv

LEMMA DeleteItemStep ==
    ASSUME IInv, NEW b \in ItemsHere, DeleteItem(b)
    PROVE  IInv'
<1> DEFINE B == ghost.mixed
<1>1. TypeOK /\ CallsKnow /\ EditsKnown /\ HistoryIsTrue /\ Links /\ Places
    BY DEF IInv
<1>2. /\ question' = [q \in DOMAIN question |->
            IF question[q].item = b THEN [question[q] EXCEPT !.item = 0] ELSE question[q]]
      /\ item' = [item EXCEPT ![b] = FALSE]
      /\ history' = history /\ section' = section /\ call' = call
      /\ Arrives /\ ghost' = [ghost EXCEPT !.mixed = B, !.calls = @ + 1]
    BY <1>1, Counters DEF DeleteItem, Counted
<1>3. /\ item' \in Seq(BOOLEAN) /\ ItemsHere' = ItemsHere \ {b}
    <2>1. item \in Seq(BOOLEAN) /\ DOMAIN item = 1 .. Len(item) /\ b \in 1 .. Len(item)
        BY <1>1, Rows DEF ItemsHere
    <2>2. /\ item' \in Seq(BOOLEAN) /\ Len(item') = Len(item)
          /\ \A i \in 1 .. Len(item) : item'[i] = IF i = b THEN FALSE ELSE item[i]
        BY <1>2, <2>1, ExceptSeq
    <2>3. DOMAIN item' = 1 .. Len(item)
        BY <2>2, LenProperties
    <2> QED
        BY <2>1, <2>2, <2>3 DEF ItemsHere
<1>4. \A q \in DOMAIN question :
         /\ question'[q] \in Question /\ question'[q].here = question[q].here
         /\ question'[q].now = question[q].now
         /\ question'[q].item = IF question[q].item = b THEN 0 ELSE question[q].item
    <2>1. ASSUME NEW q \in DOMAIN question
          PROVE  /\ question'[q] \in Question /\ question'[q].here = question[q].here
                 /\ question'[q].now = question[q].now
                 /\ question'[q].item = IF question[q].item = b THEN 0 ELSE question[q].item
        <3>1. question[q] \in Question
            BY <1>1, Rows
        <3>2. question'[q] = IF question[q].item = b THEN [question[q] EXCEPT !.item = 0]
                             ELSE question[q]
            BY <1>2
        <3> QED
            BY <3>1, <3>2 DEF Question
    <2> QED
        BY <2>1
<1>5. /\ question' \in Seq(Question) /\ Len(question') = Len(question)
      /\ DOMAIN question' = DOMAIN question
    <2>1. question' \in [DOMAIN question -> Question]
        BY <1>2, <1>4
    <2> QED
        BY <1>1, <2>1, QuestionsMapped
<1>6. /\ CallsKnow' /\ call' \in [Request -> {Idle} \cup Loaded]
      /\ Len(section') \in Nat /\ Len(section) <= Len(section')
    <2>1. Len(section') \in Nat /\ Len(section) <= Len(section')
        BY <1>1, <1>2, Rows
    <2> QED
        BY <1>1, <1>2, <1>5, <2>1, CallsEnd
<1>7. TypeOK' /\ ghost'.made = ghost.made /\ ghost'.crossed = ghost.crossed /\ ghost'.mixed = B
    <2>1. B \in BOOLEAN
        BY <1>1, Counters
    <2> HIDE DEF B
    <2>2. section' \in Seq(Section)
        BY <1>1, <1>2, Rows
    <2> QED
        BY <1>1, <1>2, <1>3, <1>5, <1>6, <2>1, <2>2, PastKept
<1>8. /\ QuestionsHere' = QuestionsHere /\ SectionsHere' = SectionsHere
      /\ QuestionsHere \subseteq DOMAIN question
    BY <1>2, <1>4, <1>5 DEF QuestionsHere, SectionsHere
<1>9. HistoryIsTrue'
    BY <1>1, <1>2, <1>4, <1>7, <1>8, HistoryKept, StaysGone, NowTyped
<1>10. EditsKnown'
    BY <1>1, <1>2, <1>6, <1>7, EditsKept
<1>11. Links'
    <2>1. \A q \in QuestionsHere \ ghost.crossed :
             /\ question'[q].now.section \in SectionsHere \cup {0}
             /\ question'[q].item \in ItemsHere' \cup {0}
        BY <1>1, <1>3, <1>4, <1>8 DEF Links
    <2> QED
        BY <1>7, <1>8, <2>1 DEF Links
<1>12. Places'
    BY <1>1, <1>2, <1>7, <1>8, PlacesKept
<1> QED
    BY <1>6, <1>7, <1>9, <1>10, <1>11, <1>12 DEF IInv

-----------------------------------------------------------------------------
(* The invariant.                                                          *)

LEMMA Start ==
    ASSUME Init
    PROVE  IInv
<1>1. /\ question = <<>> /\ history = <<>> /\ section = <<>> /\ item = <<>>
      /\ call = [r \in Request |-> Idle]
      /\ ghost = [made |-> <<>>, crossed |-> {}, mixed |-> FALSE, calls |-> 0]
    BY DEF Init
<1>2. QuestionsHere = {} /\ SectionsHere = {}
    BY <1>1 DEF QuestionsHere, SectionsHere
<1>3. TypeOK
    <2>1. <<>> \in Seq(Question) /\ <<>> \in Seq(Section) /\ <<>> \in Seq(BOOLEAN)
        OBVIOUS
    <2>2. <<>> \in Seq(Seq(Revision)) /\ <<>> \in Seq(Seq(Edit)) /\ Len(<<>>) = 0
        OBVIOUS
    <2>3. call \in [Request -> {Idle} \cup Loaded]
        BY <1>1
    <2>4. 0 \in 0 .. MaxCalls
        BY BoundAssumption
    <2>5. ghost \in [made : Seq(Seq(Edit)), crossed : SUBSET DOMAIN question,
                     mixed : BOOLEAN, calls : 0 .. MaxCalls]
        BY <1>1, <2>2, <2>4
    <2> QED
        BY <1>1, <2>1, <2>2, <2>3, <2>5 DEF TypeOK
<1>4. CallsKnow
    BY <1>1 DEF CallsKnow, Idle
<1>5. EditsKnown
    BY <1>1 DEF EditsKnown
<1>6. HistoryIsTrue /\ Links /\ Places
    BY <1>2 DEF HistoryIsTrue, Links, Places
<1> QED
    BY <1>3, <1>4, <1>5, <1>6 DEF IInv

LEMMA Step ==
    ASSUME IInv, [Next]_vars
    PROVE  IInv'
<1>1. ASSUME NEW r \in Request, QuestionStep(r)
      PROVE  IInv'
    <2>1. CASE Loads(r)
        BY <2>1, QuietStep
    <2>2. CASE CommitAdd(r) \/ CommitPick(r)
        BY <2>2, NewStep
    <2>3. CASE CommitEdit(r)
        BY <2>3, EditStep
    <2>4. Loads(r) \/ CommitAdd(r) \/ CommitPick(r) \/ CommitEdit(r)
        BY <1>1 DEF QuestionStep, Loads
    <2> QED
        BY <2>1, <2>2, <2>3, <2>4
<1>2. ASSUME NEW r \in Request, SectionStep(r)
      PROVE  IInv'
    <2>1. CASE Loads(r)
        BY <2>1, QuietStep
    <2>2. CASE CommitSection(r)
        BY <2>2, CommitSectionStep
    <2>3. CASE Reorder(r)
        BY <2>3, ReorderStep
    <2>4. Loads(r) \/ CommitSection(r) \/ Reorder(r)
        BY <1>2 DEF SectionStep, Loads
    <2> QED
        BY <2>1, <2>2, <2>3, <2>4
<1>3. ASSUME NEW r \in Request, GiveUp(r)
      PROVE  IInv'
    BY <1>3, QuietStep
<1>4. ASSUME NEW rows \in [1 .. 2 -> Typed], Import(rows)
      PROVE  IInv'
    BY <1>4, NewStep
<1>5. ASSUME NEW q \in QuestionsHere, DeleteQuestion(q)
      PROVE  IInv'
    BY <1>5, DeleteStep
<1>6. ASSUME NewItem
      PROVE  IInv'
    BY <1>6, NewItemStep
<1>7. ASSUME NEW s \in SectionsHere, DeleteSection(s)
      PROVE  IInv'
    BY <1>7, DeleteSectionStep
<1>8. ASSUME NEW b \in ItemsHere, DeleteItem(b)
      PROVE  IInv'
    BY <1>8, DeleteItemStep
<1>9. CASE UNCHANGED vars
    BY <1>9, QuietStep
<1> QED
    BY <1>1, <1>2, <1>3, <1>4, <1>5, <1>6, <1>7, <1>8, <1>9 DEF Next, AddItem, SaveToBank

(* At all times: the types hold, a request knows what it will write to,    *)
(* every revision has its edit, the history is true, and the links and the *)
(* places of what was not crossed or mixed are sound.                      *)
THEOREM Invariance == Spec => []IInv
<1>1. Init => IInv
    BY Start
<1>2. IInv /\ [Next]_vars => IInv'
    BY Step
<1> QED
    BY <1>1, <1>2, PTL DEF Spec

(* The rows of a test and what its requests hold keep their types          *)
(* (models.py: Question, QuestionRevision, Section, QuestionBankItem).     *)
THEOREM TypeCorrect == Spec => []TypeOK
<1>1. IInv => TypeOK
    BY DEF IInv
<1> QED
    BY <1>1, Invariance, PTL

(* The history page tells the truth (edit_question, question_history),     *)
(* whatever edits overlap and sections are deleted.                        *)
THEOREM History == Spec => []HistoryIsTrue
<1>1. IInv => HistoryIsTrue
    BY DEF IInv
<1> QED
    BY <1>1, Invariance, PTL

(* No question dangles but by a crossed deletion, and the sections are     *)
(* ordered strictly but for an order given by what no longer held          *)
(* (add_section, reorder_sections, delete_section, delete_bank_item).      *)
THEOREM Structure == Spec => []StructureIsSound
<1>1. IInv => StructureIsSound
    BY DEF IInv, Links, Places, StructureIsSound
<1> QED
    BY <1>1, Invariance, PTL

=============================================================================
