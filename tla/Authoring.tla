----------------------------- MODULE Authoring -----------------------------
(***************************************************************************)
(* The content of one test, written by several authors at a time           *)
(* (admin.py): its questions and the history of their edits, its sections  *)
(* and their order, and the bank that questions are copied from.           *)
(*                                                                         *)
(* A request that looks something up and writes by it later is a call with *)
(* a Load and a Commit step; one that only writes is one step.  A question *)
(* has two fields: its text, which stands for everything an author types,  *)
(* and its section.  Ids count from 1; 0 is None.                          *)
(***************************************************************************)
EXTENDS Naturals, Sequences, FiniteSets, FiniteSetsExt

CONSTANTS
    Value,         \* what the fields of a question can say
    Request,       \* requests that can be worked on together
    MaxQuestions,  \* bound: questions ever added
    MaxSections,   \* bound: sections ever added
    MaxItems,      \* bound: bank items ever added
    MaxCalls       \* bound: requests

ASSUME BoundAssumption ==
    MaxQuestions \in Nat /\ MaxSections \in Nat /\ MaxItems \in Nat /\ MaxCalls \in Nat

VARIABLES
    question,  \* questions by id
    history,   \* question_revisions of each question: old values by field
    section,   \* sections by id
    item,      \* question_bank by id: is it there?
    call,      \* each request
    ghost      \* what the properties remember; no code reads it

vars == <<question, history, section, item, call, ghost>>

Field == {"text", "section"}
Idle == [op |-> "idle"]
Content == [text : Value, section : Nat]
Question == [here : BOOLEAN, now : Content, item : Nat]
Revision == [text : Value] \cup [section : Nat] \cup Content
Section == [here : BOOLEAN, order : Nat]
Edit == [from : Content, to : Content, stale : SUBSET Field]
Loaded ==
    [op : {"add"}, text : Value, section : Nat]
    \cup [op : {"pick"}, text : Value, item : Nat]
    \cup [op : {"edit"}, of : Nat, old : Content, new : Content]
    \cup [op : {"section"}, order : Nat]
    \cup [op : {"reorder"}, list : Seq(Nat)]

(* ghost: made are the edits behind the revisions: the values before and   *)
(* after each, and the fields that had changed since the edit loaded them; *)
(* crossed are the questions given a link to a row that was deleted after  *)
(* it was looked up; mixed says that the sections were numbered by a       *)
(* request that did not know what was there when it was committed.         *)
TypeOK ==
    /\ question \in Seq(Question)
    /\ history \in Seq(Seq(Revision)) /\ Len(history) = Len(question)
    /\ section \in Seq(Section)
    /\ item \in Seq(BOOLEAN)
    /\ call \in [Request -> {Idle} \cup Loaded]
    /\ ghost \in [made : Seq(Seq(Edit)), crossed : SUBSET DOMAIN question,
                  mixed : BOOLEAN, calls : 0 .. MaxCalls]
    /\ Len(ghost.made) = Len(question)

Init ==
    /\ question = <<>> /\ history = <<>> /\ section = <<>> /\ item = <<>>
    /\ call = [r \in Request |-> Idle]
    /\ ghost = [made |-> <<>>, crossed |-> {}, mixed |-> FALSE, calls |-> 0]

SectionsHere == {s \in DOMAIN section : section[s].here}
ItemsHere == {b \in DOMAIN item : item[b]}
QuestionsHere == {q \in DOMAIN question : question[q].here}

Counted(g) == [g EXCEPT !.calls = @ + 1]
Arrives == ghost.calls < MaxCalls

Begin(r, c) ==
    /\ call[r] = Idle /\ Arrives
    /\ call' = [call EXCEPT ![r] = c]
    /\ ghost' = Counted(ghost)
    /\ UNCHANGED <<question, history, section, item>>

Done(r) == call' = [call EXCEPT ![r] = Idle]

(* A request that fails, a row that is gone when it is written, or, where  *)
(* the database checks foreign keys, a link to a row that is gone.         *)
GiveUp(r) ==
    /\ call[r] # Idle
    /\ Done(r)
    /\ UNCHANGED <<question, history, section, item, ghost>>

----------------------------------------------------------------------------
(* Questions.                                                              *)

(* What is typed in, fit for the type of the question or not.              *)
Typed == Value \cup {"unfit"}

(* _parse_question_fields: what does not fit is refused.                   *)
Fit(v) == v \in Value

(* A section that is not one of the test's is left out.                    *)
Checked(s) == IF s \in SectionsHere THEN s ELSE 0

NewQuestion(v, s, b) == [here |-> TRUE, now |-> [text |-> v, section |-> s], item |-> b]

Added(new, g) ==
    /\ Len(question) + Len(new) <= MaxQuestions
    /\ question' = question \o new
    /\ history' = history \o [i \in DOMAIN new |-> <<>>]
    /\ ghost' = [g EXCEPT
            !.made = @ \o [i \in DOMAIN new |-> <<>>],
            !.crossed = @ \cup
                {Len(question) + i : i \in {j \in DOMAIN new :
                    \/ new[j].now.section \notin SectionsHere \cup {0}
                    \/ new[j].item \notin ItemsHere \cup {0}}}]

LoadAdd(r, v, s) == Fit(v) /\ Begin(r, [op |-> "add", text |-> v, section |-> Checked(s)])

CommitAdd(r) ==
    /\ call[r].op = "add"
    /\ Added(<<NewQuestion(call[r].text, call[r].section, 0)>>, ghost)
    /\ Done(r)
    /\ UNCHANGED <<section, item>>

(* import_questions: the rows of a file, one after the other, but those    *)
(* that do not fit, in one transaction.                                    *)
Taken(rows) ==
    LET upto[i \in 0 .. Len(rows)] ==
            IF i = 0 THEN <<>>
            ELSE IF Fit(rows[i]) THEN Append(upto[i - 1], NewQuestion(rows[i], 0, 0))
            ELSE upto[i - 1]
    IN upto[Len(rows)]

Import(rows) ==
    /\ Arrives
    /\ Added(Taken(rows), Counted(ghost))
    /\ UNCHANGED <<section, item, call>>

LoadPick(r, v, b) ==
    /\ b \in ItemsHere
    /\ Begin(r, [op |-> "pick", text |-> v, item |-> b])

CommitPick(r) ==
    /\ call[r].op = "pick"
    /\ Added(<<NewQuestion(call[r].text, 0, call[r].item)>>, ghost)
    /\ Done(r)
    /\ UNCHANGED <<section, item>>

(* edit_question: the form has every field, whenever it was opened.        *)
LoadEdit(r, q, v, s) ==
    /\ q \in QuestionsHere /\ Fit(v)
    /\ Begin(r, [op |-> "edit", of |-> q, old |-> question[q].now,
                 new |-> [text |-> v, section |-> Checked(s)]])

(* The fields the edit is about to change, by what it has loaded.          *)
Changed(c) == {f \in Field : c.old[f] # c.new[f]}

(* One transaction writes the changed fields and, if there are any, their  *)
(* old values.                                                             *)
CommitEdit(r) ==
    LET c == call[r]
        q == c.of
        is == question[q].now
        written == [f \in Field |-> IF f \in Changed(c) THEN c.new[f] ELSE is[f]] IN
    /\ call[r].op = "edit" /\ question[q].here
    /\ Done(r)
    /\ IF Changed(c) = {} THEN UNCHANGED <<question, history, ghost>>
       ELSE
        /\ question' = [question EXCEPT ![q].now = written]
        /\ history' = [history EXCEPT ![q] = Append(@, [f \in Changed(c) |-> c.old[f]])]
        /\ ghost' = [ghost EXCEPT
               !.made[q] = Append(@, [from |-> is, to |-> written,
                                      stale |-> {f \in Field : c.old[f] # is[f]}]),
               !.crossed = IF written.section \in SectionsHere \cup {0} THEN @ ELSE @ \cup {q}]
    /\ UNCHANGED <<section, item>>

(* With its history; its answers are Grading's.                            *)
DeleteQuestion(q) ==
    /\ q \in QuestionsHere /\ Arrives
    /\ question' = [question EXCEPT ![q].here = FALSE]
    /\ history' = [history EXCEPT ![q] = <<>>]
    /\ ghost' = Counted([ghost EXCEPT !.made[q] = <<>>, !.crossed = @ \ {q}])
    /\ UNCHANGED <<section, item, call>>

(* Mutant: every revision shows today's value as what it changed to.       *)
NowInstead(q, i, f) == question[q].now[f]

(* question_history: what a revision is said to have changed a field to.   *)
After(q, i, f) ==
    LET later == {j \in DOMAIN history[q] : j > i /\ f \in DOMAIN history[q][j]} IN
    IF later = {} THEN question[q].now[f] ELSE history[q][Min(later)][f]

----------------------------------------------------------------------------
(* Sections.                                                               *)

NextOrder ==
    IF SectionsHere = {} THEN 1 ELSE Max({section[s].order : s \in SectionsHere}) + 1

LoadSection(r) == Begin(r, [op |-> "section", order |-> NextOrder])

CommitSection(r) ==
    /\ call[r].op = "section" /\ Len(section) < MaxSections
    /\ section' = Append(section, [here |-> TRUE, order |-> call[r].order])
    /\ Done(r)
    /\ ghost' = [ghost EXCEPT !.mixed = @ \/ call[r].order # NextOrder]
    /\ UNCHANGED <<question, history, item>>

(* Mutant: the questions of a deleted section keep its id.                 *)
LeftAlone(s) == question

(* Its questions are kept, now unsectioned; no revision says so.           *)
Unsectioned(s) ==
    [q \in DOMAIN question |->
        IF question[q].now.section = s THEN [question[q] EXCEPT !.now.section = 0]
        ELSE question[q]]

DeleteSection(s) ==
    /\ s \in SectionsHere /\ Arrives
    /\ question' = Unsectioned(s)
    /\ section' = [section EXCEPT ![s].here = FALSE]
    /\ ghost' = Counted(ghost)
    /\ UNCHANGED <<history, item, call>>

(* The page lists the sections it was loaded with, in the order dragged.   *)
OpenOrder(r, list) ==
    /\ {list[i] : i \in DOMAIN list} = SectionsHere
    /\ Begin(r, [op |-> "reorder", list |-> list])

Reorder(r) ==
    LET list == call[r].list
        place(s) == CHOOSE i \in DOMAIN list : list[i] = s
        listed == {list[i] : i \in DOMAIN list} IN
    /\ call[r].op = "reorder"
    /\ section' = [s \in DOMAIN section |->
            IF s \in listed /\ section[s].here
            THEN [section[s] EXCEPT !.order = place(s) - 1] ELSE section[s]]
    /\ Done(r)
    /\ ghost' = [ghost EXCEPT !.mixed = ~(SectionsHere \subseteq listed)]
    /\ UNCHANGED <<question, history, item>>

----------------------------------------------------------------------------
(* The bank.                                                               *)

NewItem ==
    /\ Len(item) < MaxItems /\ Arrives
    /\ item' = Append(item, TRUE)
    /\ ghost' = Counted(ghost)
    /\ UNCHANGED <<question, history, section, call>>

AddItem(v) == Fit(v) /\ NewItem

SaveToBank(q) == q \in QuestionsHere /\ NewItem

(* The copies stay in their tests; only the link is cleared.               *)
DeleteItem(b) ==
    /\ b \in ItemsHere /\ Arrives
    /\ question' = [q \in DOMAIN question |->
            IF question[q].item = b THEN [question[q] EXCEPT !.item = 0] ELSE question[q]]
    /\ item' = [item EXCEPT ![b] = FALSE]
    /\ ghost' = Counted(ghost)
    /\ UNCHANGED <<history, section, call>>

Orders == {list \in [1 .. Cardinality(SectionsHere) -> SectionsHere] :
              \A i, j \in DOMAIN list : list[i] = list[j] => i = j}

QuestionStep(r) ==
    \/ \E v \in Typed, s \in 0 .. MaxSections :
          LoadAdd(r, v, s) \/ \E q \in QuestionsHere : LoadEdit(r, q, v, s)
    \/ \E v \in Value, b \in ItemsHere : LoadPick(r, v, b)
    \/ CommitAdd(r) \/ CommitPick(r) \/ CommitEdit(r)

SectionStep(r) ==
    \/ LoadSection(r) \/ CommitSection(r)
    \/ \E list \in Orders : OpenOrder(r, list)
    \/ Reorder(r)

Next ==
    \/ \E r \in Request : QuestionStep(r) \/ SectionStep(r) \/ GiveUp(r)
    \/ \E rows \in [1 .. 2 -> Typed] : Import(rows)
    \/ \E q \in QuestionsHere : DeleteQuestion(q) \/ SaveToBank(q)
    \/ \E s \in SectionsHere : DeleteSection(s)
    \/ \E v \in Typed : AddItem(v)
    \/ \E b \in ItemsHere : DeleteItem(b)

Spec == Init /\ [][Next]_vars

----------------------------------------------------------------------------

(* QuestionRevision is for a dispute: what a question said before and      *)
(* after each edit.  The old value of a revision is the one its edit       *)
(* replaced and the new value shown for it is the one its edit wrote, with *)
(* two exceptions: an edit that overlapped another one of the same field,  *)
(* and a section that was deleted afterwards, which no revision records.   *)
HistoryIsTrue ==
    \A q \in QuestionsHere : \A i \in DOMAIN history[q] : \A f \in DOMAIN history[q][i] :
        LET edit == ghost.made[q][i]
            deleted == f = "section" /\ edit.to[f] \notin SectionsHere \cup {0} IN
        /\ f \notin edit.stale => history[q][i][f] = edit.from[f]
        /\ \/ After(q, i, f) = edit.to[f]
           \/ deleted /\ After(q, i, f) = 0
           \/ \E j \in DOMAIN history[q] : j > i /\ f \in ghost.made[q][j].stale

(* A question names no section and no bank item that is not there, unless  *)
(* the row was deleted between the request that looked it up and its       *)
(* commit.  The exam shows the sections in their order: each has a place   *)
(* of its own, unless one was numbered by what no longer held, added with  *)
(* another or with a new order at the same time, or left out of an order   *)
(* posted from a page loaded before it.  A complete order mends it.        *)
StructureIsSound ==
    /\ \A q \in QuestionsHere \ ghost.crossed :
           /\ question[q].now.section \in SectionsHere \cup {0}
           /\ question[q].item \in ItemsHere \cup {0}
    /\ \A s, t \in SectionsHere :
           s # t /\ ~ghost.mixed => section[s].order # section[t].order
=============================================================================
