------------------------------ MODULE Projects ------------------------------
(***************************************************************************)
(* Projects and their questions (src/projects, src/questions): rows of     *)
(* PostgreSQL that are soft-deleted, written by short transactions at      *)
(* READ COMMITTED without any row lock.                                    *)
(*                                                                         *)
(* A request loads a row, and its COMMIT writes only the columns whose     *)
(* value differs from the loaded one, as SQLAlchemy does.  One user owns   *)
(* all rows: the queries of two users never meet.  updated_at, company     *)
(* texts and lengths are left out, and so are the pure reads.              *)
(***************************************************************************)
EXTENDS Integers, FiniteSetsExt

CONSTANTS
    ProjectIds, QuestionIds,
    Opened,         \* the project that is there at the start
    Requests,
    Operation,      \* Operation[r]: what request r does
    ProjectOf,      \* ProjectOf[r]: the project in the path of r
    QuestionOf,     \* QuestionOf[r]: the question in the path of r
    Values,         \* values of the one column a PATCH sets
    MaxBatch        \* bound on the questions of one request

ProjectOps == {"createProject", "renameProject", "deleteProject"}
QuestionOps == {"addQuestions", "editQuestion", "toggleQuestion", "deleteQuestion"}

ASSUME ProjectsAssumption ==
    /\ QuestionIds \subseteq Nat /\ IsFiniteSet(QuestionIds) /\ Opened \in ProjectIds
    /\ Operation \in [Requests -> ProjectOps \cup QuestionOps]
    /\ ProjectOf \in [Requests -> ProjectIds]
    /\ QuestionOf \in [Requests -> QuestionIds]
    /\ MaxBatch \in Nat

VARIABLES
    projects,   \* projects[p]: [status, company]
    questions,  \* questions[q]: [status, project, order, answer, completed]
    at,         \* control point of a request
    loaded,     \* loaded[r]: the row the session of r holds
    base        \* base[r]: the next order r has computed

pvars == <<projects, questions, at, loaded, base>>
rows == <<projects, questions>>

Absent == [status |-> "absent"]
Statuses == {"absent", "live", "deleted"}

Live(p) == {q \in QuestionIds :
                questions[q].status = "live" /\ questions[q].project = p}

\* Mutant of NewQuestion: the questions are enumerated from 0.
NewQuestionFromZero(p, n) ==
    [status |-> "live", project |-> p, order |-> n - 1,
     answer |-> 0, completed |-> FALSE]

NewQuestion(p, n) ==
    [status |-> "live", project |-> p, order |-> n,
     answer |-> 0, completed |-> FALSE]

\* A project with two questions; the other ids have never been used.
ProjectsInit ==
    /\ projects = [p \in ProjectIds |->
                      IF p = Opened THEN [status |-> "live", company |-> 0] ELSE Absent]
    /\ questions = [q \in QuestionIds |->
                       IF q \in 1..2 THEN NewQuestion(Opened, q) ELSE Absent]
    /\ at = [r \in Requests |-> "begin"]
    /\ loaded = [r \in Requests |-> Absent]
    /\ base = [r \in Requests |-> 0]

Jump(r, label) == at' = [at EXCEPT ![r] = label]

\* The session is closed: what it had loaded is gone.
EndRequest(r) ==
    /\ Jump(r, "end")
    /\ loaded' = [loaded EXCEPT ![r] = Absent]

\* A statement or a commit fails: the transaction leaves nothing behind.
RequestFails(r) ==
    /\ at[r] # "end"
    /\ EndRequest(r)
    /\ UNCHANGED <<rows, base>>

----------------------------------------------------------------------------
\* n new rows of project p, with unused ids and the orders from first on.
Insert(p, first, n) ==
    LET unused == {q \in QuestionIds : questions[q].status = "absent"}
        rank(q) == Cardinality({x \in unused : x < q})
        new == {q \in unused : rank(q) < n}
    IN
    /\ n <= Cardinality(unused)
    /\ questions' = [q \in QuestionIds |->
                        IF q \in new THEN NewQuestion(p, first + rank(q))
                        ELSE questions[q]]

\* create_project: the project and its questions, possibly none, in one commit.
CreateProject(r) ==
    LET p == ProjectOf[r] IN
    /\ at[r] = "begin" /\ Operation[r] = "createProject"
    /\ projects[p].status = "absent"
    /\ projects' = [projects EXCEPT ![p] = [status |-> "live", company |-> 0]]
    /\ \E n \in 0..MaxBatch : Insert(p, 1, n)
    /\ EndRequest(r)
    /\ UNCHANGED base

\* create_question(s_bulk): 404 unless the project is there.
FindProject(r) ==
    /\ at[r] = "begin" /\ Operation[r] = "addQuestions"
    /\ IF projects[ProjectOf[r]].status = "live"
       THEN Jump(r, "found") /\ UNCHANGED loaded
       ELSE EndRequest(r)
    /\ UNCHANGED <<rows, base>>

\* get_next_order: max(order) + 1 over the questions not deleted.
NextOrder(p) == Max({questions[q].order : q \in Live(p)} \cup {0}) + 1

ComputeOrder(r) ==
    /\ at[r] = "found"
    /\ base' = [base EXCEPT ![r] = NextOrder(ProjectOf[r])]
    /\ Jump(r, "ordered")
    /\ UNCHANGED <<rows, loaded>>

\* The commit looks neither at the project nor at the orders again.
InsertQuestions(r) ==
    /\ at[r] = "ordered"
    /\ \E n \in 1..MaxBatch : Insert(ProjectOf[r], base[r], n)
    /\ EndRequest(r)
    /\ UNCHANGED <<projects, base>>

----------------------------------------------------------------------------
\* get_question of the router: 404 for a question that is deleted or belongs
\* to another project than the one in the path.
LoadQuestion(r) ==
    LET q == questions[QuestionOf[r]] IN
    /\ at[r] = "begin"
    /\ Operation[r] \in {"editQuestion", "toggleQuestion", "deleteQuestion"}
    /\ IF q.status = "live" /\ q.project = ProjectOf[r]
       THEN loaded' = [loaded EXCEPT ![r] = q] /\ Jump(r, "loaded")
       ELSE EndRequest(r)
    /\ UNCHANGED <<rows, base>>

\* Mutant of Changed: the whole loaded row is written back.
ChangedRow(row, old, new) == new

\* UPDATE with the columns that differ from the loaded row.
Changed(row, old, new) ==
    [k \in DOMAIN row |-> IF new[k] # old[k] THEN new[k] ELSE row[k]]

SaveQuestion(r, new) ==
    /\ questions' = [questions EXCEPT ![QuestionOf[r]] = Changed(@, loaded[r], new)]
    /\ EndRequest(r)
    /\ UNCHANGED <<projects, base>>

\* update_question: setattr of the fields that were sent.
EditQuestion(r) ==
    /\ at[r] = "loaded" /\ Operation[r] = "editQuestion"
    /\ \E v \in Values : SaveQuestion(r, [loaded[r] EXCEPT !.answer = v])

\* toggle_question_complete: the negation of the loaded value.
ToggleQuestion(r) ==
    /\ at[r] = "loaded" /\ Operation[r] = "toggleQuestion"
    /\ SaveQuestion(r, [loaded[r] EXCEPT !.completed = ~@])

\* delete_question: 400 for the last question of the project.
CountQuestions(r) ==
    /\ at[r] = "loaded" /\ Operation[r] = "deleteQuestion"
    /\ IF Cardinality(Live(loaded[r].project)) <= 1
       THEN EndRequest(r)
       ELSE Jump(r, "counted") /\ UNCHANGED loaded
    /\ UNCHANGED <<rows, base>>

DeleteQuestion(r) ==
    /\ at[r] = "counted"
    /\ SaveQuestion(r, [loaded[r] EXCEPT !.status = "deleted"])

----------------------------------------------------------------------------
\* get_project: 404 unless it is there; its own commit only touches updated_at.
LoadProject(r) ==
    LET p == projects[ProjectOf[r]] IN
    /\ at[r] = "begin" /\ Operation[r] \in {"renameProject", "deleteProject"}
    /\ IF p.status = "live"
       THEN loaded' = [loaded EXCEPT ![r] = p] /\ Jump(r, "loaded")
       ELSE EndRequest(r)
    /\ UNCHANGED <<rows, base>>

SaveProject(r, new) ==
    /\ projects' = [projects EXCEPT ![ProjectOf[r]] = Changed(@, loaded[r], new)]
    /\ EndRequest(r)
    /\ UNCHANGED <<questions, base>>

RenameProject(r) ==
    /\ at[r] = "loaded" /\ Operation[r] = "renameProject"
    /\ \E v \in Values : SaveProject(r, [loaded[r] EXCEPT !.company = v])

\* delete_project: the questions of the project stay as they are.
DeleteProject(r) ==
    /\ at[r] = "loaded" /\ Operation[r] = "deleteProject"
    /\ SaveProject(r, [loaded[r] EXCEPT !.status = "deleted"])

AllEnded == \A r \in Requests : at[r] = "end"

Act(r) ==
    \/ RequestFails(r)  \/ CreateProject(r)
    \/ FindProject(r)   \/ ComputeOrder(r)   \/ InsertQuestions(r)
    \/ LoadQuestion(r)  \/ EditQuestion(r)   \/ ToggleQuestion(r)
    \/ CountQuestions(r) \/ DeleteQuestion(r)
    \/ LoadProject(r)   \/ RenameProject(r)  \/ DeleteProject(r)

ProjectsNext == (\E r \in Requests : Act(r)) \/ (AllEnded /\ UNCHANGED pvars)

ProjectsSpec == ProjectsInit /\ [][ProjectsNext]_pvars
----------------------------------------------------------------------------
(* Properties                                                              *)

ProjectRow == {Absent} \cup
    [status : {"live", "deleted"}, company : Values \cup {0}]
QuestionRow == {Absent} \cup
    [status : {"live", "deleted"}, project : ProjectIds, order : Nat \ {0},
     answer : Values \cup {0}, completed : BOOLEAN]

ProjectsTypeOK ==
    /\ projects \in [ProjectIds -> ProjectRow]
    /\ questions \in [QuestionIds -> QuestionRow]
    /\ at \in [Requests -> {"begin", "found", "ordered", "loaded", "counted", "end"}]
    /\ loaded \in [Requests -> ProjectRow \cup QuestionRow]
    /\ base \in [Requests -> Nat]

\* What has been deleted stays deleted, although edits, toggles and renames
\* that loaded the row before the deletion are written after it
\* (update_question, questions/service.py:132).
DeletedStays ==
    [][/\ \A q \in QuestionIds :
             questions[q].status = "deleted" => questions'[q].status = "deleted"
       /\ \A p \in ProjectIds :
             projects[p].status = "deleted" => projects'[p].status = "deleted"]_pvars

\* A request that changes one column never undoes what another request has
\* done to a different column of the same question since it loaded the row.
EditsKeepOthers ==
    [][\A q \in QuestionIds :
          questions[q].status # "absent" =>
             Cardinality({k \in {"answer", "completed", "status"} :
                             questions'[q][k] # questions[q][k]}) <= 1]_pvars
=============================================================================
