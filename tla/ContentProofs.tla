---------------------------- MODULE ContentProofs ----------------------------
(***************************************************************************)
(* Proofs about Projects and ChatHistory, for every set of projects,       *)
(* questions, requests and messages, and about the composition of Content. *)
(*                                                                         *)
(* No request locks a row or reads it again.  What keeps a deletion is     *)
(* that a request only loads rows that are live (LoadedInv) and writes     *)
(* back only the column it has changed (SaveShape): an edit that is late   *)
(* never carries the old status.  That the rows keep their types also      *)
(* takes that nothing is inserted before an order has been computed        *)
(* (RowTypesInv), and that there is a largest order (LargestExists).       *)
(*                                                                         *)
(* The cursor of a page is its oldest message, and every message that was  *)
(* there at the first page has been received or is older (WalkInv): a page *)
(* never passes one by, as no two messages are of one instant              *)
(* (MessagesInv).                                                          *)
(***************************************************************************)
EXTENDS Content, ExperiencesProofs, AuthProofs, FiniteSetTheorems,
        SequenceTheorems, WellFoundedInduction, TLAPS

QuestionFields == {"status", "project", "order", "answer", "completed"}
ProjectFields == {"status", "company"}

Holding == {"loaded", "counted"}
OnQuestion == {"editQuestion", "toggleQuestion", "deleteQuestion"}
OnProject == {"renameProject", "deleteProject"}

RowsInv ==
    /\ DOMAIN projects = ProjectIds /\ DOMAIN questions = QuestionIds
    /\ \A q \in QuestionIds :
          questions[q].status # "absent" => DOMAIN questions[q] = QuestionFields
    /\ \A p \in ProjectIds :
          projects[p].status # "absent" => DOMAIN projects[p] = ProjectFields

\* What a request holds was live when it was loaded, and rows do not vanish.
LoadedInv ==
    /\ DOMAIN at = Requests /\ DOMAIN loaded = Requests
    /\ \A r \in Requests : at[r] \in Holding =>
          /\ loaded[r].status = "live"
          /\ at[r] = "counted" => Operation[r] = "deleteQuestion"
          /\ \/ /\ Operation[r] \in OnQuestion
                /\ DOMAIN loaded[r] = QuestionFields
                /\ questions[QuestionOf[r]].status # "absent"
             \/ /\ Operation[r] \in OnProject
                /\ DOMAIN loaded[r] = ProjectFields
                /\ projects[ProjectOf[r]].status # "absent"

ProjectsInv == RowsInv /\ LoadedInv

\* A row written over another one: at most the column f differs, and a status
\* only becomes "deleted".
OneColumn(old, new, f) ==
    /\ DOMAIN new = DOMAIN old
    /\ \A k \in DOMAIN old : new[k] # old[k] => k = f
    /\ new.status # old.status => new.status = "deleted"

\* What a step does to a table: nothing, new rows where there were none, or one
\* column of one row.
TableStep(before, after, ids, fields) ==
    /\ DOMAIN after = ids
    /\ \/ after = before
       \/ \A i \in ids : \/ after[i] = before[i]
                         \/ /\ before[i].status = "absent"
                            /\ after[i].status = "live" /\ DOMAIN after[i] = fields
       \/ \E i \in ids, f \in fields :
             /\ before[i].status # "absent"
             /\ OneColumn(before[i], after[i], f)
             /\ \A j \in ids \ {i} : after[j] = before[j]

----------------------------------------------------------------------------
\* The UPDATE of one changed column.
LEMMA SaveShape ==
    ASSUME NEW row, NEW old, NEW new, NEW f \in DOMAIN row,
           DOMAIN old = DOMAIN row, DOMAIN new = DOMAIN row, "status" \in DOMAIN row,
           \A k \in DOMAIN row \ {f} : new[k] = old[k],
           new.status # old.status => new.status = "deleted"
    PROVE  OneColumn(row, Changed(row, old, new), f)
BY DEF OneColumn, Changed

\* Inserted rows take unused ids.
LEMMA InsertShape ==
    ASSUME RowsInv, NEW p, NEW first, NEW n, Insert(p, first, n)
    PROVE  TableStep(questions, questions', QuestionIds, QuestionFields)
BY DEF RowsInv, Insert, NewQuestion, TableStep, QuestionFields

LEMMA QuestionSaved ==
    ASSUME ProjectsInv, NEW r \in Requests, at[r] \in Holding,
           Operation[r] \in OnQuestion, NEW f \in {"answer", "completed", "status"}, NEW v,
           f = "status" => v = "deleted",
           SaveQuestion(r, [loaded[r] EXCEPT ![f] = v])
    PROVE  TableStep(questions, questions', QuestionIds, QuestionFields)
<1> DEFINE q == QuestionOf[r]  new == [loaded[r] EXCEPT ![f] = v]
<1>1. q \in QuestionIds
    BY ProjectsAssumption
<1>2. /\ questions[q].status # "absent" /\ DOMAIN loaded[r] = QuestionFields
      /\ DOMAIN questions = QuestionIds
    BY DEF ProjectsInv, RowsInv, LoadedInv, OnQuestion, OnProject
<1>3. DOMAIN questions[q] = QuestionFields
    BY <1>1, <1>2 DEF ProjectsInv, RowsInv
<1>4. /\ DOMAIN new = QuestionFields /\ f \in QuestionFields /\ "status" \in QuestionFields
      /\ \A k \in QuestionFields \ {f} : new[k] = loaded[r][k]
      /\ new.status # loaded[r].status => new.status = "deleted"
    BY <1>2 DEF QuestionFields
<1>5. questions' = [questions EXCEPT ![q] = Changed(questions[q], loaded[r], new)]
    BY <1>1, <1>2 DEF SaveQuestion
<1>6. OneColumn(questions[q], Changed(questions[q], loaded[r], new), f)
    BY <1>2, <1>3, <1>4, SaveShape
<1>7. /\ DOMAIN questions' = QuestionIds
      /\ OneColumn(questions[q], questions'[q], f)
      /\ \A j \in QuestionIds \ {q} : questions'[j] = questions[j]
    BY <1>1, <1>2, <1>5, <1>6
<1> QED
    BY <1>1, <1>2, <1>4, <1>7 DEF TableStep

LEMMA ProjectSaved ==
    ASSUME ProjectsInv, NEW r \in Requests, at[r] \in Holding,
           Operation[r] \in OnProject, NEW f \in {"company", "status"}, NEW v,
           f = "status" => v = "deleted",
           SaveProject(r, [loaded[r] EXCEPT ![f] = v])
    PROVE  TableStep(projects, projects', ProjectIds, ProjectFields)
<1> DEFINE p == ProjectOf[r]  new == [loaded[r] EXCEPT ![f] = v]
<1>1. p \in ProjectIds
    BY ProjectsAssumption
<1>2. /\ projects[p].status # "absent" /\ DOMAIN loaded[r] = ProjectFields
      /\ DOMAIN projects = ProjectIds
    BY DEF ProjectsInv, RowsInv, LoadedInv, OnQuestion, OnProject
<1>3. DOMAIN projects[p] = ProjectFields
    BY <1>1, <1>2 DEF ProjectsInv, RowsInv
<1>4. /\ DOMAIN new = ProjectFields /\ f \in ProjectFields /\ "status" \in ProjectFields
      /\ \A k \in ProjectFields \ {f} : new[k] = loaded[r][k]
      /\ new.status # loaded[r].status => new.status = "deleted"
    BY <1>2 DEF ProjectFields
<1>5. projects' = [projects EXCEPT ![p] = Changed(projects[p], loaded[r], new)]
    BY <1>1, <1>2 DEF SaveProject
<1>6. OneColumn(projects[p], Changed(projects[p], loaded[r], new), f)
    BY <1>2, <1>3, <1>4, SaveShape
<1>7. /\ DOMAIN projects' = ProjectIds
      /\ OneColumn(projects[p], projects'[p], f)
      /\ \A j \in ProjectIds \ {p} : projects'[j] = projects[j]
    BY <1>1, <1>2, <1>5, <1>6
<1> QED
    BY <1>1, <1>2, <1>4, <1>7 DEF TableStep

\* Every step of a request is a step of each table.
LEMMA ActShape ==
    ASSUME ProjectsInv, NEW r \in Requests, Act(r)
    PROVE  /\ TableStep(questions, questions', QuestionIds, QuestionFields)
           /\ TableStep(projects, projects', ProjectIds, ProjectFields)
<1>0. DOMAIN questions = QuestionIds /\ DOMAIN projects = ProjectIds
    BY DEF ProjectsInv, RowsInv
<1>1. CASE RequestFails(r) \/ FindProject(r) \/ ComputeOrder(r) \/ LoadQuestion(r)
           \/ CountQuestions(r) \/ LoadProject(r)
  <2>1. questions' = questions /\ projects' = projects
      BY <1>1 DEF RequestFails, FindProject, ComputeOrder, LoadQuestion,
                  CountQuestions, LoadProject, rows
  <2> QED
      BY <1>0, <2>1 DEF TableStep
<1>2. CASE CreateProject(r)
  <2>1. TableStep(questions, questions', QuestionIds, QuestionFields)
      BY <1>2, InsertShape DEF CreateProject, ProjectsInv
  <2>2. TableStep(projects, projects', ProjectIds, ProjectFields)
      BY <1>0, <1>2, ProjectsAssumption DEF CreateProject, TableStep, ProjectFields
  <2> QED
      BY <2>1, <2>2
<1>3. CASE InsertQuestions(r)
  <2>1. TableStep(questions, questions', QuestionIds, QuestionFields)
      BY <1>3, InsertShape DEF InsertQuestions, ProjectsInv
  <2>2. projects' = projects
      BY <1>3 DEF InsertQuestions
  <2> QED
      BY <1>0, <2>1, <2>2 DEF TableStep
<1>4. CASE EditQuestion(r) \/ ToggleQuestion(r) \/ DeleteQuestion(r)
  <2>1. PICK f \in {"answer", "completed", "status"} : \E v :
            /\ f = "status" => v = "deleted"
            /\ SaveQuestion(r, [loaded[r] EXCEPT ![f] = v])
      BY <1>4 DEF EditQuestion, ToggleQuestion, DeleteQuestion
  <2>2. at[r] \in Holding /\ Operation[r] \in OnQuestion
      BY <1>4 DEF EditQuestion, ToggleQuestion, DeleteQuestion, ProjectsInv, LoadedInv,
                  Holding, OnQuestion, OnProject
  <2>3. projects' = projects
      BY <2>1 DEF SaveQuestion
  <2> QED
      BY <1>0, <2>1, <2>2, <2>3, QuestionSaved DEF TableStep
<1>5. CASE RenameProject(r) \/ DeleteProject(r)
  <2>1. PICK f \in {"company", "status"} : \E v :
            /\ f = "status" => v = "deleted"
            /\ SaveProject(r, [loaded[r] EXCEPT ![f] = v])
      BY <1>5 DEF RenameProject, DeleteProject
  <2>2. at[r] \in Holding /\ Operation[r] \in OnProject
      BY <1>5 DEF RenameProject, DeleteProject, Holding, OnProject
  <2>3. questions' = questions
      BY <2>1 DEF SaveProject
  <2> QED
      BY <1>0, <2>1, <2>2, <2>3, ProjectSaved DEF TableStep
<1> QED
    BY <1>1, <1>2, <1>3, <1>4, <1>5 DEF Act

----------------------------------------------------------------------------
\* Rows keep their shape and do not vanish.
LEMMA TableKeeps ==
    ASSUME NEW before, NEW after, NEW ids, NEW fields,
           TableStep(before, after, ids, fields),
           \A i \in ids : before[i].status # "absent" => DOMAIN before[i] = fields
    PROVE  /\ DOMAIN after = ids
           /\ \A i \in ids : /\ after[i].status # "absent" => DOMAIN after[i] = fields
                             /\ before[i].status # "absent" => after[i].status # "absent"
                             /\ before[i].status = "deleted" => after[i].status = "deleted"
<1>1. CASE after = before
    BY <1>1 DEF TableStep
<1>2. CASE \A i \in ids : \/ after[i] = before[i]
                          \/ /\ before[i].status = "absent"
                             /\ after[i].status = "live" /\ DOMAIN after[i] = fields
  <2>1. \A i \in ids : after[i].status # "absent" => DOMAIN after[i] = fields
      BY <1>2
  <2>2. \A i \in ids : before[i].status # "absent" => after[i] = before[i]
      BY <1>2
  <2> QED
      BY <2>1, <2>2 DEF TableStep
<1>3. ASSUME NEW i \in ids, NEW f \in fields,
             before[i].status # "absent", OneColumn(before[i], after[i], f),
             \A j \in ids \ {i} : after[j] = before[j]
      PROVE  \A j \in ids : /\ after[j].status # "absent" => DOMAIN after[j] = fields
                            /\ before[j].status # "absent" => after[j].status # "absent"
                            /\ before[j].status = "deleted" => after[j].status = "deleted"
  <2>1. /\ DOMAIN after[i] = fields
        /\ after[i].status # before[i].status => after[i].status = "deleted"
      BY <1>3 DEF OneColumn
  <2> QED
      BY <1>3, <2>1
<1> QED
    BY <1>1, <1>2, <1>3 DEF TableStep

LEMMA InitProjects == ProjectsInit => ProjectsInv
<1> SUFFICES ASSUME ProjectsInit PROVE ProjectsInv
    OBVIOUS
<1>1. RowsInv
    BY DEF ProjectsInit, RowsInv, NewQuestion, Absent, QuestionFields, ProjectFields
<1>2. LoadedInv
    BY DEF ProjectsInit, LoadedInv, Holding
<1> QED
    BY <1>1, <1>2 DEF ProjectsInv

\* The request that moves: it holds nothing, or what it has just found live.
LEMMA ActHolds ==
    ASSUME ProjectsInv, NEW r \in Requests, Act(r), at'[r] \in Holding
    PROVE  /\ loaded'[r].status = "live"
           /\ at'[r] = "counted" => Operation[r] = "deleteQuestion"
           /\ \/ /\ Operation[r] \in OnQuestion
                 /\ DOMAIN loaded'[r] = QuestionFields
                 /\ questions[QuestionOf[r]].status # "absent"
              \/ /\ Operation[r] \in OnProject
                 /\ DOMAIN loaded'[r] = ProjectFields
                 /\ projects[ProjectOf[r]].status # "absent"
<1>0. /\ r \in DOMAIN at /\ r \in DOMAIN loaded
      /\ QuestionOf[r] \in QuestionIds /\ ProjectOf[r] \in ProjectIds
    BY ProjectsAssumption DEF ProjectsInv, LoadedInv
<1>1. CASE RequestFails(r) \/ CreateProject(r) \/ FindProject(r) \/ ComputeOrder(r)
           \/ InsertQuestions(r)
    BY <1>0, <1>1 DEF RequestFails, CreateProject, FindProject, ComputeOrder,
                InsertQuestions, EndRequest, Jump, Holding
<1>2. CASE EditQuestion(r) \/ ToggleQuestion(r) \/ DeleteQuestion(r) \/ RenameProject(r)
           \/ DeleteProject(r)
    BY <1>0, <1>2 DEF EditQuestion, ToggleQuestion, DeleteQuestion, RenameProject,
                DeleteProject, SaveQuestion, SaveProject, EndRequest, Jump, Holding
<1>3. CASE LoadQuestion(r)
  <2>1. at'[r] = "loaded" /\ questions[QuestionOf[r]].status = "live"
        /\ loaded'[r] = questions[QuestionOf[r]]
      BY <1>0, <1>3 DEF LoadQuestion, EndRequest, Jump, Holding
  <2> QED
      BY <1>0, <1>3, <2>1 DEF LoadQuestion, ProjectsInv, RowsInv, OnQuestion
<1>4. CASE CountQuestions(r)
  <2>1. at'[r] = "counted" /\ loaded'[r] = loaded[r] /\ at[r] = "loaded"
      BY <1>0, <1>4 DEF CountQuestions, EndRequest, Jump, Holding
  <2> QED
      BY <1>4, <2>1 DEF CountQuestions, ProjectsInv, LoadedInv, Holding
<1>5. CASE LoadProject(r)
  <2>1. at'[r] = "loaded" /\ projects[ProjectOf[r]].status = "live"
        /\ loaded'[r] = projects[ProjectOf[r]]
      BY <1>0, <1>5 DEF LoadProject, EndRequest, Jump, Holding
  <2> QED
      BY <1>0, <1>5, <2>1 DEF LoadProject, ProjectsInv, RowsInv, OnProject
<1> QED
    BY <1>1, <1>2, <1>3, <1>4, <1>5 DEF Act

\* The others hold what they held.
LEMMA OthersHold ==
    ASSUME ProjectsInv, NEW r \in Requests, Act(r)
    PROVE  /\ DOMAIN at' = Requests /\ DOMAIN loaded' = Requests
           /\ \A b \in Requests \ {r} : at'[b] = at[b] /\ loaded'[b] = loaded[b]
<1>0. DOMAIN at = Requests /\ DOMAIN loaded = Requests
    BY DEF ProjectsInv, LoadedInv
<1>1. CASE RequestFails(r) \/ CreateProject(r) \/ FindProject(r) \/ ComputeOrder(r)
           \/ InsertQuestions(r)
    BY <1>0, <1>1 DEF RequestFails, CreateProject, FindProject, ComputeOrder,
                InsertQuestions, EndRequest, Jump
<1>2. CASE EditQuestion(r) \/ ToggleQuestion(r) \/ DeleteQuestion(r) \/ RenameProject(r)
           \/ DeleteProject(r)
    BY <1>0, <1>2 DEF EditQuestion, ToggleQuestion, DeleteQuestion, RenameProject,
                DeleteProject, SaveQuestion, SaveProject, EndRequest, Jump
<1>3. CASE LoadQuestion(r) \/ CountQuestions(r) \/ LoadProject(r)
    BY <1>0, <1>3 DEF LoadQuestion, CountQuestions, LoadProject, EndRequest, Jump
<1> QED
    BY <1>1, <1>2, <1>3 DEF Act

LEMMA NextProjects == ProjectsInv /\ [ProjectsNext]_pvars => ProjectsInv'
<1> SUFFICES ASSUME ProjectsInv, [ProjectsNext]_pvars PROVE ProjectsInv'
    OBVIOUS
<1>1. ASSUME NEW r \in Requests, Act(r) PROVE ProjectsInv'
  <2>1. /\ TableStep(questions, questions', QuestionIds, QuestionFields)
        /\ TableStep(projects, projects', ProjectIds, ProjectFields)
      BY <1>1, ActShape
  <2>2. /\ DOMAIN questions' = QuestionIds
        /\ \A q \in QuestionIds :
              /\ questions'[q].status # "absent" => DOMAIN questions'[q] = QuestionFields
              /\ questions[q].status # "absent" => questions'[q].status # "absent"
    <3>1. \A q \in QuestionIds :
             questions[q].status # "absent" => DOMAIN questions[q] = QuestionFields
        BY DEF ProjectsInv, RowsInv
    <3> QED
        BY <2>1, <3>1, TableKeeps
  <2>3. /\ DOMAIN projects' = ProjectIds
        /\ \A p \in ProjectIds :
              /\ projects'[p].status # "absent" => DOMAIN projects'[p] = ProjectFields
              /\ projects[p].status # "absent" => projects'[p].status # "absent"
    <3>1. \A p \in ProjectIds :
             projects[p].status # "absent" => DOMAIN projects[p] = ProjectFields
        BY DEF ProjectsInv, RowsInv
    <3> QED
        BY <2>1, <3>1, TableKeeps
  <2>4. RowsInv'
      BY <2>2, <2>3 DEF RowsInv
  <2>5. ASSUME NEW b \in Requests, at'[b] \in Holding
        PROVE  /\ loaded'[b].status = "live"
               /\ at'[b] = "counted" => Operation[b] = "deleteQuestion"
               /\ \/ /\ Operation[b] \in OnQuestion
                     /\ DOMAIN loaded'[b] = QuestionFields
                     /\ questions'[QuestionOf[b]].status # "absent"
                  \/ /\ Operation[b] \in OnProject
                     /\ DOMAIN loaded'[b] = ProjectFields
                     /\ projects'[ProjectOf[b]].status # "absent"
    <3>1. QuestionOf[b] \in QuestionIds /\ ProjectOf[b] \in ProjectIds
        BY ProjectsAssumption
    <3>2. CASE b = r
        BY <1>1, <2>2, <2>3, <2>5, <3>1, <3>2, ActHolds
    <3>3. CASE b # r
      <4>1. at'[b] = at[b] /\ loaded'[b] = loaded[b]
          BY <1>1, <3>3, OthersHold
      <4> QED
          BY <2>2, <2>3, <2>5, <3>1, <4>1 DEF ProjectsInv, LoadedInv
    <3> QED
        BY <3>2, <3>3
  <2>6. LoadedInv'
      BY <1>1, <2>5, OthersHold DEF LoadedInv
  <2> QED
      BY <2>4, <2>6 DEF ProjectsInv
<1>2. CASE UNCHANGED pvars
    BY <1>2 DEF pvars, ProjectsInv, RowsInv, LoadedInv
<1> QED
    BY <1>1, <1>2 DEF ProjectsNext

\* What the requests do is invariantly written to rows that are there.
THEOREM RowsInvariance == ProjectsSpec => []ProjectsInv
BY InitProjects, NextProjects, PTL DEF ProjectsSpec

----------------------------------------------------------------------------
\* What has been deleted stays deleted, although edits, toggles and renames
\* that loaded the row before the deletion are written after it
\* (update_question, toggle_question_complete, update_project).
THEOREM DeletionsLast == ProjectsSpec => DeletedStays
<1>1. ASSUME ProjectsInv, [ProjectsNext]_pvars
      PROVE  [/\ \A q \in QuestionIds :
                    questions[q].status = "deleted" => questions'[q].status = "deleted"
              /\ \A p \in ProjectIds :
                    projects[p].status = "deleted" => projects'[p].status = "deleted"]_pvars
  <2>1. ASSUME NEW r \in Requests, Act(r)
        PROVE  /\ \A q \in QuestionIds :
                    questions[q].status = "deleted" => questions'[q].status = "deleted"
               /\ \A p \in ProjectIds :
                    projects[p].status = "deleted" => projects'[p].status = "deleted"
    <3>1. /\ TableStep(questions, questions', QuestionIds, QuestionFields)
          /\ TableStep(projects, projects', ProjectIds, ProjectFields)
        BY <1>1, <2>1, ActShape
    <3>2. /\ \A q \in QuestionIds :
                questions[q].status # "absent" => DOMAIN questions[q] = QuestionFields
          /\ \A p \in ProjectIds :
                projects[p].status # "absent" => DOMAIN projects[p] = ProjectFields
        BY <1>1 DEF ProjectsInv, RowsInv
    <3>3. \A q \in QuestionIds :
             questions[q].status = "deleted" => questions'[q].status = "deleted"
        BY <3>1, <3>2, TableKeeps
    <3>4. \A p \in ProjectIds :
             projects[p].status = "deleted" => projects'[p].status = "deleted"
        BY <3>1, <3>2, TableKeeps
    <3> QED
        BY <3>3, <3>4
  <2> QED
      BY <1>1, <2>1 DEF ProjectsNext
<1> QED
    BY <1>1, RowsInvariance, PTL DEF ProjectsSpec, DeletedStays

\* A request that changes one column never undoes what another request has
\* done to a different column since it loaded the row (SaveShape).
THEOREM EditsApart == ProjectsSpec => EditsKeepOthers
<1>1. ASSUME ProjectsInv, [ProjectsNext]_pvars
      PROVE  [\A q \in QuestionIds :
                 questions[q].status # "absent" =>
                    Cardinality({k \in {"answer", "completed", "status"} :
                                    questions'[q][k] # questions[q][k]}) <= 1]_pvars
  <2>1. ASSUME NEW r \in Requests, Act(r), NEW q \in QuestionIds,
               questions[q].status # "absent"
        PROVE  Cardinality({k \in {"answer", "completed", "status"} :
                               questions'[q][k] # questions[q][k]}) <= 1
    <3> DEFINE D == {k \in {"answer", "completed", "status"} :
                        questions'[q][k] # questions[q][k]}
    <3>1. \E f : D \subseteq {f}
      <4>1. TableStep(questions, questions', QuestionIds, QuestionFields)
          BY <1>1, <2>1, ActShape
      <4>2. DOMAIN questions[q] = QuestionFields
          BY <1>1, <2>1 DEF ProjectsInv, RowsInv
      <4>3. CASE questions'[q] = questions[q]
          BY <4>3
      <4>4. CASE \E f : OneColumn(questions[q], questions'[q], f)
          BY <4>2, <4>4 DEF OneColumn, QuestionFields
      <4> QED
          BY <2>1, <4>1, <4>3, <4>4 DEF TableStep
    <3>2. D = {} \/ \E f : D = {f}
        BY <3>1
    <3>3. Cardinality(D) = 0 \/ Cardinality(D) = 1
        BY <3>2, FS_EmptySet, FS_Singleton
    <3> QED
        BY <3>3
  <2> QED
      BY <1>1, <2>1 DEF ProjectsNext
<1> QED
    BY <1>1, RowsInvariance, PTL DEF ProjectsSpec, EditsKeepOthers

----------------------------------------------------------------------------
(* The rows keep their types.                                               *)

\* A finite set of numbers that is not empty has a largest one.
LEMMA LargestExists ==
    ASSUME NEW S \in SUBSET Nat, IsFiniteSet(S), S # {}
    PROVE  \E x \in S : \A y \in S : x >= y
<1> DEFINE T == {U \in SUBSET S : U # {} /\ ~\E x \in U : \A y \in U : x >= y}
           R == StrictSubsetOrdering(S)
<1> SUFFICES ASSUME S \in T PROVE FALSE
    OBVIOUS
<1>1. T \subseteq FiniteSubsetsOf(S)
    BY FS_Subset DEF FiniteSubsetsOf
<1>2. PICK U \in T : \A V \in T : <<V, U>> \notin R
  <2>1. IsWellFoundedOn(R, FiniteSubsetsOf(S))
      BY FS_StrictSubsetOrderingWellFounded
  <2> HIDE DEF T, R
  <2> QED
      BY <1>1, <2>1, WFMin
<1>3. PICK x \in U : TRUE
    OBVIOUS
<1>4. U \ {x} \in SUBSET S /\ x \in Nat /\ U \subseteq Nat
    OBVIOUS
<1>5. CASE U \ {x} = {}
  <2>1. \A y \in U : x >= y
      BY <1>4, <1>5
  <2> QED
      BY <2>1
<1>6. CASE U \ {x} # {}
  <2>1. <<U \ {x}, U>> \in R
      BY <1>4 DEF StrictSubsetOrdering
  <2>2. PICK m \in U \ {x} : \A y \in U \ {x} : m >= y
      BY <1>2, <1>4, <1>6, <2>1
  <2>3. m \in Nat
      BY <1>4
  <2>4. CASE m >= x
    <3>1. \A y \in U : m >= y
        BY <2>2, <2>4
    <3> QED
        BY <3>1
  <2>5. CASE x >= m
    <3>1. \A y \in U : x >= y
        BY <1>4, <2>2, <2>3, <2>5
    <3> QED
        BY <3>1
  <2> QED
      BY <1>4, <2>3, <2>4, <2>5
<1> QED
    BY <1>5, <1>6

\* The next order is a number from 1 on.
LEMMA NextOrderType ==
    ASSUME questions \in [QuestionIds -> QuestionRow], NEW p
    PROVE  NextOrder(p) \in Nat \ {0}
<1> DEFINE orders == {questions[q].order : q \in Live(p)}  S == orders \cup {0}
<1>1. Live(p) \in SUBSET QuestionIds /\ IsFiniteSet(QuestionIds)
    BY ProjectsAssumption DEF Live
<1>2. IsFiniteSet(S)
  <2>1. IsFiniteSet(Live(p))
      BY <1>1, FS_Subset
  <2>2. IsFiniteSet(orders)
    <3> DEFINE f == [q \in Live(p) |-> questions[q].order]
    <3>1. f \in Surjection(Live(p), orders)
        BY DEF Surjection
    <3> QED
        BY <2>1, <3>1, FS_Surjection
  <2> QED
      BY <2>2, FS_AddElement
<1>3. S \in SUBSET Nat
  <2>1. ASSUME NEW q \in Live(p) PROVE questions[q].order \in Nat
      BY <2>1 DEF Live, QuestionRow, Absent
  <2> QED
      BY <2>1
<1>4. \E x \in S : \A y \in S : x >= y
  <2> HIDE DEF S
  <2>1. S # {}
      BY DEF S
  <2> QED
      BY <1>2, <1>3, <2>1, LargestExists
<1>5. Max(S) \in S
  <2> HIDE DEF S
  <2> QED
      BY <1>4 DEF Max
<1>6. NextOrder(p) = Max(S) + 1
    BY DEF NextOrder
<1>7. Max(S) \in Nat
  <2> HIDE DEF S
  <2> QED
      BY <1>3, <1>5
<1> HIDE DEF S, orders
<1> QED
    BY <1>6, <1>7

\* An order that waits for its insertion counts from 1, and a request holds a
\* row of the table that it works on.
RowTypesInv ==
    /\ ProjectsTypeOK
    /\ \A r \in Requests :
          /\ at[r] = "ordered" => base[r] # 0
          /\ at[r] \in Holding => loaded[r] \in IF Operation[r] \in OnQuestion
                                                THEN QuestionRow ELSE ProjectRow

\* Inserted rows are rows.
LEMMA InsertTypes ==
    ASSUME ProjectsTypeOK, NEW p \in ProjectIds, NEW first \in Nat \ {0}, NEW n,
           Insert(p, first, n)
    PROVE  questions' \in [QuestionIds -> QuestionRow]
<1> DEFINE unused == {q \in QuestionIds : questions[q].status = "absent"}
           rank(q) == Cardinality({x \in unused : x < q})
<1>1. \A q : rank(q) \in Nat
  <2> SUFFICES ASSUME NEW q PROVE rank(q) \in Nat
      OBVIOUS
  <2>1. {x \in unused : x < q} \in SUBSET QuestionIds /\ IsFiniteSet(QuestionIds)
      BY ProjectsAssumption
  <2>2. IsFiniteSet({x \in unused : x < q})
      BY <2>1, FS_Subset
  <2> QED
      BY <2>2, FS_CardinalityType
<1>2. \A q \in QuestionIds : NewQuestion(p, first + rank(q)) \in QuestionRow
  <2> SUFFICES ASSUME NEW q \in QuestionIds
               PROVE  NewQuestion(p, first + rank(q)) \in QuestionRow
      OBVIOUS
  <2>1. first + rank(q) \in Nat \ {0}
    <3>1. rank(q) \in Nat
        BY <1>1
    <3> HIDE DEF rank
    <3> QED
        BY <3>1
  <2> HIDE DEF rank
  <2> QED
      BY <2>1 DEF NewQuestion, QuestionRow
<1>3. /\ DOMAIN questions' = QuestionIds
      /\ \A q \in QuestionIds : \/ questions'[q] = NewQuestion(p, first + rank(q))
                                \/ questions'[q] = questions[q]
      /\ questions' = [q \in QuestionIds |-> questions'[q]]
    BY DEF Insert
<1>4. \A q \in QuestionIds : questions[q] \in QuestionRow
    BY DEF ProjectsTypeOK
<1>5. \A q \in QuestionIds : questions'[q] \in QuestionRow
    BY <1>2, <1>3, <1>4
<1> QED
    BY <1>3, <1>5

\* The row that an UPDATE leaves is a row.
LEMMA QuestionWritten ==
    ASSUME NEW row \in QuestionRow, NEW old \in QuestionRow, NEW new,
           row.status # "absent", old.status # "absent",
           NEW f \in {"answer", "completed", "status"}, NEW v,
           new = [old EXCEPT ![f] = v],
           f = "answer" => v \in Values, f = "completed" => v \in BOOLEAN,
           f = "status" => v = "deleted"
    PROVE  Changed(row, old, new) \in QuestionRow
<1> DEFINE w == Changed(row, old, new)
           full == [status : {"live", "deleted"}, project : ProjectIds, order : Nat \ {0},
                    answer : Values \cup {0}, completed : BOOLEAN]
<1>1. row \in full /\ old \in full
    BY DEF QuestionRow, Absent
<1>2. new \in full
  <2>1. CASE f = "answer"
      BY <1>1, <2>1
  <2>2. CASE f = "completed"
      BY <1>1, <2>2
  <2>3. CASE f = "status"
      BY <1>1, <2>3
  <2> QED
      BY <2>1, <2>2, <2>3
<1>3. /\ w = [k \in {"status", "project", "order", "answer", "completed"} |-> w[k]]
      /\ \A k \in {"status", "project", "order", "answer", "completed"} :
            w[k] = new[k] \/ w[k] = row[k]
    BY <1>1 DEF Changed
<1>4. /\ w["status"] \in {"live", "deleted"} /\ w["project"] \in ProjectIds
      /\ w["order"] \in Nat \ {0} /\ w["answer"] \in Values \cup {0}
      /\ w["completed"] \in BOOLEAN
  <2>1. w["status"] \in {"live", "deleted"}
      BY <1>1, <1>2, <1>3
  <2>2. w["project"] \in ProjectIds
      BY <1>1, <1>2, <1>3
  <2>3. w["order"] \in Nat \ {0}
      BY <1>1, <1>2, <1>3
  <2>4. w["answer"] \in Values \cup {0}
      BY <1>1, <1>2, <1>3
  <2>5. w["completed"] \in BOOLEAN
    <3>1. new["completed"] \in BOOLEAN /\ row["completed"] \in BOOLEAN
        BY <1>1, <1>2
    <3>2. w["completed"] = new["completed"] \/ w["completed"] = row["completed"]
        BY <1>3
    <3> QED
        BY <3>1, <3>2
  <2> QED
      BY <2>1, <2>2, <2>3, <2>4, <2>5
<1> HIDE DEF w
<1>5. w \in full
    BY <1>3, <1>4
<1> QED
    BY <1>5 DEF QuestionRow, w

LEMMA ProjectWritten ==
    ASSUME NEW row \in ProjectRow, NEW old \in ProjectRow, NEW new,
           row.status # "absent", old.status # "absent",
           NEW f \in {"company", "status"}, NEW v,
           new = [old EXCEPT ![f] = v],
           f = "company" => v \in Values, f = "status" => v = "deleted"
    PROVE  Changed(row, old, new) \in ProjectRow
<1> DEFINE w == Changed(row, old, new)
           full == [status : {"live", "deleted"}, company : Values \cup {0}]
<1>1. row \in full /\ old \in full
    BY DEF ProjectRow, Absent
<1>2. new \in full
  <2>1. CASE f = "company"
      BY <1>1, <2>1
  <2>2. CASE f = "status"
      BY <1>1, <2>2
  <2> QED
      BY <2>1, <2>2
<1>3. /\ w = [k \in {"status", "company"} |-> w[k]]
      /\ \A k \in {"status", "company"} : w[k] = new[k] \/ w[k] = row[k]
    BY <1>1 DEF Changed
<1>4. w["status"] \in {"live", "deleted"} /\ w["company"] \in Values \cup {0}
    BY <1>1, <1>2, <1>3
<1> HIDE DEF w
<1>5. w \in full
    BY <1>3, <1>4
<1> QED
    BY <1>5 DEF ProjectRow, w

LEMMA EndTypes ==
    ASSUME RowTypesInv, NEW r \in Requests, EndRequest(r), UNCHANGED base,
           projects' \in [ProjectIds -> ProjectRow],
           questions' \in [QuestionIds -> QuestionRow]
    PROVE  RowTypesInv'
<1>1. /\ at'[r] = "end" /\ \A b \in Requests \ {r} : at'[b] = at[b] /\ loaded'[b] = loaded[b]
      /\ at' \in [Requests -> {"begin", "found", "ordered", "loaded", "counted", "end"}]
      /\ loaded' \in [Requests -> ProjectRow \cup QuestionRow]
  <2>1. Absent \in ProjectRow
      BY DEF ProjectRow
  <2> QED
      BY <2>1 DEF EndRequest, Jump, RowTypesInv, ProjectsTypeOK
<1>2. ASSUME NEW b \in Requests
      PROVE  /\ at'[b] = "ordered" => base'[b] # 0
             /\ at'[b] \in Holding => loaded'[b] \in IF Operation[b] \in OnQuestion
                                                     THEN QuestionRow ELSE ProjectRow
  <2>1. CASE b = r
      BY <1>1, <2>1 DEF Holding
  <2>2. CASE b # r
      BY <1>1, <2>2 DEF RowTypesInv
  <2> QED
      BY <2>1, <2>2
<1>3. base' \in [Requests -> Nat]
    BY DEF RowTypesInv, ProjectsTypeOK
<1> QED
    BY <1>1, <1>2, <1>3 DEF RowTypesInv, ProjectsTypeOK

\* A request that goes on, with the row it holds.
LEMMA JumpTypes ==
    ASSUME RowTypesInv, NEW r \in Requests,
           NEW label \in {"found", "ordered", "loaded", "counted"}, Jump(r, label),
           NEW row \in ProjectRow \cup QuestionRow, loaded' = [loaded EXCEPT ![r] = row],
           label \in Holding => row \in IF Operation[r] \in OnQuestion
                                        THEN QuestionRow ELSE ProjectRow,
           NEW n \in Nat, base' = [base EXCEPT ![r] = n], label = "ordered" => n # 0,
           UNCHANGED rows
    PROVE  RowTypesInv'
<1>1. /\ at'[r] = label /\ loaded'[r] = row /\ base'[r] = n
      /\ \A b \in Requests \ {r} : /\ at'[b] = at[b] /\ loaded'[b] = loaded[b]
                                   /\ base'[b] = base[b]
    BY DEF Jump, RowTypesInv, ProjectsTypeOK
<1>2. /\ at' \in [Requests -> {"begin", "found", "ordered", "loaded", "counted", "end"}]
      /\ loaded' \in [Requests -> ProjectRow \cup QuestionRow]
      /\ base' \in [Requests -> Nat]
      /\ projects' \in [ProjectIds -> ProjectRow]
      /\ questions' \in [QuestionIds -> QuestionRow]
    BY DEF Jump, RowTypesInv, ProjectsTypeOK, rows
<1>3. ASSUME NEW b \in Requests
      PROVE  /\ at'[b] = "ordered" => base'[b] # 0
             /\ at'[b] \in Holding => loaded'[b] \in IF Operation[b] \in OnQuestion
                                                     THEN QuestionRow ELSE ProjectRow
  <2>1. CASE b = r
      BY <1>1, <2>1
  <2>2. CASE b # r
      BY <1>1, <2>2 DEF RowTypesInv
  <2> QED
      BY <2>1, <2>2
<1> QED
    BY <1>2, <1>3 DEF RowTypesInv, ProjectsTypeOK

LEMMA QuestionSavedTypes ==
    ASSUME ProjectsInv, RowTypesInv, NEW r \in Requests, at[r] \in Holding,
           Operation[r] \in OnQuestion, NEW f \in {"answer", "completed", "status"}, NEW v,
           f = "answer" => v \in Values, f = "completed" => v \in BOOLEAN,
           f = "status" => v = "deleted",
           SaveQuestion(r, [loaded[r] EXCEPT ![f] = v])
    PROVE  RowTypesInv'
<1> DEFINE q == QuestionOf[r]  new == [loaded[r] EXCEPT ![f] = v]
<1>1. q \in QuestionIds
    BY ProjectsAssumption
<1>2. /\ questions[q] \in QuestionRow /\ questions[q].status # "absent"
      /\ loaded[r] \in QuestionRow /\ loaded[r].status # "absent"
    BY <1>1 DEF ProjectsInv, LoadedInv, RowTypesInv, ProjectsTypeOK, OnQuestion, OnProject
<1>3. Changed(questions[q], loaded[r], new) \in QuestionRow
    BY <1>2, QuestionWritten
<1>4. questions' = [questions EXCEPT ![q] = Changed(questions[q], loaded[r], new)]
    BY <1>1 DEF SaveQuestion, RowTypesInv, ProjectsTypeOK
<1>5. questions' \in [QuestionIds -> QuestionRow]
  <2> DEFINE w == Changed(questions[q], loaded[r], new)
  <2>1. w \in QuestionRow /\ questions' = [questions EXCEPT ![q] = w]
      BY <1>3, <1>4
  <2> HIDE DEF w
  <2> QED
      BY <2>1 DEF RowTypesInv, ProjectsTypeOK
<1>6. EndRequest(r) /\ UNCHANGED <<projects, base>>
    BY DEF SaveQuestion
<1>7. projects' \in [ProjectIds -> ProjectRow]
    BY <1>6 DEF RowTypesInv, ProjectsTypeOK
<1> QED
    BY <1>5, <1>6, <1>7, EndTypes

LEMMA ProjectSavedTypes ==
    ASSUME ProjectsInv, RowTypesInv, NEW r \in Requests, at[r] \in Holding,
           Operation[r] \in OnProject, NEW f \in {"company", "status"}, NEW v,
           f = "company" => v \in Values, f = "status" => v = "deleted",
           SaveProject(r, [loaded[r] EXCEPT ![f] = v])
    PROVE  RowTypesInv'
<1> DEFINE p == ProjectOf[r]  new == [loaded[r] EXCEPT ![f] = v]
<1>1. p \in ProjectIds
    BY ProjectsAssumption
<1>2. /\ projects[p] \in ProjectRow /\ projects[p].status # "absent"
      /\ loaded[r] \in ProjectRow /\ loaded[r].status # "absent"
    BY <1>1 DEF ProjectsInv, LoadedInv, RowTypesInv, ProjectsTypeOK, OnQuestion, OnProject
<1>3. Changed(projects[p], loaded[r], new) \in ProjectRow
    BY <1>2, ProjectWritten
<1>4. projects' = [projects EXCEPT ![p] = Changed(projects[p], loaded[r], new)]
    BY <1>1 DEF SaveProject, RowTypesInv, ProjectsTypeOK
<1>5. projects' \in [ProjectIds -> ProjectRow]
  <2> DEFINE w == Changed(projects[p], loaded[r], new)
  <2>1. w \in ProjectRow /\ projects' = [projects EXCEPT ![p] = w]
      BY <1>3, <1>4
  <2> HIDE DEF w
  <2> QED
      BY <2>1 DEF RowTypesInv, ProjectsTypeOK
<1>6. EndRequest(r) /\ UNCHANGED <<questions, base>>
    BY DEF SaveProject
<1>7. questions' \in [QuestionIds -> QuestionRow]
    BY <1>6 DEF RowTypesInv, ProjectsTypeOK
<1> QED
    BY <1>5, <1>6, <1>7, EndTypes

LEMMA ActTypes ==
    ASSUME ProjectsInv, RowTypesInv, NEW r \in Requests, Act(r)
    PROVE  RowTypesInv'
<1> DEFINE q == QuestionOf[r]  p == ProjectOf[r]
<1>0. /\ q \in QuestionIds /\ p \in ProjectIds
      /\ projects \in [ProjectIds -> ProjectRow] /\ questions \in [QuestionIds -> QuestionRow]
      /\ loaded[r] \in ProjectRow \cup QuestionRow /\ base[r] \in Nat
      /\ DOMAIN loaded = Requests /\ DOMAIN base = Requests
      /\ loaded = [loaded EXCEPT ![r] = loaded[r]] /\ base = [base EXCEPT ![r] = base[r]]
    BY ProjectsAssumption DEF RowTypesInv, ProjectsTypeOK
<1>1. ASSUME EndRequest(r), UNCHANGED <<rows, base>> PROVE RowTypesInv'
    BY <1>0, <1>1, EndTypes DEF rows
<1>2. CASE RequestFails(r)
    BY <1>1, <1>2 DEF RequestFails
<1>3. CASE CreateProject(r)
  <2>1. PICK n \in 0..MaxBatch : Insert(p, 1, n)
      BY <1>3 DEF CreateProject
  <2>2. questions' \in [QuestionIds -> QuestionRow]
      BY <1>0, <2>1, InsertTypes DEF RowTypesInv
  <2>3. projects' = [projects EXCEPT ![p] = [status |-> "live", company |-> 0]]
        /\ EndRequest(r) /\ UNCHANGED base
      BY <1>3 DEF CreateProject
  <2>4. [status |-> "live", company |-> 0] \in ProjectRow
      BY DEF ProjectRow
  <2>5. projects' \in [ProjectIds -> ProjectRow]
      BY <1>0, <2>3, <2>4
  <2> QED
      BY <2>2, <2>3, <2>5, EndTypes
<1>4. CASE FindProject(r)
  <2>1. CASE EndRequest(r)
      BY <1>1, <1>4, <2>1 DEF FindProject
  <2>2. CASE Jump(r, "found") /\ UNCHANGED loaded
      BY <1>0, <1>4, <2>2, JumpTypes DEF FindProject, Holding
  <2> QED
      BY <1>4, <2>1, <2>2 DEF FindProject
<1>5. CASE ComputeOrder(r)
  <2> DEFINE n == NextOrder(p)
  <2>1. n \in Nat /\ n # 0
      BY <1>0, NextOrderType
  <2>2. base' = [base EXCEPT ![r] = n] /\ Jump(r, "ordered") /\ UNCHANGED <<rows, loaded>>
      BY <1>5 DEF ComputeOrder
  <2> HIDE DEF n
  <2> QED
      BY <1>0, <2>1, <2>2, JumpTypes DEF Holding
<1>6. CASE InsertQuestions(r)
  <2>1. PICK n \in 1..MaxBatch : Insert(p, base[r], n)
      BY <1>6 DEF InsertQuestions
  <2>2. base[r] \in Nat \ {0}
      BY <1>0, <1>6 DEF InsertQuestions, RowTypesInv
  <2>3. questions' \in [QuestionIds -> QuestionRow]
      BY <1>0, <2>1, <2>2, InsertTypes DEF RowTypesInv
  <2>4. EndRequest(r) /\ UNCHANGED <<projects, base>>
      BY <1>6 DEF InsertQuestions
  <2> QED
      BY <1>0, <2>3, <2>4, EndTypes
<1>7. CASE LoadQuestion(r)
  <2>1. CASE EndRequest(r)
      BY <1>1, <1>7, <2>1 DEF LoadQuestion
  <2>2. CASE loaded' = [loaded EXCEPT ![r] = questions[q]] /\ Jump(r, "loaded")
    <3>1. Operation[r] \in OnQuestion /\ questions[q] \in QuestionRow
          /\ UNCHANGED <<rows, base>>
        BY <1>0, <1>7 DEF LoadQuestion, OnQuestion
    <3> QED
        BY <1>0, <2>2, <3>1, JumpTypes
  <2> QED
      BY <1>7, <2>1, <2>2 DEF LoadQuestion
<1>8. CASE CountQuestions(r)
  <2>1. CASE EndRequest(r)
      BY <1>1, <1>8, <2>1 DEF CountQuestions
  <2>2. CASE Jump(r, "counted") /\ UNCHANGED loaded
    <3>1. Operation[r] \in OnQuestion /\ loaded[r] \in QuestionRow
          /\ UNCHANGED <<rows, base>>
        BY <1>8 DEF CountQuestions, OnQuestion, RowTypesInv, Holding
    <3> QED
        BY <1>0, <2>2, <3>1, JumpTypes
  <2> QED
      BY <1>8, <2>1, <2>2 DEF CountQuestions
<1>9. CASE LoadProject(r)
  <2>1. CASE EndRequest(r)
      BY <1>1, <1>9, <2>1 DEF LoadProject
  <2>2. CASE loaded' = [loaded EXCEPT ![r] = projects[p]] /\ Jump(r, "loaded")
    <3>1. Operation[r] \notin OnQuestion /\ projects[p] \in ProjectRow
          /\ UNCHANGED <<rows, base>>
        BY <1>0, <1>9 DEF LoadProject, OnQuestion
    <3> QED
        BY <1>0, <2>2, <3>1, JumpTypes
  <2> QED
      BY <1>9, <2>1, <2>2 DEF LoadProject
<1>10. CASE EditQuestion(r)
  <2>1. PICK v \in Values : SaveQuestion(r, [loaded[r] EXCEPT !["answer"] = v])
      BY <1>10 DEF EditQuestion
  <2> QED
      BY <1>10, <2>1, QuestionSavedTypes DEF EditQuestion, OnQuestion, Holding
<1>11. CASE ToggleQuestion(r)
  <2> DEFINE v == ~loaded[r].completed
  <2>1. SaveQuestion(r, [loaded[r] EXCEPT !["completed"] = v]) /\ v \in BOOLEAN
      BY <1>11 DEF ToggleQuestion
  <2> HIDE DEF v
  <2> QED
      BY <1>11, <2>1, QuestionSavedTypes DEF ToggleQuestion, OnQuestion, Holding
<1>12. CASE DeleteQuestion(r)
  <2>1. Operation[r] = "deleteQuestion" /\ at[r] \in Holding
      BY <1>12 DEF DeleteQuestion, ProjectsInv, LoadedInv, Holding
  <2>2. SaveQuestion(r, [loaded[r] EXCEPT !["status"] = "deleted"])
      BY <1>12 DEF DeleteQuestion
  <2> QED
      BY <2>1, <2>2, QuestionSavedTypes DEF OnQuestion
<1>13. CASE RenameProject(r)
  <2>1. PICK v \in Values : SaveProject(r, [loaded[r] EXCEPT !["company"] = v])
      BY <1>13 DEF RenameProject
  <2> QED
      BY <1>13, <2>1, ProjectSavedTypes DEF RenameProject, OnProject, Holding
<1>14. CASE DeleteProject(r)
  <2>1. SaveProject(r, [loaded[r] EXCEPT !["status"] = "deleted"])
      BY <1>14 DEF DeleteProject
  <2> QED
      BY <1>14, <2>1, ProjectSavedTypes DEF DeleteProject, OnProject, Holding
<1> QED
    BY <1>2, <1>3, <1>4, <1>5, <1>6, <1>7, <1>8, <1>9, <1>10, <1>11, <1>12, <1>13, <1>14
       DEF Act

LEMMA InitRowTypes == ProjectsInit => RowTypesInv
<1> SUFFICES ASSUME ProjectsInit PROVE RowTypesInv
    OBVIOUS
<1>1. Absent \in ProjectRow /\ Absent \in QuestionRow
      /\ [status |-> "live", company |-> 0] \in ProjectRow
    BY DEF ProjectRow, QuestionRow
<1>2. ASSUME NEW q \in 1..2 PROVE NewQuestion(Opened, q) \in QuestionRow
    BY <1>2, ProjectsAssumption DEF NewQuestion, QuestionRow
<1>3. projects \in [ProjectIds -> ProjectRow]
    BY <1>1 DEF ProjectsInit
<1>4. questions \in [QuestionIds -> QuestionRow]
    BY <1>1, <1>2 DEF ProjectsInit
<1>5. /\ at \in [Requests -> {"begin", "found", "ordered", "loaded", "counted", "end"}]
      /\ loaded \in [Requests -> ProjectRow \cup QuestionRow]
      /\ base \in [Requests -> Nat] /\ \A r \in Requests : at[r] = "begin"
    BY <1>1 DEF ProjectsInit
<1> QED
    BY <1>3, <1>4, <1>5 DEF RowTypesInv, ProjectsTypeOK, Holding

\* The rows stay rows, with orders from 1 on, whatever requests interleave and
\* fail: no request inserts before it has computed its order
\* (create_questions_bulk, get_next_order).
THEOREM RowsTypeCorrect == ProjectsSpec => []ProjectsTypeOK
<1>1. ProjectsInv /\ RowTypesInv /\ [ProjectsNext]_pvars => RowTypesInv'
  <2> SUFFICES ASSUME ProjectsInv, RowTypesInv, [ProjectsNext]_pvars PROVE RowTypesInv'
      OBVIOUS
  <2>1. CASE UNCHANGED pvars
      BY <2>1 DEF pvars, RowTypesInv, ProjectsTypeOK
  <2> QED
      BY <2>1, ActTypes DEF ProjectsNext
<1>2. RowTypesInv => ProjectsTypeOK
    BY DEF RowTypesInv
<1> QED
    BY <1>1, <1>2, InitRowTypes, RowsInvariance, PTL DEF ProjectsSpec

----------------------------------------------------------------------------
(* The walk through the history.                                           *)

ChatRow == [id : MessageIds, at : Nat]

\* Every message has its own id and, when no two are built in one instant, its
\* own time.
MessagesInv ==
    /\ clock \in Nat /\ IsFiniteSet(chats)
    /\ built \subseteq ChatRow /\ chats \subseteq ChatRow
    /\ \A m \in built \cup chats : m.at <= clock
    /\ \A m, n \in built \cup chats : m.id = n.id \/ m.at = n.at => m = n

Received == {seen[i] : i \in DOMAIN seen}
Oldest == seen[Len(seen)]

\* A message of the first page's time that has not come yet is older than all
\* that have, and the cursor names the oldest of these.
WalkInv ==
    /\ seen \in Seq(chats) /\ wanted \subseteq chats
    /\ \A i, j \in DOMAIN seen : i < j => seen[j].at < seen[i].at
    /\ reading \in {"no", "more", "end"}
    /\ reading = "no" => seen = <<>> /\ cursor = NoCursor
    /\ reading = "more" =>
          /\ seen # <<>> /\ cursor = Oldest.id
          /\ \A m \in wanted : m \in Received \/ m.at < Oldest.at
    /\ reading = "end" => wanted \subseteq Received

LEMMA LesserOfTwo ==
    ASSUME NEW a \in Nat, NEW b \in Nat
    PROVE  Min({a, b}) = IF a <= b THEN a ELSE b
<1>1. PICK x \in {a, b} : \A y \in {a, b} : x =< y
    OBVIOUS
<1>2. /\ Min({a, b}) \in {a, b}
      /\ \A y \in {a, b} : Min({a, b}) =< y
  <2>1. \E z \in {a, b} : \A y \in {a, b} : z =< y
      BY <1>1
  <2> QED
      BY <2>1 DEF Min
<1> QED
    BY <1>2

\* An answer lists each candidate once, later messages first.
LEMMA AnswerLists ==
    ASSUME MessagesInv, NEW s \in SUBSET chats, NEW q \in Orderings(s)
    PROVE  /\ q \in Seq(s) /\ \A m \in s : \E i \in DOMAIN q : q[i] = m
           /\ \A i, j \in DOMAIN q : i < j => q[j].at < q[i].at
<1>1. IsFiniteSet(s) /\ Cardinality(s) \in Nat
    BY FS_Subset, FS_CardinalityType DEF MessagesInv
<1> DEFINE D == 1..Cardinality(s)
<1>2. /\ q \in [D -> s] /\ \A i, j \in D : i # j => q[i] # q[j]
      /\ \A i, j \in D : i < j => q[i].at >= q[j].at
    BY DEF Orderings, SetToSeqs
<1>3. q \in Seq(s) /\ DOMAIN q = D
    BY <1>1, <1>2
<1>4. \A m \in s : \E i \in D : q[i] = m
  <2>1. q \in Injection(D, s)
      BY <1>2 DEF Injection, IsInjective
  <2>2. Cardinality(D) = Cardinality(s)
    <3>1. Cardinality(1..Cardinality(s)) = IF 1 > Cardinality(s) THEN 0 ELSE Cardinality(s) - 1 + 1
        BY <1>1, FS_Interval
    <3> QED
        BY <1>1, <3>1
  <2>3. q \in Surjection(D, s)
      BY <1>1, <2>1, <2>2, FS_Injection
  <2> QED
      BY <2>3 DEF Surjection
<1>5. \A i, j \in D : i < j => q[j].at < q[i].at
  <2> SUFFICES ASSUME NEW i \in D, NEW j \in D, i < j PROVE q[j].at < q[i].at
      OBVIOUS
  <2>1. q[i] \in chats /\ q[j] \in chats /\ q[i] # q[j] /\ q[i].at >= q[j].at
      BY <1>2
  <2>2. q[i].at \in Nat /\ q[j].at \in Nat /\ q[i].at # q[j].at
      BY <2>1 DEF MessagesInv, ChatRow
  <2> QED
      BY <2>1, <2>2
<1> QED
    BY <1>3, <1>4, <1>5

LEMMA BuildKeepsMessages ==
    ASSUME ~SameInstant, MessagesInv, NEW i \in MessageIds, Build(i)
    PROVE  MessagesInv'
<1> DEFINE new == [id |-> i, at |-> clock + 1]
<1>1. /\ built' = built \cup {new} /\ clock' = clock + 1 /\ chats' = chats
      /\ \A m \in built \cup chats : m.id # i
    BY DEF Build
<1>2. new \in ChatRow /\ new.id = i /\ new.at = clock + 1
    BY DEF ChatRow, MessagesInv
<1>3. \A m \in built \cup chats : m.at <= clock /\ m.at \in Nat /\ m.id # i
    BY <1>1 DEF MessagesInv, ChatRow
<1> HIDE DEF new
<1>4. \A m \in built' \cup chats' : m.at <= clock'
    BY <1>1, <1>2, <1>3 DEF MessagesInv
<1>5. \A m \in built \cup chats : m.id # new.id /\ m.at # new.at
    BY <1>2, <1>3 DEF MessagesInv
<1>6. \A m, n \in built' \cup chats' : m.id = n.id \/ m.at = n.at => m = n
    BY <1>1, <1>5 DEF MessagesInv
<1> QED
    BY <1>1, <1>2, <1>4, <1>6 DEF MessagesInv

LEMMA StoreKeepsMessages ==
    ASSUME MessagesInv, NEW m \in built, Store(m)
    PROVE  MessagesInv'
<1>1. built' = built \ {m} /\ chats' = chats \cup {m} /\ clock' = clock
    BY DEF Store
<1>2. IsFiniteSet(chats')
    BY <1>1, FS_AddElement DEF MessagesInv
<1>3. built' \cup chats' \subseteq built \cup chats
    BY <1>1
<1> QED
    BY <1>1, <1>2, <1>3 DEF MessagesInv

\* What a page is cut from: the rows not yet received, those of the first page
\* among them.
LEMMA CandidatesAreLeft ==
    ASSUME MessagesInv, WalkInv, reading # "end",
           NEW first, first = IF reading = "no" THEN chats ELSE wanted
    PROVE  /\ Candidates \in SUBSET chats /\ first \subseteq chats
           /\ \A m \in first : m \in Received \/ m \in Candidates
           /\ \A m \in Candidates : \A i \in DOMAIN seen : m.at < seen[i].at
<1>1. CASE reading = "no"
    BY <1>1 DEF WalkInv, Candidates
<1>2. CASE reading = "more"
  <2>1. /\ Len(seen) \in DOMAIN seen /\ Oldest \in chats /\ Oldest = seen[Len(seen)]
        /\ cursor = Oldest.id
      BY <1>2 DEF WalkInv, Oldest
  <2>2. cursor # NoCursor
      BY <2>1, ChatHistoryAssumption DEF MessagesInv, ChatRow
  <2> DEFINE c == CHOOSE x \in chats : x.id = cursor
  <2>3. c = Oldest
    <3>1. c \in chats /\ c.id = cursor
        BY <2>1
    <3> QED
        BY <2>1, <3>1 DEF MessagesInv
  <2>4. Candidates = {m \in chats : Precedes(m, Oldest)}
      BY <2>2, <2>3 DEF Candidates
  <2>5. \A m \in chats : Precedes(m, Oldest) <=> m.at < Oldest.at
    <3> SUFFICES ASSUME NEW m \in chats
                 PROVE  Precedes(m, Oldest) <=> m.at < Oldest.at
        OBVIOUS
    <3>1. m.id \in Nat /\ (m.at = Oldest.at => m = Oldest)
        BY <2>1, ChatHistoryAssumption DEF MessagesInv, ChatRow
    <3>2. ~(m.at = Oldest.at /\ m.id < Oldest.id)
        BY <3>1
    <3> QED
        BY <3>2 DEF Precedes
  <2>6. \A m \in wanted : m \in Received \/ m \in Candidates
      BY <1>2, <2>4, <2>5 DEF WalkInv
  <2>7. \A m \in Candidates : \A i \in DOMAIN seen : m.at < seen[i].at
    <3> SUFFICES ASSUME NEW m \in Candidates, NEW i \in DOMAIN seen
                 PROVE  m.at < seen[i].at
        OBVIOUS
    <3>1. m \in chats /\ m.at < Oldest.at
        BY <2>4, <2>5
    <3>2. i = Len(seen) \/ Oldest.at < seen[i].at
      <4>1. i \in 1..Len(seen)
          BY DEF WalkInv
      <4>2. i = Len(seen) \/ i < Len(seen)
          BY <4>1
      <4> QED
          BY <2>1, <4>2 DEF WalkInv
    <3>3. m.at \in Nat /\ Oldest.at \in Nat /\ seen[i].at \in Nat
      <4>1. seen[i] \in chats
          BY DEF WalkInv
      <4> QED
          BY <2>1, <3>1, <4>1 DEF MessagesInv, ChatRow
    <3> QED
        BY <2>1, <3>1, <3>2, <3>3
  <2> QED
      BY <1>2, <2>4, <2>6, <2>7 DEF WalkInv
<1> QED
    BY <1>1, <1>2 DEF WalkInv

\* A walk that goes on with a page: older messages, each later than the next.
LEMMA PageExtends ==
    ASSUME MessagesInv, NEW old \in Seq(chats), NEW page \in Seq(chats),
           \A i, j \in DOMAIN old : i < j => old[j].at < old[i].at,
           \A i, j \in DOMAIN page : i < j => page[j].at < page[i].at,
           \A i \in DOMAIN old : \A j \in DOMAIN page : page[j].at < old[i].at
    PROVE  /\ old \o page \in Seq(chats)
           /\ \A i, j \in DOMAIN (old \o page) :
                 i < j => (old \o page)[j].at < (old \o page)[i].at
           /\ \A i \in DOMAIN old : \E k \in DOMAIN (old \o page) : (old \o page)[k] = old[i]
           /\ \A i \in DOMAIN page : \E k \in DOMAIN (old \o page) : (old \o page)[k] = page[i]
           /\ page # <<>> => /\ old \o page # <<>>
                             /\ (old \o page)[Len(old \o page)] = page[Len(page)]
<1> DEFINE all == old \o page
<1>1. /\ all \in Seq(chats) /\ Len(all) = Len(old) + Len(page)
      /\ Len(old) \in Nat /\ Len(page) \in Nat
      /\ \A i \in 1..Len(all) : all[i] = IF i <= Len(old) THEN old[i] ELSE page[i - Len(old)]
    OBVIOUS
<1>2. DOMAIN all = 1..Len(all) /\ DOMAIN old = 1..Len(old) /\ DOMAIN page = 1..Len(page)
    BY <1>1
<1> HIDE DEF all
<1>3. \A i \in DOMAIN old : i \in DOMAIN all /\ all[i] = old[i]
    BY <1>1, <1>2
<1>4. \A i \in DOMAIN page : i + Len(old) \in DOMAIN all /\ all[i + Len(old)] = page[i]
    BY <1>1, <1>2
<1>5. ASSUME NEW i \in DOMAIN all, NEW j \in DOMAIN all, i < j PROVE all[j].at < all[i].at
  <2>1. CASE j <= Len(old)
      BY <1>1, <1>2, <1>5, <2>1
  <2>2. CASE i > Len(old)
    <3>1. i - Len(old) \in DOMAIN page /\ j - Len(old) \in DOMAIN page
          /\ i - Len(old) < j - Len(old)
        BY <1>1, <1>2, <1>5, <2>2
    <3>2. all[i] = page[i - Len(old)] /\ all[j] = page[j - Len(old)]
        BY <1>1, <1>2, <1>5, <2>2
    <3> QED
        BY <3>1, <3>2
  <2>3. CASE i <= Len(old) /\ j > Len(old)
    <3>1. i \in DOMAIN old /\ j - Len(old) \in DOMAIN page
        BY <1>1, <1>2, <1>5, <2>3
    <3>2. all[i] = old[i] /\ all[j] = page[j - Len(old)]
        BY <1>1, <1>2, <1>5, <2>3
    <3> QED
        BY <3>1, <3>2
  <2> QED
      BY <1>1, <1>2, <1>5, <2>1, <2>2, <2>3
<1>6. page # <<>> => all # <<>> /\ all[Len(all)] = page[Len(page)]
  <2> SUFFICES ASSUME page # <<>> PROVE all # <<>> /\ all[Len(all)] = page[Len(page)]
      OBVIOUS
  <2>1. Len(page) \in DOMAIN page /\ Len(page) > 0
      BY <1>1, <1>2
  <2>2. all[Len(page) + Len(old)] = page[Len(page)]
      BY <1>4, <2>1
  <2>3. Len(page) + Len(old) = Len(all)
      BY <1>1
  <2> QED
      BY <1>1, <2>1, <2>2, <2>3
<1>7. \A i \in DOMAIN old : \E k \in DOMAIN all : all[k] = old[i]
    BY <1>3
<1>8. \A i \in DOMAIN page : \E k \in DOMAIN all : all[k] = page[i]
    BY <1>4
<1>9. \A i, j \in DOMAIN all : i < j => all[j].at < all[i].at
    BY <1>5
<1> QED
    BY <1>1, <1>6, <1>7, <1>8, <1>9 DEF all

LEMMA ReadKeepsWalk ==
    ASSUME MessagesInv, WalkInv, ReadPage
    PROVE  WalkInv'
<1> DEFINE first == IF reading = "no" THEN chats ELSE wanted
<1>1. PICK q \in Orderings(Candidates) :
         /\ seen' = seen \o SubSeq(q, 1, Min({Len(q), Size}))
         /\ cursor' = IF Len(q) > Size THEN q[Cut(q)].id ELSE NoCursor
         /\ reading' = IF Len(q) > Size THEN "more" ELSE "end"
    BY DEF ReadPage
<1>2. reading # "end" /\ wanted' = first /\ chats' = chats
    BY DEF ReadPage
<1>3. /\ Candidates \in SUBSET chats /\ first \subseteq chats
      /\ \A m \in first : m \in Received \/ m \in Candidates
      /\ \A m \in Candidates : \A i \in DOMAIN seen : m.at < seen[i].at
    BY <1>2, CandidatesAreLeft
<1> HIDE DEF first
<1>4. /\ q \in Seq(Candidates) /\ \A m \in Candidates : \E i \in DOMAIN q : q[i] = m
      /\ \A i, j \in DOMAIN q : i < j => q[j].at < q[i].at
    BY <1>3, AnswerLists
<1> DEFINE k == Min({Len(q), Size})
           page == SubSeq(q, 1, k)
<1>5. /\ Len(q) \in Nat /\ Size \in Nat \ {0}
      /\ k = IF Len(q) <= Size THEN Len(q) ELSE Size
      /\ Cut(q) = k
    BY <1>4, LesserOfTwo, ChatHistoryAssumption DEF Cut
<1>6. /\ Len(q) \in Nat /\ k \in Nat /\ k <= Len(q)
      /\ Len(q) > Size => k = Size /\ k >= 1
  <2> HIDE DEF k
  <2> QED
      BY <1>5
<1>7. page \in Seq(Candidates) /\ Len(page) = k /\ \A i \in 1..k : page[i] = q[i]
  <2> HIDE DEF k
  <2> QED
      BY <1>4, <1>6
<1>8. seen' = seen \o page /\ DOMAIN page = 1..k /\ DOMAIN q = 1..Len(q)
    BY <1>1, <1>4, <1>7
<1> HIDE DEF k, page
<1>9. /\ page \in Seq(chats)
      /\ \A i, j \in DOMAIN page : i < j => page[j].at < page[i].at
      /\ \A i \in DOMAIN seen : \A j \in DOMAIN page : page[j].at < seen[i].at
  <2>1. DOMAIN page \subseteq DOMAIN q
      BY <1>6, <1>8
  <2>2. \A j \in DOMAIN page : page[j] = q[j] /\ page[j] \in Candidates
      BY <1>7, <1>8
  <2>3. page \in Seq(chats)
      BY <1>3, <1>7
  <2>4. \A i, j \in DOMAIN page : i < j => page[j].at < page[i].at
      BY <1>4, <2>1, <2>2
  <2> QED
      BY <1>3, <2>2, <2>3, <2>4
<1>10. /\ seen' \in Seq(chats)
       /\ \A i, j \in DOMAIN seen' : i < j => seen'[j].at < seen'[i].at
       /\ \A i \in DOMAIN seen : seen[i] \in Received'
       /\ \A i \in DOMAIN page : page[i] \in Received'
       /\ page # <<>> => seen' # <<>> /\ Oldest' = page[Len(page)]
  <2>1. seen \in Seq(chats) /\ \A i, j \in DOMAIN seen : i < j => seen[j].at < seen[i].at
      BY DEF WalkInv
  <2>2. /\ seen \o page \in Seq(chats)
        /\ \A i, j \in DOMAIN (seen \o page) :
              i < j => (seen \o page)[j].at < (seen \o page)[i].at
        /\ \A i \in DOMAIN seen :
              \E h \in DOMAIN (seen \o page) : (seen \o page)[h] = seen[i]
        /\ \A i \in DOMAIN page :
              \E h \in DOMAIN (seen \o page) : (seen \o page)[h] = page[i]
        /\ page # <<>> => /\ seen \o page # <<>>
                          /\ (seen \o page)[Len(seen \o page)] = page[Len(page)]
      BY <1>9, <2>1, PageExtends
  <2> QED
      BY <1>8, <2>2 DEF Received, Oldest
<1>11. \A m \in first : m \in Received' \/ \E i \in DOMAIN q : q[i] = m
    BY <1>3, <1>4, <1>10 DEF Received
<1>12. CASE Len(q) > Size
  <2>1. /\ k = Size /\ k >= 1 /\ Len(page) = k /\ k \in DOMAIN page
        /\ k \in DOMAIN q /\ page[k] = q[k] /\ Cut(q) = k
    <3>1. k = Size /\ k >= 1 /\ Cut(q) = k /\ k \in 1..k /\ k \in 1..Len(q)
        BY <1>5, <1>6, <1>12
    <3> QED
        BY <1>7, <1>8, <3>1
  <2>2. page # <<>>
      BY <2>1
  <2>3. seen' # <<>> /\ Oldest' = q[k] /\ cursor' = Oldest'.id /\ reading' = "more"
      BY <1>1, <1>10, <1>12, <2>1, <2>2
  <2>4. ASSUME NEW m \in first PROVE m \in Received' \/ m.at < Oldest'.at
    <3>1. CASE m \in Received'
        BY <3>1
    <3>2. ASSUME NEW i \in DOMAIN q, q[i] = m PROVE m \in Received' \/ m.at < Oldest'.at
      <4>1. CASE i <= k
        <5>1. i \in DOMAIN page /\ page[i] = q[i]
            BY <1>6, <1>7, <1>8, <3>2, <4>1
        <5> QED
            BY <1>10, <3>2, <5>1
      <4>2. CASE i > k
        <5>1. q[i].at < q[k].at
            BY <1>4, <2>1, <4>2
        <5> QED
            BY <2>3, <3>2, <5>1
      <4> QED
          BY <1>6, <1>8, <4>1, <4>2
    <3> QED
        BY <1>11, <3>1, <3>2
  <2> QED
      BY <1>2, <1>3, <1>10, <2>3, <2>4 DEF WalkInv
<1>13. CASE ~(Len(q) > Size)
  <2>1. k = Len(q) /\ reading' = "end"
      BY <1>1, <1>5, <1>13
  <2>2. first \subseteq Received'
      BY <1>7, <1>8, <1>10, <1>11, <2>1
  <2> QED
      BY <1>2, <1>3, <1>10, <2>1, <2>2 DEF WalkInv
<1> QED
    BY <1>12, <1>13

\* A client that follows the cursors to the end has received every message that
\* was there at its first page, once and newest first, whatever is built before
\* and stored during the walk (get_chat_history_response), for every page size
\* and number of messages, unless two messages are built in one microsecond.
THEOREM HistoryIsRead ==
    ASSUME ~SameInstant
    PROVE  HistorySpec => []WalkComplete
<1>1. HistoryInit => MessagesInv /\ WalkInv
    BY FS_EmptySet DEF HistoryInit, MessagesInv, WalkInv
<1>2. ASSUME MessagesInv, WalkInv, [HistoryNext]_hvars PROVE (MessagesInv /\ WalkInv)'
  <2>1. ASSUME UNCHANGED <<cursor, seen, wanted, reading>>, chats \subseteq chats'
        PROVE  WalkInv'
    <3>1. /\ cursor' = cursor /\ seen' = seen /\ wanted' = wanted /\ reading' = reading
          /\ wanted \subseteq chats'
        BY <1>2, <2>1 DEF WalkInv
    <3>2. seen \in Seq(chats')
      <4>1. seen \in [1..Len(seen) -> chats]
          BY <1>2 DEF WalkInv
      <4>2. seen \in [1..Len(seen) -> chats'] /\ Len(seen) \in Nat
          BY <1>2, <2>1, <4>1 DEF WalkInv
      <4> QED
          BY <4>2
    <3> QED
        BY <1>2, <3>1, <3>2 DEF WalkInv, Received, Oldest
  <2>2. ASSUME NEW i \in MessageIds, Build(i) PROVE (MessagesInv /\ WalkInv)'
      BY <1>2, <2>1, <2>2, BuildKeepsMessages DEF Build
  <2>3. ASSUME NEW m \in built, Store(m) PROVE (MessagesInv /\ WalkInv)'
      BY <1>2, <2>1, <2>3, StoreKeepsMessages DEF Store
  <2>4. CASE ReadPage
    <3>1. MessagesInv'
        BY <1>2, <2>4 DEF ReadPage, MessagesInv
    <3> QED
        BY <1>2, <2>4, <3>1, ReadKeepsWalk
  <2>5. CASE UNCHANGED hvars
    <3>1. UNCHANGED <<built, chats, clock>> /\ UNCHANGED <<cursor, seen, wanted, reading>>
        BY <2>5 DEF hvars
    <3>2. MessagesInv'
        BY <1>2, <3>1 DEF MessagesInv
    <3> QED
        BY <2>1, <3>1, <3>2
  <2> QED
      BY <1>2, <2>2, <2>3, <2>4, <2>5 DEF HistoryNext
<1>3. MessagesInv /\ WalkInv => WalkComplete
  <2> SUFFICES ASSUME MessagesInv, WalkInv PROVE WalkComplete
      OBVIOUS
  <2>1. \A i \in DOMAIN seen : seen[i] \in chats /\ seen[i].at \in Nat
      BY DEF WalkInv, MessagesInv, ChatRow
  <2> QED
      BY <2>1 DEF WalkInv, WalkComplete, Received
<1> QED
    BY <1>1, <1>2, <1>3, PTL DEF HistorySpec

----------------------------------------------------------------------------
(* The components together.                                                *)

SceneInv == scene \in Scenes \cup {{}}

\* A step of the composition is a step of each component, or leaves it alone.
LEMMA PartSteps ==
    ASSUME SceneInv, [ContentNext]_ContentVars
    PROVE  /\ [Next]_vars /\ [ProjectsNext]_pvars /\ [MatchQuestion]_ranking
           /\ [SessionsNext]_svars /\ [KeysNext]_keyVars /\ [HistoryNext]_hvars
           /\ SceneInv'
<1>1. CASE UNCHANGED ContentVars
    BY <1>1 DEF ContentVars, SceneInv
<1>2. CASE /\ KeysAtRest /\ HistoryAtRest
           /\ ProjectsAtRest /\ AuthAtRest /\ Unranked /\ ExperiencesNext
  <2>1. /\ UNCHANGED keyVars /\ UNCHANGED hvars /\ UNCHANGED pvars /\ UNCHANGED svars
        /\ UNCHANGED ranking /\ UNCHANGED scene
      BY <1>2 DEF KeysAtRest, HistoryAtRest, ProjectsAtRest, AuthAtRest, Unranked
  <2>2. [Next]_vars
      BY <1>2 DEF ExperiencesNext, Next
  <2> QED
      BY <2>1, <2>2 DEF SceneInv
<1>3. CASE /\ KeysAtRest /\ HistoryAtRest
           /\ AtRest /\ AuthAtRest /\ Unranked /\ ProjectsNext
  <2>1. /\ UNCHANGED keyVars /\ UNCHANGED hvars /\ UNCHANGED vars /\ UNCHANGED svars
        /\ UNCHANGED ranking /\ UNCHANGED scene
      BY <1>3 DEF KeysAtRest, HistoryAtRest, AtRest, AuthAtRest, Unranked
  <2> QED
      BY <1>3, <2>1 DEF SceneInv
<1>4. CASE /\ KeysAtRest /\ HistoryAtRest
           /\ AtRest /\ ProjectsAtRest /\ Unranked /\ AuthNext
  <2>1. /\ UNCHANGED keyVars /\ UNCHANGED hvars /\ UNCHANGED vars /\ UNCHANGED pvars
        /\ UNCHANGED ranking
      BY <1>4 DEF KeysAtRest, HistoryAtRest, AtRest, ProjectsAtRest, Unranked
  <2>2. [SessionsNext]_svars
    <3>1. scene \subseteq AuthCalls
        BY ContentAssumption DEF SceneInv
    <3> QED
        BY <1>4, <3>1 DEF AuthNext, SessionsNext
  <2>3. SceneInv'
      BY <1>4 DEF AuthNext, SceneInv
  <2> QED
      BY <2>1, <2>2, <2>3
<1>5. CASE /\ KeysAtRest /\ HistoryAtRest
           /\ AtRest /\ ProjectsAtRest /\ AuthAtRest /\ MatchQuestion
  <2>1. /\ UNCHANGED keyVars /\ UNCHANGED hvars /\ UNCHANGED vars /\ UNCHANGED pvars
        /\ UNCHANGED svars /\ UNCHANGED scene
      BY <1>5 DEF KeysAtRest, HistoryAtRest, AtRest, ProjectsAtRest, AuthAtRest
  <2> QED
      BY <1>5, <2>1 DEF SceneInv
<1>6. CASE /\ AtRest /\ ProjectsAtRest /\ AuthAtRest /\ Unranked
           /\ (HistoryAtRest /\ KeysNext) \/ (KeysAtRest /\ HistoryNext)
  <2>1. /\ UNCHANGED vars /\ UNCHANGED pvars /\ UNCHANGED svars
        /\ UNCHANGED ranking /\ UNCHANGED scene
      BY <1>6 DEF AtRest, ProjectsAtRest, AuthAtRest, Unranked
  <2>2. [KeysNext]_keyVars /\ [HistoryNext]_hvars
      BY <1>6 DEF KeysAtRest, HistoryAtRest
  <2> QED
      BY <2>1, <2>2 DEF SceneInv
<1> QED
    BY <1>1, <1>2, <1>3, <1>4, <1>5, <1>6 DEF ContentNext

\* What is proved of each component by itself holds of the composition, which
\* plays one of them at a time.
THEOREM ContentPlaysItsParts ==
    ContentSpec => Spec /\ ProjectsSpec /\ SessionsSpec /\ KeysSpec /\ HistorySpec /\ MatchSpec
<1>1. ContentInit => /\ Init /\ ProjectsInit /\ SessionsInit /\ KeysInit /\ HistoryInit
                     /\ ranking = <<>> /\ SceneInv
    BY DEF ContentInit, SceneInv
<1> QED
    BY <1>1, PartSteps, PTL
       DEF ContentSpec, Spec, ProjectsSpec, SessionsSpec, KeysSpec, HistorySpec, MatchSpec

\* Payloads, rows and sessions keep their types also when the components run
\* at the same time: they share no state (src/experience, src/projects,
\* src/questions and src/auth).
THEOREM ContentTypeCorrect == Spec /\ ProjectsSpec /\ SessionsSpec => []ContentTypeOK
<1>1. TypeOK /\ ProjectsTypeOK /\ SessionsTypeOK => ContentTypeOK
    BY DEF ContentTypeOK
<1> QED
    BY <1>1, PayloadsTypeCorrect, RowsTypeCorrect, SessionsTypeCorrect, PTL
=============================================================================
