----------------------------- MODULE MCContent -----------------------------
(* An instance of Content for TLC. *)
EXTENDS Content

CONSTANTS u1, u2, w1

\* Two updates, a creation, a deletion, a listing, a search and a matching.
MCUsers == {u1, u2}
MCCalls == {"edit", "redate", "add", "drop", "show", "find", "seek"}
MCKind == [edit |-> "update", redate |-> "update", add |-> "create",
           drop |-> "delete", show |-> "list", find |-> "search",
           seek |-> "match"]
MCTarget == [edit |-> 1, redate |-> 1, add |-> 2, drop |-> 1, show |-> 1,
             find |-> 1, seek |-> 1]
MCReaders == {"show", "find", "seek"}
MCCaller == [c \in MCCalls |-> u1]
MCWorkerOf == [c \in MCCalls |-> w1]
MCOwnerOf == [e \in {1, 2, 3} |-> IF e = 3 THEN u2 ELSE u1]

With(f, dates, texts) ==
    [x \in Fields |-> CASE x = "format" -> f
                        [] x = "start" -> dates[1]
                        [] x = "end" -> dates[2]
                        [] x \in texts -> 1
                        [] OTHER -> 0]
Star == With("STAR", <<1, 2>>, {"title"} \cup BodyOf["STAR"])
\* a free text that also carries a field of another format
Free == With("FREE", <<1, 0>>, {"title", "content", "problem"})
MCDocuments == {Star, Free}

MCPatches ==
    { [f \in {"title", "start"} |-> 2],
      [f \in {"start"} |-> 3],
      [f \in {"end"} |-> 1],
      [f \in {"format", "content", "end"} |->
          IF f = "format" THEN "FREE" ELSE 2],
      [f \in {"format", "problem"} |-> IF f = "format" THEN "PSI" ELSE 1],
      \* an explicit null for a field that an Experience must have
      [f \in {"format"} |-> None] }

\* Every operation on a project and on one question.
MCRequests == {"make", "add", "edit", "toggle", "drop", "rename", "close"}
MCOperation == [make |-> "createProject", add |-> "addQuestions",
                edit |-> "editQuestion", toggle |-> "toggleQuestion",
                drop |-> "deleteQuestion",
                rename |-> "renameProject", close |-> "deleteProject"]
MCProjectOf == [r \in MCRequests |-> IF r = "make" THEN "p2" ELSE "p1"]
MCQuestionOf == [r \in MCRequests |-> 1]

\* No text, blanks, a jamo joke, "abababab...", a line, a paragraph.
MCContents ==
    { [parts |-> n, chars |-> c, distinct |-> d, senseless |-> s] :
        <<n, c, d, s>> \in { <<0, 0, 0, FALSE>>, <<1, 0, 0, FALSE>>,
                            <<1, 30, 9, TRUE>>, <<1, 30, 2, FALSE>>,
                            <<1, 19, 12, FALSE>>, <<4, 200, 60, FALSE>> } }

\* One e-mail address with two providers.  The scenes are a web
\* login whose callback and exchange are repeated; sessions of two phones; a
\* deletion among logins.
MCAuthCalls == {"begin", "web", "web2", "trade", "trade2", "phone", "phone2",
                "turn", "turn2", "turn3", "out", "quit"}
MCAuthKind ==
    [c \in MCAuthCalls |->
        CASE c = "begin" -> "begin"
          [] c \in {"web", "web2"} -> "callback"
          [] c \in {"trade", "trade2"} -> "exchange"
          [] c \in {"phone", "phone2"} -> "mobile"
          [] c \in {"turn", "turn2", "turn3"} -> "refresh"
          [] c = "out" -> "logout"
          [] c = "quit" -> "delete"]
MCMailOf == [c \in MCAuthCalls |-> "mail"]
MCProviderOf == [c \in MCAuthCalls |-> IF c = "phone2" THEN "apple" ELSE "google"]
MCScenes == { {"begin", "web", "web2", "trade", "trade2"},
              {"phone", "phone2", "turn", "turn2", "out"},
              {"phone", "turn", "turn2", "turn3"},
              {"phone", "phone2", "turn", "quit"} }
=============================================================================
