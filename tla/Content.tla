------------------------------ MODULE Content ------------------------------
(***************************************************************************)
(* What a user owns: sessions, experiences, projects with their questions, *)
(* and chats; and the keys of the providers.  The components share no      *)
(* state here: a behaviour runs one of them while the others are at rest.  *)
(* Of the sessions, a behaviour plays one scene: a set of calls.           *)
(***************************************************************************)
EXTENDS Experiences, Matching, Projects, AuthSessions, SigningKeys, ChatHistory

CONSTANTS
    Scenes,   \* the sets of calls that a behaviour may play
    Readers   \* calls that change nothing others see: one of them is enough

ASSUME ContentAssumption ==
    Scenes \subseteq SUBSET AuthCalls /\ Readers \subseteq Calls

VARIABLE scene

\* The components that are at rest while another one runs.
AtRest == (\A c \in Calls : pc[c] = "start") /\ UNCHANGED vars
ProjectsAtRest == (\A r \in Requests : at[r] = "begin") /\ UNCHANGED pvars
AuthAtRest == scene = {} /\ UNCHANGED <<svars, scene>>
Unranked == ranking = <<>> /\ UNCHANGED ranking
KeysResting == (\A v \in Verifications : phase[v] = "idle") /\ instant = 0
               /\ published = KeyIds
HistoryResting == clock = 0 /\ reading = "no"
KeysAtRest == KeysResting /\ UNCHANGED keyVars
HistoryAtRest == HistoryResting /\ UNCHANGED hvars

ContentVars == <<vars, pvars, svars, ranking, scene, keyVars, hvars>>
ContentInit == /\ Init /\ ProjectsInit /\ ranking = <<>>
               /\ SessionsInit /\ scene = {} /\ KeysInit /\ HistoryInit
AuthNext ==
    \/ scene = {} /\ scene' \in Scenes /\ UNCHANGED svars
    \/ /\ \A c \in scene : stage[c] \in AuthEnded \cup {"start"}
       /\ scene # {} /\ UNCHANGED <<svars, scene>>
    \/ /\ scene # {} /\ UNCHANGED scene
       /\ (\E c \in scene : AuthStep(c)) \/ Expire \/ Tick
ExperiencesNext ==
    \/ \E c \in Calls : /\ c \in Readers =>
                             \A d \in Readers \ {c} : pc[d] = "start"
                        /\ Step(c)
    \/ /\ \A c \in Calls \ Readers : pc[c] = "done"
       /\ \E c \in Readers : pc[c] = "done"
       /\ UNCHANGED vars
ContentNext ==
    \/ /\ KeysAtRest /\ HistoryAtRest
       /\ \/ ProjectsAtRest /\ AuthAtRest /\ Unranked /\ ExperiencesNext
          \/ AtRest /\ AuthAtRest /\ Unranked /\ ProjectsNext
          \/ AtRest /\ ProjectsAtRest /\ Unranked /\ AuthNext
          \/ AtRest /\ ProjectsAtRest /\ AuthAtRest /\ MatchQuestion
    \/ /\ AtRest /\ ProjectsAtRest /\ AuthAtRest /\ Unranked
       /\ \/ HistoryAtRest /\ KeysNext
          \/ KeysAtRest /\ HistoryNext
    \/ /\ ranking # <<>> \/ ~KeysResting \/ ~HistoryResting
       /\ UNCHANGED ContentVars
ContentSpec == ContentInit /\ [][ContentNext]_ContentVars

\* The type invariants of the components: what the payloads, rows and keys
\* hold, and that a session works on rows that are there.
ContentTypeOK == TypeOK /\ ProjectsTypeOK /\ SessionsTypeOK
=============================================================================
