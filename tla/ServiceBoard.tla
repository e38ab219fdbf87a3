----------------------------- MODULE ServiceBoard -----------------------------
(***************************************************************************)
(* The list of ServicesPage.tsx: the services by their groups, the reload    *)
(* that follows every change, and the cards that are dragged from group to    *)
(* group, which is shown before the server is asked and reloaded only when it *)
(* refuses. Services and groups are fetched by two requests, which are served *)
(* and answered each at its time; nothing keeps an older answer from coming   *)
(* last, and a failed reload is not noticed.                                  *)
(*                                                                         *)
(* Of a service only its group matters here. What the dialog and the import  *)
(* store is one action: anything the server may make of it.                   *)
(***************************************************************************)
EXTENDS Calls

CONSTANTS Cards,            \* services
          GroupIds

ASSUME BoardAssumption == {None, Gone} \cap GroupIds = {}

VARIABLES placed,       \* server: the group of each service
          groups,       \* server: service_groups
          board,        \* services and groups, as the page has them
          boardCalls,   \* calls under way, oldest first
          raced         \* ghost: answers crossed, or one was lost

boardVars == <<placed, groups, board, boardCalls, raced>>

\* A group, none (group_id is null), or no such service.
Places == GroupIds \cup {None, Gone}

\* A load carries what was seen when it was served; a change, where the service is to go.
BoardCalls ==
    [kind : {"services"}, seen : [Cards -> Places] \cup {Gone}]
        \cup [kind : {"groups"}, seen : (SUBSET GroupIds) \cup {Gone}]
        \cup [kind : {"create", "update", "delete", "move"}, card : Cards, to : Places,
              done : BOOLEAN]
        \cup [kind : {"addGroup", "dropGroup"}, group : GroupIds, done : BOOLEAN]

BoardTypeOK ==
    /\ placed \in [Cards -> Places] /\ groups \subseteq GroupIds
    /\ \A s \in Cards : placed[s] \in groups \cup {None, Gone}     \* foreign key
    /\ board \in [services : [Cards -> Places], groups : SUBSET GroupIds]
    /\ boardCalls \in Seq(BoardCalls)
    /\ raced \in BOOLEAN

IsLoad(c) == c.kind \in {"services", "groups"}
BoardUnserved(c) == IF IsLoad(c) THEN c.seen = Gone ELSE ~c.done

FetchServices == <<[kind |-> "services", seen |-> Gone]>>
FetchGroups == <<[kind |-> "groups", seen |-> Gone]>>

BoardInit ==
    /\ groups = {}
    /\ placed = [s \in Cards |-> None]
    /\ board = [services |-> [s \in Cards |-> Gone], groups |-> {}]
    /\ boardCalls = FetchServices \o FetchGroups
    /\ raced = FALSE

-------------------------------------------------------------------------------
(* The user *)

\* Where a card can be: the groups that the page has, and the place below them.
Zones == board.groups \cup {None}

\* groupedServices and ungroupedServices: a service of an unknown group is not shown.
Shown(s) == board.services[s] \in Zones

CallBoard(c) ==
    /\ MaySend(boardCalls)
    /\ boardCalls' = Append(boardCalls, c)

ServiceChange(kind, s, to) == [kind |-> kind, card |-> s, to |-> to, done |-> FALSE]

\* handleDragEnd up to its await. A drag while anything is under way is a race: the
\* answer of a load that was served before the move takes the card back.
Drag(s, to) ==
    /\ Shown(s) /\ to \in Zones \ {board.services[s]}
    /\ CallBoard(ServiceChange("move", s, to))
    /\ board' = [board EXCEPT !.services[s] = to]
    /\ raced' = (raced \/ boardCalls # <<>>)
    /\ UNCHANGED <<placed, groups>>

\* Whatever else the user asks for; a race if a move is under way.
AskBoard(c) ==
    /\ CallBoard(c)
    /\ raced' = (raced \/ Pending(boardCalls, {"move"}))
    /\ UNCHANGED <<placed, groups, board>>

\* The dialog is submitted, or a file imported: a service is created, or changed as a
\* whole, group included, with the groups the page knows.
SaveCard(s, to) ==
    /\ to \in Zones
    /\ \/ board.services[s] = Gone /\ AskBoard(ServiceChange("create", s, to))
       \/ Shown(s) /\ AskBoard(ServiceChange("update", s, to))

\* handleDelete and handleDeleteGroup, confirmed.
DeleteCard(s) == Shown(s) /\ AskBoard(ServiceChange("delete", s, Gone))

DropGroup(g) == g \in board.groups /\ AskBoard([kind |-> "dropGroup", group |-> g, done |-> FALSE])

\* handleGroupSubmit for a new group; names and order of groups are left out.
AddGroup(g) == g \notin board.groups /\ AskBoard([kind |-> "addGroup", group |-> g, done |-> FALSE])

-------------------------------------------------------------------------------
(* The server, and the answers *)

\* A service in a group that is gone, or a change of a service that is, is refused.
BoardAccepts(c) ==
    CASE c.kind = "create" -> placed[c.card] = Gone /\ c.to \in groups \cup {None}
      [] c.kind \in {"update", "move"} -> placed[c.card] # Gone /\ c.to \in groups \cup {None}
      [] c.kind = "delete" -> placed[c.card] # Gone
      [] c.kind = "addGroup" -> c.group \notin groups
      [] c.kind = "dropGroup" -> c.group \in groups
      [] OTHER -> TRUE

\* Mutant of Ungrouped: the services of a deleted group stay where they are.
UngroupedNone(g) == placed

\* ON DELETE SET NULL
Ungrouped(g) == [s \in Cards |-> IF placed[s] = g THEN None ELSE placed[s]]

ServeBoard(i) ==
    LET c == boardCalls[i] IN
    /\ BoardUnserved(c) /\ BoardAccepts(c)
    /\ boardCalls' = [boardCalls EXCEPT ![i] =
           CASE c.kind = "services" -> [c EXCEPT !.seen = placed]
             [] c.kind = "groups" -> [c EXCEPT !.seen = groups]
             [] OTHER -> [c EXCEPT !.done = TRUE]]
    /\ placed' = CASE c.kind \in {"create", "update", "delete", "move"} ->
                        [placed EXCEPT ![c.card] = c.to]
                   [] c.kind = "dropGroup" -> Ungrouped(c.group)
                   [] OTHER -> placed
    /\ groups' = CASE c.kind = "addGroup" -> groups \cup {c.group}
                   [] c.kind = "dropGroup" -> groups \ {c.group}
                   [] OTHER -> groups
    /\ UNCHANGED <<board, raced>>

\* Mutant of ReloadBoard: a change of the groups reloads the groups.
ReloadBoardItsOwn(c) ==
    IF c.kind \in {"addGroup", "dropGroup"} THEN FetchGroups
    ELSE IF c.kind \in {"create", "update", "delete"} THEN FetchServices \o FetchGroups ELSE <<>>

\* load() follows every change but a move.
ReloadBoard(c) ==
    IF c.kind \in {"create", "update", "delete", "addGroup", "dropGroup"}
      THEN FetchServices \o FetchGroups ELSE <<>>

\* An answer; a load's is shown as it is. It is a race when an older one is still to come.
AnswerBoard(i) ==
    LET c == boardCalls[i] IN
    /\ ~BoardUnserved(c)
    /\ boardCalls' = RemoveAt(boardCalls, i) \o ReloadBoard(c)
    /\ board' = CASE c.kind = "services" -> [board EXCEPT !.services = c.seen]
                  [] c.kind = "groups" -> [board EXCEPT !.groups = c.seen]
                  [] OTHER -> board
    /\ raced' = (raced \/ (IsLoad(c) /\ Overtakes(boardCalls, i)))
    /\ UNCHANGED <<placed, groups>>

\* A refusal, or an answer that is lost. Only a move that failed is followed by a load.
FailBoard(i) ==
    LET c == boardCalls[i] IN
    /\ boardCalls' = RemoveAt(boardCalls, i)
                       \o (IF c.kind = "move" THEN FetchServices \o FetchGroups ELSE <<>>)
    /\ raced' = (raced \/ IsLoad(c) \/ (c.kind # "move" /\ c.done))
    /\ UNCHANGED <<placed, groups, board>>

ReplyBoard(i) == i \in DOMAIN boardCalls /\ (ServeBoard(i) \/ AnswerBoard(i) \/ FailBoard(i))

BoardNext ==
    \/ \E s \in Cards : DeleteCard(s) \/ \E to \in Places : Drag(s, to) \/ SaveCard(s, to)
    \/ \E g \in GroupIds : AddGroup(g) \/ DropGroup(g)
    \/ \E i \in DOMAIN boardCalls : ReplyBoard(i)

BoardSpec == BoardInit /\ [][BoardNext]_boardVars

-------------------------------------------------------------------------------
(* Properties *)

\* When nothing is under way the page shows the services where they are and the groups
\* there are, and so no service is hidden in a group that is not shown: whatever was
\* created, changed, deleted, moved and imported, whoever of server and page was ahead,
\* and though moves are never reloaded and two requests make one list. What it takes is
\* that no answer overtook an older one, no drag overlapped other calls, and no answer of
\* a load, or of a change that was made, was lost: load() retries and orders nothing.
BoardSettled ==
    boardCalls = <<>> /\ ~raced => board = [services |-> placed, groups |-> groups]
===============================================================================
