---------------------------- MODULE Repositories ----------------------------
(***************************************************************************)
(* Repositories: rows of the database and directories on disk. A row       *)
(* belongs to the user who asked for it, and the name is unique among the  *)
(* rows of one user; the directory is at the login it was created under,   *)
(* the user's or an organization's, and the name it had then. Requests     *)
(* create, rename and delete; all users administer one organization.       *)
(***************************************************************************)
EXTENDS Database

CONSTANT Names

VARIABLES
  named,   \* the name in the row that a creation inserted, or "none"
  disk,    \* the creation that made the directory at a path, or "none"
  op,      \* where a request is, and what it is about
  excused  \* creations that shared their path with another, or were renamed

repositoryVars == <<named, disk, op, excused>>

Logins == Users \union {"org"}
Paths == Logins \X Names
NoOp == [at |-> "idle", owner |-> "none", login |-> "none", name |-> "none", target |-> "none"]

RepositoryTypeOK ==
  /\ named \in [Requests -> Names \union {"none"}]
  /\ disk \in [Paths -> Requests \union {"none"}]
  /\ \A q \in Requests :
       /\ op[q].at \in {"idle", "look up", "insert", "init", "undo row", "undo directory",
                        "created", "rename", "audit", "delete", "answered", "done", "failed"}
       /\ op[q] = NoOp \/ <<op[q].login, op[q].name>> \in Paths \/ op[q].target \in Requests
  /\ excused \subseteq Requests

RepositoryInit ==
  /\ named = [q \in Requests |-> "none"]
  /\ disk = [p \in Paths |-> "none"]
  /\ op = [q \in Requests |-> NoOp]
  /\ excused = {}

Path(q) == <<op[q].login, op[q].name>>
HasRow(q) == named[q] # "none"
Working(q) == op[q].at \notin {"idle", "answered", "done", "failed"}

Move(q, from, to) ==
  /\ op[q].at = from
  /\ op' = [op EXCEPT ![q].at = to]

-----------------------------------------------------------------------------
(* CreateRepositoryUsecase, for CreateRepository and CreateForOrg. *)

StartRepository(q, user, login, name) ==
  /\ op[q] = NoOp
  /\ login \in {user, "org"}
  /\ op' = [op EXCEPT ![q] = [NoOp EXCEPT !.at = "look up", !.owner = user,
                                          !.login = login, !.name = name]]
  /\ UNCHANGED <<named, disk, excused>>

Taken(owner, name) == \E p \in Requests : named[p] = name /\ op[p].owner = owner

\* A look-up that fails counts as a name that is free.
GetByOwnerAndName(q) ==
  /\ \/ Move(q, "look up", "insert")
     \/ Taken(op[q].owner, op[q].name) /\ Move(q, "look up", "failed")
  /\ UNCHANGED <<named, disk, excused>>

\* Others whose creation has, or may still make or remove, a directory at the path.
Sharing(q) ==
  {p \in Requests \ {q} : Path(p) = Path(q) /\
     (HasRow(p) \/ op[p].at \in {"init", "undo row", "undo directory", "created"})}

\* Mutant of InsertRepository: a row that is refused is cleaned up after.
InsertRepositoryOrCleanUp(q) ==
  \/ /\ ~Taken(op[q].owner, op[q].name)
     /\ Move(q, "insert", "init")
     /\ named' = [named EXCEPT ![q] = op[q].name]
     /\ excused' = excused \union Sharing(q) \union {p \in {q} : Sharing(q) # {}}
     /\ UNCHANGED disk
  \/ /\ Taken(op[q].owner, op[q].name)
     /\ Move(q, "insert", "undo row")
     /\ UNCHANGED <<named, disk, excused>>

InsertRepository(q) ==
  /\ ~Taken(op[q].owner, op[q].name)
  /\ Move(q, "insert", "init")
  /\ named' = [named EXCEPT ![q] = op[q].name]
  /\ excused' = excused \union Sharing(q) \union {p \in {q} : Sharing(q) # {}}
  /\ UNCHANGED disk

\* InitBare or AutoInitRepository. A directory that is there already is an error like others.
InitDirectory(q) ==
  \/ /\ Move(q, "init", "created")
     /\ disk[Path(q)] = "none"
     /\ disk' = [disk EXCEPT ![Path(q)] = q]
     /\ UNCHANGED <<named, excused>>
  \/ Move(q, "init", "undo row") /\ UNCHANGED <<named, disk, excused>>

\* The errors of both undoing steps are dropped.
UndoRow(q) ==
  /\ Move(q, "undo row", "undo directory")
  /\ named' \in {named, [named EXCEPT ![q] = "none"]}
  /\ UNCHANGED <<disk, excused>>

UndoDirectory(q) ==
  /\ Move(q, "undo directory", "failed")
  /\ disk' = [disk EXCEPT ![Path(q)] = "none"]
  /\ UNCHANGED <<named, excused>>

AnswerCreated(q) == Move(q, "created", "answered") /\ UNCHANGED <<named, disk, excused>>

-----------------------------------------------------------------------------
(* UpdateRepository and DeleteRepository, by the owner. *)

GetOwned(q, p, at) ==
  /\ op[q] = NoOp /\ HasRow(p)
  /\ op' = [op EXCEPT ![q].at = at, ![q].target = p]
  /\ UNCHANGED <<named, disk, excused>>

\* The unique key decides as the look-up before it does; a row that is gone is not missed.
UpdateName(q, name) ==
  LET p == op[q].target IN
  /\ \/ /\ Move(q, "rename", "done")
        /\ HasRow(p) /\ (named[p] = name \/ ~Taken(op[p].owner, name))
        /\ named' = [named EXCEPT ![p] = name]
        /\ excused' = excused \union {p}
     \/ Move(q, "rename", "done") /\ ~HasRow(p) /\ UNCHANGED <<named, excused>>
     \/ Move(q, "rename", "failed") /\ Taken(op[p].owner, name) /\ UNCHANGED <<named, excused>>
  /\ UNCHANGED disk

RecordDeletion(q) == Move(q, "audit", "delete") /\ UNCHANGED <<named, disk, excused>>

\* The directory stays.
DeleteRepository(q) ==
  /\ Move(q, "delete", "done")
  /\ named' = [named EXCEPT ![op[q].target] = "none"]
  /\ UNCHANGED <<disk, excused>>

-----------------------------------------------------------------------------

\* A statement fails, or the process stops, between any two steps.
AbandonRepository(q) ==
  /\ Working(q)
  /\ Move(q, op[q].at, "failed")
  /\ UNCHANGED <<named, disk, excused>>

RepositoryBegins(q) ==
  \/ \E user \in Users, login \in Logins, name \in Names : StartRepository(q, user, login, name)
  \/ \E p \in Requests, at \in {"rename", "audit"} : GetOwned(q, p, at)

RepositoryStep(q) ==
  \/ GetByOwnerAndName(q) \/ InsertRepository(q) \/ InitDirectory(q)
  \/ UndoRow(q) \/ UndoDirectory(q) \/ AnswerCreated(q)
  \/ \E name \in Names : UpdateName(q, name)
  \/ RecordDeletion(q) \/ DeleteRepository(q)
  \/ AbandonRepository(q)

RepositoryNext == \E q \in Requests : RepositoryStep(q)

-----------------------------------------------------------------------------
(* Properties. *)

Created == {q \in Requests : op[q].at = "answered" /\ HasRow(q)}

\* A repository has a directory of its own where git looks for it, at its login and name, from
\* the moment its creation is answered until it is renamed, whatever is deleted, renamed,
\* retried or abandoned meanwhile: only sharing a path with another creation may cost it that.
RepositoryServed == \A q \in Created \ excused : disk[<<op[q].login, named[q]>>] = q

\* The comment before InitBare that a new repository can accept its first push: it has its
\* directory as long as its owner, who alone may rename or delete it, asks for nothing else.
RepositoryKept ==
  \A q \in Created :
    (\A p \in Requests \ {q} : op[p].owner # op[q].owner /\ op[p].target # q) =>
      disk[Path(q)] = q
=============================================================================
