------------------------------ MODULE Account ------------------------------
(***************************************************************************)
(* The account of one user name: sign-up behind the limiter of its address *)
(* (internal/logic/user.go, internal/router/router.go), the updates of     *)
(* profile and address, and the upload of a picture                        *)
(* (internal/logic/avatar.go), by requests that run at the same time.      *)
(* Rows and files of other users are others: rows are found by user_id     *)
(* and files are named after it.                                           *)
(*                                                                         *)
(* A value in a column, and the picture in a file, is the request that     *)
(* wrote it.  The user id is the sign-up request that drew it.             *)
(***************************************************************************)
EXTENDS RateLimit, FiniteSets

CONSTANTS Requests,
          NoRequest,   \* an empty column, a missing or a torn file, no account
          Patches,     \* sets of columns a PATCH may carry
          Exts,        \* picture formats
          MaxFaults    \* bound on failed calls, lost answers and crashes

Columns == {"nickname", "phone", "avatar", "address"}

ASSUME RequestsAssumption == NoRequest \notin Requests
ASSUME PatchesAssumption ==
  Patches \subseteq SUBSET {"nickname", "phone", "avatar"}

VARIABLES
  owner,      \* the user id in the row of the name
  row,        \* the columns of that row
  kind,       \* kind[r]: what r asks for
  cols,       \* cols[r]: the columns it submits
  pc,         \* pc[r]: its next call
  answer,     \* answer[r]: what its client was told
  before,     \* history: the requests done when r arrived
  ext,        \* ext[r]: format of the picture r uploads
  path,       \* path[e]: the file of format e, named by the request that made it
  content,    \* content[i]: the picture in file i
  handle,     \* handle[r]: the file r has opened
  faults      \* faults so far

rowVars     == <<owner, row>>
requestVars == <<kind, cols, before, ext>>
diskVars    == <<path, content, handle>>
vars == <<limiterVars, rowVars, requestVars, pc, answer, diskVars, faults>>

AccountTypeOK ==
  /\ LimiterTypeOK
  /\ owner \in Requests \cup {NoRequest}
  /\ row \in [Columns -> Requests \cup {NoRequest}]
  /\ kind \in [Requests -> {"none", "signUp", "update", "upload"}]
  /\ cols \in [Requests -> SUBSET Columns]
  /\ pc \in [Requests -> {"idle", "check", "insert", "read", "write",
                          "create", "fill", "clean", "save", "done"}]
  /\ answer \in [Requests -> {"none", "ok", "exist", "limited", "rejected", "error"}]
  /\ before \in [Requests -> SUBSET Requests]
  /\ ext \in [Requests -> Exts \cup {"none"}]
  /\ path \in [Exts -> Requests \cup {NoRequest}]
  /\ content \in [Requests -> Requests \cup {NoRequest}]
  /\ handle \in [Requests -> Requests \cup {NoRequest}]
  /\ faults \in Nat

Init ==
  /\ LimiterInit
  /\ owner = NoRequest /\ row = [c \in Columns |-> NoRequest]
  /\ kind = [r \in Requests |-> "none"] /\ cols = [r \in Requests |-> {}]
  /\ pc = [r \in Requests |-> "idle"] /\ answer = [r \in Requests |-> "none"]
  /\ before = [r \in Requests |-> {}] /\ ext = [r \in Requests |-> "none"]
  /\ path = [e \in Exts |-> NoRequest]
  /\ content = [r \in Requests |-> NoRequest]
  /\ handle = [r \in Requests |-> NoRequest]
  /\ faults = 0

Fault   == faults < MaxFaults /\ faults' = faults + 1
NoFault == UNCHANGED faults

Goes(r, next)  == pc' = [pc EXCEPT ![r] = next] /\ UNCHANGED answer
Answers(r, a)  == pc' = [pc EXCEPT ![r] = "done"] /\ answer' = [answer EXCEPT ![r] = a]

Arrives(r, k, cs) ==
  /\ pc[r] = "idle"
  /\ kind' = [kind EXCEPT ![r] = k]
  /\ cols' = [cols EXCEPT ![r] = cs]
  /\ before' = [before EXCEPT ![r] = {q \in Requests : pc[q] = "done"}]

-----------------------------------------------------------------------------
(* SignUp, behind IPRateLimitMiddleware.                                    *)

\* A request that binds badly, or has a weak password, has spent its token too.
ArriveSignUp(r, k) ==
  /\ Arrives(r, "signUp", {"nickname"})
  /\ \/ Admit(k) /\ (Goes(r, "check") \/ Answers(r, "rejected"))
     \/ Refuse(k) /\ Answers(r, "limited")
  /\ NoFault
  /\ UNCHANGED <<ext, rowVars, diskVars>>

\* GetUserByUsername, to save the hash of a name that is taken.
CheckName(r) ==
  /\ pc[r] = "check"
  /\ \/ (IF owner = NoRequest THEN Goes(r, "insert") ELSE Answers(r, "exist")) /\ NoFault
     \/ Answers(r, "error") /\ Fault
  /\ UNCHANGED <<limiterVars, rowVars, requestVars, diskVars>>

Inserted(r) ==
  /\ owner' = r
  /\ row' = [c \in Columns |-> IF c = "nickname" THEN r ELSE NoRequest]

\* Fault model: without the unique key.
CreateUserNoUniqueKey(r) ==
  /\ pc[r] = "insert"
  /\ \/ Inserted(r) /\ Answers(r, "ok") /\ NoFault
     \/ (UNCHANGED rowVars \/ Inserted(r)) /\ Answers(r, "error") /\ Fault
  /\ UNCHANGED <<limiterVars, requestVars, diskVars>>

\* CreateUser: the unique key turns the second of two that passed the check
\* away.  An error does not tell whether the row is there.
CreateUser(r) ==
  /\ pc[r] = "insert"
  /\ \/ owner = NoRequest /\ Inserted(r) /\ Answers(r, "ok") /\ NoFault
     \/ owner # NoRequest /\ UNCHANGED rowVars /\ Answers(r, "exist") /\ NoFault
     \/ /\ UNCHANGED rowVars \/ (owner = NoRequest /\ Inserted(r))
        /\ Answers(r, "error") /\ Fault
  /\ UNCHANGED <<limiterVars, requestVars, diskVars>>

-----------------------------------------------------------------------------
(* UpdateUserProfile and UpdateUserAddress.                                 *)

\* Whoever sends one has logged in: there is an account, and none is deleted.
LoggedIn == owner # NoRequest

ArriveUpdate(r, cs) ==
  /\ LoggedIn
  /\ Arrives(r, "update", cs)
  /\ Goes(r, "read")
  /\ NoFault
  /\ UNCHANGED <<limiterVars, ext, rowVars, diskVars>>

\* The user is looked up; a PATCH without columns is done.
CheckUser(r) ==
  /\ pc[r] = "read"
  /\ \/ (IF cols[r] = {} THEN Answers(r, "ok") ELSE Goes(r, "write")) /\ NoFault
     \/ Answers(r, "error") /\ Fault
  /\ UNCHANGED <<limiterVars, rowVars, requestVars, diskVars>>

\* Fault model: columns that were not submitted are saved with their zero value.
UpdatedWholeRow(r) == row' = [c \in Columns |-> IF c \in cols[r] THEN r ELSE NoRequest]

\* Updates(map): the columns in the map and no other.
Updated(r) == row' = [c \in Columns |-> IF c \in cols[r] THEN r ELSE row[c]]

UpdateUser(r) ==
  /\ pc[r] = "write"
  /\ \/ Updated(r) /\ Answers(r, "ok") /\ NoFault
     \/ (Updated(r) \/ UNCHANGED row) /\ Answers(r, "error") /\ Fault
  /\ UNCHANGED <<limiterVars, owner, requestVars, diskVars>>

-----------------------------------------------------------------------------
(* UploadAvatar.                                                            *)

\* Size and first bytes are checked before anything is done.
ArriveUpload(r, e) ==
  /\ LoggedIn
  /\ Arrives(r, "upload", {"avatar"})
  /\ ext' = [ext EXCEPT ![r] = e]
  /\ Goes(r, "create") \/ Answers(r, "rejected")
  /\ NoFault
  /\ UNCHANGED <<limiterVars, rowVars, diskVars>>

\* os.Create makes the file or empties the one that is there.
CreateFile(r) ==
  /\ pc[r] = "create"
  /\ \/ LET i == IF path[ext[r]] = NoRequest THEN r ELSE path[ext[r]]
        IN  /\ path' = [path EXCEPT ![ext[r]] = i]
            /\ content' = [content EXCEPT ![i] = NoRequest]
            /\ handle' = [handle EXCEPT ![r] = i]
            /\ Goes(r, "fill") /\ NoFault
     \/ UNCHANGED diskVars /\ Answers(r, "error") /\ Fault
  /\ UNCHANGED <<limiterVars, rowVars, requestVars>>

RemoveFiles(es) == path' = [e \in Exts |-> IF e \in es THEN NoRequest ELSE path[e]]

\* The other uploads that have the file of r open, or had it since r arrived.
Overwriting(r) == {q \in Requests \ ({r} \cup before[r]) : handle[q] = handle[r]}

\* writeAvatar and Close.  A picture that does not decode, or a disk that is
\* full, removes what is at the path, whoever made it.
WriteAvatar(r) ==
  /\ pc[r] = "fill"
  /\ \/ /\ \/ content' = [content EXCEPT ![handle[r]] = r]
           \/ Overwriting(r) # {} /\ content' = [content EXCEPT ![handle[r]] = NoRequest]
        /\ UNCHANGED path /\ Goes(r, "clean") /\ NoFault
     \/ /\ \/ RemoveFiles({ext[r]}) /\ NoFault
           \/ UNCHANGED path /\ Fault
        /\ content' = [content EXCEPT ![handle[r]] = NoRequest]
        /\ Answers(r, "error")
  /\ UNCHANGED <<limiterVars, rowVars, requestVars, handle>>

\* Fault model: the file just written goes with the others.
CleanStaleAvatarsAll(r) ==
  /\ pc[r] = "clean"
  /\ RemoveFiles(Exts)
  /\ Goes(r, "save")
  /\ NoFault
  /\ UNCHANGED <<limiterVars, rowVars, requestVars, content, handle>>

\* The files of the other formats; one that cannot be removed stays.
CleanStaleAvatars(r) ==
  /\ pc[r] = "clean"
  /\ \/ RemoveFiles(Exts \ {ext[r]}) /\ NoFault
     \/ (\E es \in SUBSET (Exts \ {ext[r]}) : RemoveFiles(es)) /\ Fault
  /\ Goes(r, "save")
  /\ UNCHANGED <<limiterVars, rowVars, requestVars, content, handle>>

SaveAvatar(r) ==
  /\ pc[r] = "save"
  /\ \/ Updated(r) /\ Answers(r, "ok") /\ NoFault
     \/ (Updated(r) \/ UNCHANGED row) /\ Answers(r, "error") /\ Fault
  /\ UNCHANGED <<limiterVars, owner, requestVars, diskVars>>

-----------------------------------------------------------------------------
\* The buckets are in memory: the limiter starts anew, and so does its clock.
\* Requests die without an answer and leave their files as they are.
Crash ==
  /\ Fault
  /\ Restart
  /\ pc' = [r \in Requests |-> IF pc[r] = "idle" THEN "idle" ELSE "done"]
  /\ UNCHANGED <<rowVars, requestVars, answer, diskVars>>

ClockTicks == Tick /\ UNCHANGED <<rowVars, requestVars, pc, answer, diskVars, faults>>

Next ==
  \/ \E r \in Requests :
       \/ \E k \in Keys : ArriveSignUp(r, k)
       \/ CheckName(r) \/ CreateUser(r)
       \/ \E cs \in Patches \cup {{"address"}} : ArriveUpdate(r, cs)
       \/ CheckUser(r) \/ UpdateUser(r)
       \/ \E e \in Exts : ArriveUpload(r, e)
       \/ CreateFile(r) \/ WriteAvatar(r) \/ CleanStaleAvatars(r) \/ SaveAvatar(r)
  \/ ClockTicks
  \/ Crash

Spec == Init /\ [][Next]_vars

-----------------------------------------------------------------------------
(* Properties.                                                              *)

\* However sign-ups of one name race, one that is told it has the name has it,
\* and one that is told another has it is right.
SignUpTruthful ==
  \A r \in Requests : kind[r] = "signUp" =>
    /\ answer[r] = "ok" => owner = r
    /\ answer[r] = "exist" => owner \notin {r, NoRequest}

\* No update is lost: what a request was told is saved is in the row until a
\* request that submits the same column, and was not done before, saves its own.
AnsweredUpdateStands ==
  \A r \in Requests : answer[r] = "ok" =>
    \A c \in cols[r] : row[c] = r \/ \E q \in Requests : /\ row[c] = q
                                                         /\ c \in cols[q]
                                                         /\ q \notin before[r]

\* Whatever earlier uploads left behind, failed, interrupted or mixed up with
\* one another, an upload that runs after them and succeeds mends: the file of
\* its format is there and has its picture.
AvatarHeals ==
  \A r \in Requests :
    /\ kind[r] = "upload"
    /\ answer[r] = "ok"
    /\ \A q \in Requests \ {r} : kind[q] = "upload" => q \in before[r]
    => /\ path[ext[r]] # NoRequest
       /\ content[path[ext[r]]] = r
=============================================================================
