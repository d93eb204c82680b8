-------------------------- MODULE AgentCredentials --------------------------
(***************************************************************************)
(* The credentials stored for agents (agents/personal/service.py,          *)
(* agents/shared/service.py, agents/common/common.py).  A personal agent   *)
(* has the secret of its owner; a shared one has, by its credential mode,  *)
(* none, one of the administrator, or one per user.  A request loads the   *)
(* agent without a lock, decides by what it has loaded, and writes at the  *)
(* end: the ORM names the columns that differ from the loaded ones.  Only  *)
(* the DELETE of a secret is executed at once and holds its row until the  *)
(* transaction ends.                                                       *)
(*                                                                         *)
(* A secret is reduced to the type of its payload; "none" means that there *)
(* is no row.                                                              *)
(***************************************************************************)
EXTENDS Naturals

CONSTANTS
  Personal,     \* agents of a user
  Shared,       \* agents of the administrators
  Editors,      \* requests that change an agent or a credential
  NoEditor,
  MaxEdits      \* bound on the requests

ASSUME CredentialAssumption ==
  Personal \cap Shared = {} /\ NoEditor \notin Editors /\ MaxEdits \in Nat

VARIABLES
  agent,        \* agent[a]: state, auth_type, credential_mode
  secret,       \* secret[a]: the owner's or the administrator's credential
  mine,         \* mine[a]: the credential of the one user of the model
  edit,         \* edit[w]: the request and what it has loaded
  held,         \* held[a]: who has deleted the secret's row and not ended yet
  overlapped,   \* overlapped[a]: history, two requests for the agent were open at once
  edits         \* number of requests

credentialVars == <<agent, secret, mine, edit, held, overlapped, edits>>

Credentialed == Personal \cup Shared
Auths == {"none", "bearer", "basic"}
Modes == {"none", "shared", "user"}

NoEdit ==
  [pc |-> "idle", op |-> "none", about |-> "none", loaded |-> [auth |-> "none", mode |-> "none"],
   auth |-> "none", mode |-> "none", given |-> "none", write |-> "none"]

CredentialInit ==
  /\ agent = [a \in Credentialed |-> [state |-> "absent", auth |-> "none", mode |-> "none"]]
  /\ secret = [a \in Credentialed |-> "none"]
  /\ mine = [a \in Shared |-> "none"]
  /\ edit = [w \in Editors |-> NoEdit]
  /\ held = [a \in Credentialed |-> NoEditor]
  /\ overlapped = [a \in Credentialed |-> FALSE]
  /\ edits = 0

-----------------------------------------------------------------------------
(***************************************************************************)
(* Creation: the agent and its secret are inserted in one transaction.     *)
(***************************************************************************)
\* A secret of another type than the agent's, or one for no authentication, is refused.
Complete(auth, given) == given = auth

CreatePersonal(a, auth, given) ==
  /\ agent[a].state = "absent" /\ Complete(auth, given)
  /\ agent' = [agent EXCEPT ![a] = [state |-> "live", auth |-> auth, mode |-> "none"]]
  /\ secret' = [secret EXCEPT ![a] = given]
  /\ UNCHANGED <<mine, edit, held, overlapped, edits>>

ResolvedMode(auth, asked, existing) ==
  LET mode == IF asked # "keep" THEN asked ELSE existing
  IN  IF auth = "none" THEN "none" ELSE IF mode = "none" THEN "shared" ELSE mode

\* In the mode of the users a given secret is ignored.
CreateShared(a, auth, asked, given) ==
  LET mode == ResolvedMode(auth, asked, "none") IN
  /\ agent[a].state = "absent"
  /\ IF mode = "user" THEN given \in {"none", auth} ELSE Complete(auth, given)
  /\ agent' = [agent EXCEPT ![a] = [state |-> "live", auth |-> auth, mode |-> mode]]
  /\ secret' = [secret EXCEPT ![a] = IF mode = "user" THEN "none" ELSE given]
  /\ UNCHANGED <<mine, edit, held, overlapped, edits>>

-----------------------------------------------------------------------------
(***************************************************************************)
(* Requests about an existing agent.                                       *)
(***************************************************************************)
Open(w, a, request) ==
  /\ edit[w].pc = "idle" /\ agent[a].state = "live"
  /\ edits < MaxEdits /\ edits' = edits + 1
  /\ edit' = [edit EXCEPT ![w] = request]
  /\ overlapped' = [overlapped EXCEPT ![a] =
       @ \/ \E v \in Editors : edit[v].pc # "idle" /\ edit[v].about = a]
  /\ UNCHANGED <<agent, secret, mine, held>>

Loaded(a) == [auth |-> agent[a].auth, mode |-> agent[a].mode]

BeginEdit(w, a, auth, asked, given) ==
  LET newAuth == IF auth = "keep" THEN agent[a].auth ELSE auth
      newMode == IF a \in Personal \/ (auth = "keep" /\ asked = "keep") THEN agent[a].mode
                 ELSE ResolvedMode(newAuth, asked, agent[a].mode)
  IN  /\ a \in Personal => asked = "keep"
      /\ given \in {"none", newAuth}
      /\ Open(w, a, [NoEdit EXCEPT !.pc = "sync", !.op = "edit", !.about = a,
                       !.loaded = Loaded(a), !.auth = newAuth, !.mode = newMode,
                       !.given = given])

BeginDelete(w, a) ==
  Open(w, a, [NoEdit EXCEPT !.pc = "sync", !.op = "delete", !.about = a, !.loaded = Loaded(a)])

\* The user's own credential, of the type the agent has when it is loaded.
BeginSave(w, a) ==
  /\ agent[a].mode = "user" /\ agent[a].auth # "none"
  /\ Open(w, a, [NoEdit EXCEPT !.pc = "commit", !.op = "save", !.about = a,
                   !.loaded = Loaded(a), !.given = agent[a].auth,
                   !.write = IF mine[a] = "none" THEN "insert" ELSE "update"])

BeginForget(w, a) ==
  /\ agent[a].mode = "user"
  /\ Open(w, a, [NoEdit EXCEPT !.pc = "commit", !.op = "forget", !.about = a,
                   !.loaded = Loaded(a)])

-----------------------------------------------------------------------------
(***************************************************************************)
(* The secret: deleted at once, or read and left, updated or inserted.     *)
(***************************************************************************)
DropsPersonal(e) == e.auth = "none"
DropsShared(e) == e.auth = "none" \/ e.mode = "user"
Drops(e) ==
  e.op = "delete" \/ IF e.about \in Personal THEN DropsPersonal(e) ELSE DropsShared(e)

DropSecret(w) ==
  LET a == edit[w].about IN
  /\ edit[w].pc = "sync" /\ Drops(edit[w])
  /\ held[a] = NoEditor
  /\ held' = [held EXCEPT ![a] = IF secret[a] = "none" THEN @ ELSE w]
  /\ edit' = [edit EXCEPT ![w].pc = "commit"]
  /\ UNCHANGED <<agent, secret, mine, overlapped, edits>>

\* Without a new secret there must be one, and the type must be the old one.
\* Mutant: a change of the type keeps the old secret.
KeptThough(e, there) == there # "none"
Kept(e, there) == there # "none" /\ e.loaded.auth = e.auth

ReadSecret(w) ==
  LET e == edit[w]
      there == secret[e.about]
  IN  /\ e.pc = "sync" /\ ~Drops(e)
      /\ e.given = "none" => Kept(e, there)
      /\ edit' = [edit EXCEPT ![w].pc = "commit",
           ![w].write = IF e.given = "none" THEN "none"
                        ELSE IF there = "none" THEN "insert" ELSE "update"]
      /\ UNCHANGED <<agent, secret, mine, held, overlapped, edits>>

Updated(e, a) ==
  [agent[a] EXCEPT
     !.auth = IF e.auth = e.loaded.auth THEN @ ELSE e.auth,
     !.mode = IF e.mode = e.loaded.mode THEN @ ELSE e.mode,
     !.state = IF e.op = "delete" THEN "deleted" ELSE @]

\* An UPDATE of a row that is gone and an INSERT of one that is there fail.
Possible(write, there) ==
  /\ write = "insert" => there = "none"
  /\ write = "update" => there # "none"

CommitEdit(w) ==
  LET e == edit[w]
      a == e.about
  IN  /\ e.pc = "commit" /\ e.op \in {"edit", "delete"}
      /\ e.write # "none" => held[a] = NoEditor
      /\ Possible(e.write, secret[a])
      /\ agent' = [agent EXCEPT ![a] =
           Updated(IF e.op = "delete" THEN [e EXCEPT !.auth = e.loaded.auth, !.mode = e.loaded.mode]
                    ELSE e, a)]
      /\ secret' = [secret EXCEPT ![a] =
           IF e.write # "none" THEN e.given ELSE IF held[a] = w THEN "none" ELSE @]
      /\ mine' = IF e.op = "delete" /\ a \in Shared THEN [mine EXCEPT ![a] = "none"] ELSE mine
      /\ held' = [held EXCEPT ![a] = IF @ = w THEN NoEditor ELSE @]
      /\ edit' = [edit EXCEPT ![w] = NoEdit]
      /\ UNCHANGED <<overlapped, edits>>

CommitMine(w) ==
  LET e == edit[w] IN
  /\ e.pc = "commit" /\ e.op \in {"save", "forget"}
  /\ Possible(e.write, mine[e.about])
  /\ mine' = [mine EXCEPT ![e.about] = IF e.op = "save" THEN e.given ELSE "none"]
  /\ edit' = [edit EXCEPT ![w] = NoEdit]
  /\ UNCHANGED <<agent, secret, held, overlapped, edits>>

\* The request is refused, or a statement fails: the transaction is rolled back.
EditFails(w) ==
  /\ edit[w].pc # "idle"
  /\ held' = [a \in Credentialed |-> IF held[a] = w THEN NoEditor ELSE held[a]]
  /\ edit' = [edit EXCEPT ![w] = NoEdit]
  /\ UNCHANGED <<agent, secret, mine, overlapped, edits>>

CredentialNext ==
  \/ \E a \in Personal, auth \in Auths, given \in Auths : CreatePersonal(a, auth, given)
  \/ \E a \in Shared, auth \in Auths, asked \in Modes \cup {"keep"}, given \in Auths :
       CreateShared(a, auth, asked, given)
  \/ \E w \in Editors :
       \/ \E a \in Credentialed :
            \/ \E auth \in Auths \cup {"keep"}, asked \in Modes \cup {"keep"}, given \in Auths :
                 BeginEdit(w, a, auth, asked, given)
            \/ BeginDelete(w, a)
       \/ \E a \in Shared : BeginSave(w, a) \/ BeginForget(w, a)
       \/ DropSecret(w) \/ ReadSecret(w)
       \/ CommitEdit(w) \/ CommitMine(w) \/ EditFails(w)

CredentialSpec == CredentialInit /\ [][CredentialNext]_credentialVars

-----------------------------------------------------------------------------
CredentialTypeOK ==
  /\ agent \in [Credentialed -> [state: {"absent", "live", "deleted"}, auth: Auths, mode: Modes]]
  /\ secret \in [Credentialed -> Auths] /\ mine \in [Shared -> Auths]
  /\ \A w \in Editors : edit[w].pc \in {"idle", "sync", "commit"}
  /\ held \in [Credentialed -> Editors \cup {NoEditor}]
  /\ overlapped \in [Credentialed -> BOOLEAN] /\ edits \in 0 .. MaxEdits

\* The secret the runtime will look for.
Expected(a) ==
  IF agent[a].state # "live" \/ (a \in Shared /\ agent[a].mode # "shared") THEN "none"
  ELSE agent[a].auth

\* Over any sequence of edits, changes of mode, deletions and failures, an agent has the
\* secret its authentication needs and no other, as long as no two requests about it have
\* overlapped (personal/service.py:796-842, shared/service.py:435-455 and 878-934).
SecretFits ==
  \A a \in Credentialed : ~overlapped[a] =>
    /\ secret[a] = Expected(a)
    /\ a \in Shared => (agent[a].auth = "none" <=> agent[a].mode = "none")
    /\ a \in Shared /\ agent[a].state = "deleted" => mine[a] = "none"

=============================================================================
